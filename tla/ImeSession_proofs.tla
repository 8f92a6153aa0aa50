------------------------- MODULE ImeSession_proofs -------------------------
(***************************************************************************)
(* Machine-checked proofs about ImeSession, for every set of clients,      *)
(* letters and environment events.                                         *)
(***************************************************************************)
EXTENDS ImeSession, TLAPS

\* Every step of the system is one of these actions.
LEMMA NextCases ==
    ASSUME Next
    PROVE  \/ \E f \in Clients \cup {None} : SwitchFocus(f)
           \/ \E c \in Clients :
                \/ \E op \in KeyOps, letter \in SUBSET Letters :
                       KeyDown(c, op, letter) \/ KeyBypass(c, op, letter)
                \/ KeyUp(c) \/ ShiftUp(c) \/ ButtonClick(c)
                \/ Deactivate(c) \/ Activate(c) \/ HandleGain(c) \/ HandleLose(c)
                \/ Serve(c) \/ Return(c)
                \/ (\E started \in BOOLEAN : RunEdit(c, started)) \/ DropEdit(c)
                \/ CompositionTerminated(c)
           \/ MaintBegin \/ FetchEnd \/ RedeployEnd \/ SelectSchema \/ TrayToggle
           \/ Crash \/ Restart
  <1>1. \A l \in Letters : {l} \in SUBSET Letters
    OBVIOUS
  <1>2. {"letter", "confirm", "cancel", "caps"} \subseteq KeyOps /\ {} \in SUBSET Letters
    BY DEF KeyOps
  <1> QED
    BY <1>1, <1>2 DEF Next, UserStep, CapsDown, ClientStep, RunEdits, MaintEnd

-----------------------------------------------------------------------------
(* Types of the helpers every action is built from. *)

\* An empty response is a response.
LEMMA SilentType ==
    ASSUME NEW k \in {"ok", "unhandled", "busy", "broken"}
    PROVE  Silent(k) \in Answers
  BY DEF Silent, Answers

\* A request leaves a well-typed call.
LEMMA RequestType ==
    ASSUME TypeOK, NEW c \in Clients, NEW op \in Ops, NEW letter \in SUBSET Letters,
           Request(c, op, letter)
    PROVE  call' \in [Clients -> Calls]
  BY DEF TypeOK, Request, Calls

\* The end of a request leaves a well-typed call and response.
LEMMA HangupType ==
    ASSUME TypeOK, NEW c \in Clients, Hangup(c)
    PROVE  call' \in [Clients -> Calls] /\ answer' \in [Clients -> Answers]
  <1>1. IdleCall \in Calls
    BY DEF IdleCall, Calls, Ops
  <1>2. Silent("ok") \in Answers
    BY SilentType
  <1> QED
    BY <1>1, <1>2 DEF TypeOK, Hangup

\* A change of phase leaves a well-typed call.
LEMMA PhaseType ==
    ASSUME TypeOK, NEW c \in Clients, NEW p \in {"idle", "sent", "serving", "answered"},
           call' = [call EXCEPT ![c].phase = p]
    PROVE  call' \in [Clients -> Calls]
  <1>1. call[c] \in Calls
    BY DEF TypeOK
  <1>2. [call[c] EXCEPT !.phase = p] \in Calls
    BY <1>1 DEF Calls
  <1> QED
    BY <1>2 DEF TypeOK

\* A response of the server leaves a well-typed call and response.
LEMMA ReplyType ==
    ASSUME TypeOK, NEW c \in Clients, NEW a \in Answers, Reply(c, a)
    PROVE  call' \in [Clients -> Calls] /\ answer' \in [Clients -> Answers]
  <1>1. call' \in [Clients -> Calls]
    BY PhaseType DEF Reply
  <1>2. answer' \in [Clients -> Answers]
    BY DEF TypeOK, Reply
  <1> QED
    BY <1>1, <1>2

\* An edit session made of a response is well typed.
LEMMA ScheduleType ==
    ASSUME TypeOK, NEW c \in Clients, Schedule(c)
    PROVE  edits' \in [Clients -> Seq(Edits)]
  <1> DEFINE e == [commit |-> answer[c].commit, preedit |-> answer[c].preedit,
                   composing |-> answer[c].composing]
  <1>1. answer[c] \in Answers /\ edits[c] \in Seq(Edits)
    BY DEF TypeOK
  <1>2. e \in Edits
    BY <1>1 DEF Answers, Edits
  <1>3. Append(edits[c], e) \in Seq(Edits)
    BY <1>1, <1>2
  <1> QED
    BY <1>3 DEF TypeOK, Schedule

\* Rime ends in a composition and a commit made of typed letters.
LEMMA RimeKeyType ==
    ASSUME TypeOK, NEW op, NEW letter \in SUBSET Letters, NEW r \in RimeKey(op, letter)
    PROVE  r[1] \in SUBSET Letters /\ r[2] \in SUBSET Letters
  BY DEF TypeOK, RimeKey

\* And so it does with a key it rejects.
LEMMA RimeRejectType ==
    ASSUME TypeOK, NEW op, NEW r \in RimeReject(op)
    PROVE  r[1] \in SUBSET Letters /\ r[2] \in SUBSET Letters
  BY DEF TypeOK, RimeReject

\* Every step keeps every variable in its type.
LEMMA TypeStep ==
    ASSUME TypeOK, Next
    PROVE  TypeOK'
  <1> USE DEF serverVars, userVars, viewVars, flagVars, callVars
  <1>1. ASSUME NEW f \in Clients \cup {None}, SwitchFocus(f)
        PROVE  TypeOK'
    BY <1>1 DEF TypeOK, SwitchFocus
  <1>2. ASSUME NEW c \in Clients, KeyUp(c)
        PROVE  TypeOK'
    BY <1>2, RequestType DEF TypeOK, KeyUp, Press, Ops
  <1>3. ASSUME NEW c \in Clients, ShiftUp(c)
        PROVE  TypeOK'
    BY <1>3, RequestType DEF TypeOK, ShiftUp, Press, Ops
  <1>4. ASSUME NEW c \in Clients, ButtonClick(c)
        PROVE  TypeOK'
    BY <1>4, RequestType DEF TypeOK, ButtonClick, Press, Ops
  <1>5. ASSUME NEW c \in Clients, Deactivate(c)
        PROVE  TypeOK'
    BY <1>5 DEF TypeOK, Deactivate
  <1>6. ASSUME NEW c \in Clients, Accept(c)
        PROVE  TypeOK'
    BY <1>6, PhaseType DEF TypeOK, Accept
  <1>7. ASSUME NEW c \in Clients, RefuseBusy(c)
        PROVE  TypeOK'
    BY <1>7, SilentType, ReplyType DEF TypeOK, RefuseBusy
  <1>8. ASSUME NEW c \in Clients, Break(c)
        PROVE  TypeOK'
    BY <1>8, SilentType, ReplyType DEF TypeOK, Break
  <1>9. ASSUME NEW c \in Clients, ServeFocusOut(c)
        PROVE  TypeOK'
    BY <1>9, SilentType, ReplyType DEF TypeOK, ServeFocusOut
  <1>10. ASSUME NEW c \in Clients, ReturnStart(c)
        PROVE  TypeOK'
    BY <1>10, HangupType DEF TypeOK, ReturnStart, DropBroken, Answers
  <1>11. ASSUME NEW c \in Clients, ReturnFocusOut(c)
        PROVE  TypeOK'
    BY <1>11, HangupType DEF TypeOK, ReturnFocusOut
  <1>12. ASSUME NEW c \in Clients, ReturnKeyHandled(c)
        PROVE  TypeOK'
    BY <1>12, HangupType, ScheduleType DEF TypeOK, ReturnKeyHandled, Answers
  <1>13. ASSUME NEW c \in Clients, ReturnKeyUnhandled(c)
        PROVE  TypeOK'
    BY <1>13, HangupType DEF TypeOK, ReturnKeyUnhandled, PassThrough, DropBroken, Calls
  <1>14. ASSUME NEW c \in Clients, ReturnToggle(c)
        PROVE  TypeOK'
    BY <1>14, HangupType, ScheduleType DEF TypeOK, ReturnToggle, Answers
  <1>15. ASSUME NEW c \in Clients, ReturnButton(c)
        PROVE  TypeOK'
    BY <1>15, HangupType DEF TypeOK, ReturnButton, Answers
  <1>16. ASSUME NEW c \in Clients, DropEdit(c)
        PROVE  TypeOK'
    BY <1>16 DEF TypeOK, DropEdit
  <1>17. ASSUME NEW c \in Clients, CompositionTerminated(c)
        PROVE  TypeOK'
    BY <1>17 DEF TypeOK, CompositionTerminated
  <1>18. ASSUME NEW c \in Clients, HandleGain(c)
        PROVE  TypeOK'
    <2>1. link' \in [Clients -> {"none", "live", "broken"}]
      BY <1>18 DEF TypeOK, HandleGain, Connect
    <2>2. call' \in [Clients -> Calls]
      <3>1. CASE Connectable(c)
        <4>1. Request(c, "start", {})
          BY <1>18, <3>1 DEF HandleGain
        <4>2. "start" \in Ops /\ {} \in SUBSET Letters
          BY DEF Ops
        <4> QED
          BY <4>1, <4>2, RequestType
      <3>2. CASE ~Connectable(c)
        BY <1>18, <3>2 DEF TypeOK, HandleGain
      <3> QED
        BY <3>1, <3>2
    <2> QED
      BY <1>18, <2>1, <2>2 DEF TypeOK, HandleGain
  <1>19. ASSUME NEW c \in Clients, Activate(c)
        PROVE  TypeOK'
    <2>1. link' \in [Clients -> {"none", "live", "broken"}]
      BY <1>19 DEF TypeOK, Activate, Connect
    <2>2. call' \in [Clients -> Calls]
      <3>1. CASE Connectable(c)
        <4>1. Request(c, "start", {})
          BY <1>19, <3>1 DEF Activate
        <4>2. "start" \in Ops /\ {} \in SUBSET Letters
          BY DEF Ops
        <4> QED
          BY <4>1, <4>2, RequestType
      <3>2. CASE ~Connectable(c)
        BY <1>19, <3>2 DEF TypeOK, Activate
      <3> QED
        BY <3>1, <3>2
    <2> QED
      BY <1>19, <2>1, <2>2 DEF TypeOK, Activate
  <1>20. ASSUME NEW c \in Clients, HandleLose(c)
        PROVE  TypeOK'
    <2>1. CASE link[c] # "none"
      <3>1. Request(c, "focusOut", {}) /\ UNCHANGED <<composing, comp>>
        BY <1>20, <2>1 DEF HandleLose
      <3>2. "focusOut" \in Ops /\ {} \in SUBSET Letters
        BY DEF Ops
      <3>3. call' \in [Clients -> Calls]
        BY <3>1, <3>2, RequestType
      <3> QED
        BY <1>20, <3>1, <3>3 DEF TypeOK, HandleLose
    <2>2. CASE link[c] = "none"
      BY <1>20, <2>2 DEF TypeOK, HandleLose
    <2> QED
      BY <2>1, <2>2
  <1>21. ASSUME NEW c \in Clients, ServeStart(c)
        PROVE  TypeOK'
    <2>1. [Silent("ok") EXCEPT !.composing = input # {}, !.ascii = asciiOpt] \in Answers
      BY DEF TypeOK, Silent, Answers
    <2> QED
      BY <1>21, <2>1, ReplyType DEF TypeOK, ServeStart
  <1>22. ASSUME NEW c \in Clients, ServeKeyGated(c)
        PROVE  TypeOK'
    <2>1. [Silent("unhandled") EXCEPT !.composing = input # {}, !.ascii = asciiOpt] \in Answers
      BY DEF TypeOK, Silent, Answers
    <2> QED
      BY <1>22, <2>1, ReplyType DEF TypeOK, ServeKeyGated
  <1>23. ASSUME NEW c \in Clients, ServeToggle(c)
        PROVE  TypeOK'
    <2>1. [Silent("ok") EXCEPT !.commit = IF asciiOpt THEN {} ELSE input,
                                !.ascii = ~asciiOpt] \in Answers
      BY DEF TypeOK, Silent, Answers
    <2> QED
      BY <1>23, <2>1, ReplyType DEF TypeOK, ServeToggle
  <1>24. ASSUME NEW c \in Clients, ServeKeyUnhandled(c)
        PROVE  TypeOK'
    <2>1. asciiOpt' \in BOOLEAN
      BY <1>24 DEF TypeOK, ServeKeyUnhandled
    <2>2. PICK r \in RimeReject(call[c].op) :
             /\ input' = r[1] /\ RefreshWindow(r[2])
             /\ lastWriter' = IF r[1] = input THEN lastWriter ELSE None
             /\ Reply(c, [kind |-> "unhandled", commit |-> r[2], preedit |-> r[1],
                          composing |-> r[1] # {}, ascii |-> asciiOpt'])
      BY <1>24 DEF ServeKeyUnhandled
    <2>3. r[1] \in SUBSET Letters /\ r[2] \in SUBSET Letters
      BY RimeRejectType
    <2>4. [kind |-> "unhandled", commit |-> r[2], preedit |-> r[1],
           composing |-> r[1] # {}, ascii |-> asciiOpt'] \in Answers
      BY <2>1, <2>3 DEF Answers
    <2>5. call' \in [Clients -> Calls] /\ answer' \in [Clients -> Answers]
      BY <2>2, <2>4, ReplyType
    <2>6. shown' \in BOOLEAN
      BY <2>2 DEF RefreshWindow
    <2> QED
      BY <1>24, <2>1, <2>2, <2>3, <2>5, <2>6 DEF TypeOK, ServeKeyUnhandled
  <1>25. ASSUME NEW c \in Clients, ServeKey(c)
        PROVE  TypeOK'
    <2>1. call[c].letter \in SUBSET Letters
      BY DEF TypeOK, Calls
    <2>2. PICK r \in RimeKey(call[c].op, call[c].letter) :
             /\ input' = r[1] /\ RefreshWindow(r[2])
             /\ Reply(c, [kind |-> "ok", commit |-> r[2], preedit |-> r[1],
                          composing |-> r[1] # {}, ascii |-> asciiOpt])
      BY <1>25 DEF ServeKey
    <2>3. r[1] \in SUBSET Letters /\ r[2] \in SUBSET Letters
      BY <2>1, RimeKeyType
    <2>4. [kind |-> "ok", commit |-> r[2], preedit |-> r[1],
           composing |-> r[1] # {}, ascii |-> asciiOpt] \in Answers
      BY <2>3 DEF TypeOK, Answers
    <2>5. call' \in [Clients -> Calls] /\ answer' \in [Clients -> Answers]
      BY <2>2, <2>4, ReplyType
    <2>6. shown' \in BOOLEAN
      BY <2>2 DEF RefreshWindow
    <2> QED
      BY <1>25, <2>2, <2>3, <2>5, <2>6 DEF TypeOK, ServeKey
  <1>26. ASSUME NEW c \in Clients, NEW op \in KeyOps, NEW letter \in SUBSET Letters,
               KeyDown(c, op, letter)
        PROVE  TypeOK'
    <2>1. op \in Ops
      BY DEF KeyOps, Ops
    <2>2. owner' \in [Letters -> Clients \cup {None}]
      BY <1>26 DEF TypeOK, KeyDown, Press
    <2>3. CASE Connectable(c)
      <3>1. Connect(c) /\ Request(c, op, letter) /\ UNCHANGED <<degraded, doc>>
        BY <1>26, <2>3 DEF KeyDown
      <3>2. call' \in [Clients -> Calls]
        BY <3>1, <2>1, RequestType
      <3>3. link' \in [Clients -> {"none", "live", "broken"}]
        BY <3>1 DEF TypeOK, Connect
      <3> QED
        BY <1>26, <2>2, <3>1, <3>2, <3>3 DEF TypeOK, KeyDown
    <2>4. CASE ~Connectable(c)
      <3>1. /\ degraded' = [degraded EXCEPT ![c] = TRUE]
            /\ PassThrough(c, letter) /\ UNCHANGED <<link, call>>
        BY <1>26, <2>4 DEF KeyDown
      <3> QED
        BY <1>26, <2>2, <3>1 DEF TypeOK, KeyDown, PassThrough
    <2> QED
      BY <2>3, <2>4
  <1>27. ASSUME NEW c \in Clients, NEW op \in KeyOps, NEW letter \in SUBSET Letters,
               KeyBypass(c, op, letter)
        PROVE  TypeOK'
    <2>1. owner' \in [Letters -> Clients \cup {None}]
      BY <1>27 DEF TypeOK, KeyBypass, Press
    <2> QED
      BY <1>27, <2>1 DEF TypeOK, KeyBypass, PassThrough
  <1>28. ASSUME NEW c \in Clients, NEW started \in BOOLEAN, RunEdit(c, started)
        PROVE  TypeOK'
    <2>1. edits[c] \in Seq(Edits) /\ edits[c] # <<>>
      BY <1>28 DEF TypeOK, RunEdit
    <2>2. Head(edits[c]) \in Edits /\ Tail(edits[c]) \in Seq(Edits)
      BY <2>1
    <2>3. edits' \in [Clients -> Seq(Edits)]
      BY <1>28, <2>2 DEF TypeOK, RunEdit
    <2>4. doc' \in [Clients -> SUBSET Letters] /\ comp' \in [Clients -> SUBSET Letters]
      BY <1>28, <2>2 DEF TypeOK, RunEdit, Edits
    <2> QED
      BY <1>28, <2>3, <2>4 DEF TypeOK, RunEdit
  <1>29. ASSUME MaintBegin \/ FetchEnd \/ RedeployEnd \/ SelectSchema \/ TrayToggle \/ Restart
        PROVE  TypeOK'
    BY <1>29 DEF TypeOK, MaintBegin, FetchEnd, RedeployEnd, SelectSchema, TrayToggle, Restart
  <1>30. ASSUME Crash
        PROVE  TypeOK'
    <2>1. \A c \in Clients : [call[c] EXCEPT !.phase = "sent"] \in Calls
      BY DEF TypeOK, Calls
    <2>2. call' \in [Clients -> Calls]
      BY <1>30, <2>1 DEF TypeOK, Crash
    <2> QED
      BY <1>30, <2>2 DEF TypeOK, Crash
  <1> QED
    BY NextCases, <1>1, <1>2, <1>3, <1>4, <1>5, <1>6, <1>7, <1>8, <1>9, <1>10, <1>11,
       <1>12, <1>13, <1>14, <1>15, <1>16, <1>17, <1>18, <1>19, <1>20, <1>21, <1>22, <1>23,
       <1>24, <1>25, <1>26, <1>27, <1>28, <1>29, <1>30 DEF Serve, Return

\* The initial state is well typed.
LEMMA TypeInit == Init => TypeOK
  <1> SUFFICES ASSUME Init PROVE TypeOK
    OBVIOUS
  <1>1. IdleCall \in Calls /\ Silent("ok") \in Answers /\ <<>> \in Seq(Edits)
    BY SilentType DEF IdleCall, Calls, Ops
  <1> QED
    BY <1>1 DEF Init, TypeOK

\* Every variable keeps its type, whatever the users and the server do.
THEOREM TypeCorrect == Spec => []TypeOK
  <1>1. TypeOK /\ UNCHANGED vars => TypeOK'
    BY DEF TypeOK, vars, serverVars, userVars, viewVars, flagVars, callVars
  <1>2. TypeOK /\ [Next]_vars => TypeOK'
    BY <1>1, TypeStep
  <1> QED
    BY TypeInit, <1>2, PTL DEF Spec

-----------------------------------------------------------------------------
(* The composition and what shows it: properties of the server's own state. *)

\* No key reaches the engine past the flag, and a window outlives its
\* composition only at the hands of the settings program.
SurfaceInv == NoHiddenComposition /\ WindowExplained

\* The only steps that touch the state SurfaceInv reads.
LEMMA SurfaceStep ==
    ASSUME SurfaceInv, Next
    PROVE  SurfaceInv'
  <1> DEFINE surface == <<input, asciiFlag, shown, lastWriter>>
  <1> USE DEF SurfaceInv, NoHiddenComposition, WindowExplained
  <1>1. UNCHANGED surface => SurfaceInv'
    OBVIOUS
  <1>2. ASSUME NEW c \in Clients, ServeFocusOut(c) \/ ServeToggle(c)
        PROVE  SurfaceInv'
    BY <1>2 DEF ServeFocusOut, ServeToggle
  <1>3. ASSUME NEW c \in Clients, ServeKeyUnhandled(c)
        PROVE  SurfaceInv'
    <2>1. ~asciiFlag /\ UNCHANGED asciiFlag
      BY <1>3 DEF ServeKeyUnhandled
    <2>2. PICK commit : RefreshWindow(commit)
      BY <1>3 DEF ServeKeyUnhandled
    <2>3. input' = {} => ~shown'
      BY <2>2 DEF RefreshWindow
    <2> QED
      BY <2>1, <2>3
  <1>4. ASSUME NEW c \in Clients, ServeKey(c)
        PROVE  SurfaceInv'
    <2>1. ~asciiFlag /\ UNCHANGED asciiFlag
      BY <1>4 DEF ServeKey
    <2>2. PICK commit : RefreshWindow(commit)
      BY <1>4 DEF ServeKey
    <2>3. input' = {} => ~shown'
      BY <2>2 DEF RefreshWindow
    <2> QED
      BY <2>1, <2>3
  <1>5. ASSUME Crash \/ RedeployEnd \/ SelectSchema
        PROVE  SurfaceInv'
    BY <1>5 DEF Crash, RedeployEnd, SelectSchema
  <1>6. ASSUME NEW c \in Clients,
               \/ Accept(c) \/ RefuseBusy(c) \/ Break(c) \/ ServeStart(c) \/ ServeKeyGated(c)
        PROVE  SurfaceInv'
    BY <1>1, <1>6 DEF Accept, RefuseBusy, Break, ServeStart, ServeKeyGated, serverVars
  <1>7. ASSUME NEW c \in Clients, Return(c)
        PROVE  SurfaceInv'
    BY <1>1, <1>7 DEF Return, ReturnStart, ReturnFocusOut, ReturnKeyHandled,
       ReturnKeyUnhandled, ReturnToggle, ReturnButton, serverVars
  <1>8. ASSUME MaintBegin \/ FetchEnd \/ TrayToggle \/ Restart
        PROVE  SurfaceInv'
    BY <1>1, <1>8 DEF MaintBegin, FetchEnd, TrayToggle, Restart
  <1>9. ASSUME NEW f \in Clients \cup {None}, SwitchFocus(f)
        PROVE  SurfaceInv'
    BY <1>1, <1>9 DEF SwitchFocus, serverVars
  <1>10. ASSUME NEW c \in Clients,
                \/ KeyUp(c) \/ ShiftUp(c) \/ ButtonClick(c) \/ Deactivate(c) \/ Activate(c)
                \/ HandleGain(c) \/ HandleLose(c) \/ DropEdit(c) \/ CompositionTerminated(c)
         PROVE  SurfaceInv'
    BY <1>1, <1>10 DEF KeyUp, ShiftUp, ButtonClick, Deactivate, Activate, HandleGain,
       HandleLose, DropEdit, CompositionTerminated, serverVars
  <1>11. ASSUME NEW c \in Clients, NEW op, NEW letter,
                KeyDown(c, op, letter) \/ KeyBypass(c, op, letter)
         PROVE  SurfaceInv'
    BY <1>1, <1>11 DEF KeyDown, KeyBypass, serverVars
  <1>12. ASSUME NEW c \in Clients, NEW started, RunEdit(c, started)
         PROVE  SurfaceInv'
    BY <1>1, <1>12 DEF RunEdit, serverVars
  <1> QED
    BY NextCases, <1>2, <1>3, <1>4, <1>5, <1>6, <1>7, <1>8, <1>9, <1>10, <1>11, <1>12
       DEF Serve

\* Both properties of the server's surface, always.
LEMMA SurfaceInvariant == Spec => []SurfaceInv
  <1>1. Init => SurfaceInv
    BY DEF Init, SurfaceInv, NoHiddenComposition, WindowExplained
  <1>2. SurfaceInv /\ UNCHANGED vars => SurfaceInv'
    BY DEF SurfaceInv, NoHiddenComposition, WindowExplained, vars, serverVars
  <1>3. SurfaceInv /\ [Next]_vars => SurfaceInv'
    BY <1>2, SurfaceStep
  <1> QED
    BY <1>1, <1>3, PTL DEF Spec

\* While the server refuses keys as ASCII the engine holds no input that could
\* surface later, whatever the tray, redeploys and crashes do in between.
THEOREM NoHiddenCompositionAlways == Spec => []NoHiddenComposition
  <1>1. SurfaceInv => NoHiddenComposition
    BY DEF SurfaceInv
  <1> QED
    BY <1>1, SurfaceInvariant, PTL

\* A candidate window without a composition is the work of the settings program,
\* which replaced the session or selected a schema: every other handler that takes
\* the composition away, of whatever client, hides the window with it.
THEOREM WindowExplainedAlways == Spec => []WindowExplained
  <1>1. SurfaceInv => WindowExplained
    BY DEF SurfaceInv
  <1> QED
    BY <1>1, SurfaceInvariant, PTL

-----------------------------------------------------------------------------
(* The engine mutex. *)

\* The one thread between try_lock and response has the lock, in a process that
\* runs; a thread that serves has a live pipe, and a live pipe has a server.
LockInv ==
    /\ \A c \in Clients : call[c].phase = "serving" <=> holder = c
    /\ holder # None => up
    /\ \A c \in Clients : /\ link[c] = "live" => up
                          /\ call[c].phase = "serving" => link[c] = "live"

\* What LockInv needs of a call that changes: its phase.
LEMMA RequestPhase ==
    ASSUME TypeOK, NEW c \in Clients, NEW op, NEW letter, Request(c, op, letter)
    PROVE  \A d \in Clients : call'[d].phase = IF d = c THEN "sent" ELSE call[d].phase
  BY DEF TypeOK, Request

LEMMA HangupPhase ==
    ASSUME TypeOK, NEW c \in Clients, Hangup(c)
    PROVE  \A d \in Clients : call'[d].phase = IF d = c THEN "idle" ELSE call[d].phase
  BY DEF TypeOK, Hangup, IdleCall

LEMMA PhasePhase ==
    ASSUME TypeOK, NEW c \in Clients, NEW p, call' = [call EXCEPT ![c].phase = p]
    PROVE  \A d \in Clients : /\ call'[d].phase = IF d = c THEN p ELSE call[d].phase
                              /\ call'[d].op = call[d].op
  BY DEF TypeOK, Calls

LEMMA ReplyPhase ==
    ASSUME TypeOK, NEW c \in Clients, NEW a, Reply(c, a)
    PROVE  \A d \in Clients : /\ call'[d].phase = IF d = c THEN "answered" ELSE call[d].phase
                              /\ call'[d].op = call[d].op
                              /\ answer'[d] = IF d = c THEN a ELSE answer[d]
  BY PhasePhase DEF TypeOK, Reply

\* Every step keeps the mutex with the one thread between try_lock and response.
LEMMA LockStep ==
    ASSUME TypeOK, LockInv, Next
    PROVE  LockInv'
  <1> USE ClientsAssumption DEF LockInv
  <1>1. ASSUME UNCHANGED <<up, holder, link, call>>
        PROVE  LockInv'
    BY <1>1
  <1>2. ASSUME NEW c \in Clients, NEW op, NEW letter, UNCHANGED <<up, holder>>,
               Idle(c), Connectable(c), Request(c, op, letter),
               Connect(c) \/ UNCHANGED link
        PROVE  LockInv'
    <2>1. \A d \in Clients : link'[d] = link[d] \/ (up /\ link'[d] = "live")
      BY <1>2 DEF TypeOK, Connect, Connectable
    <2>2. \A d \in Clients : call'[d].phase = "serving" <=> call[d].phase = "serving"
      BY <1>2, RequestPhase DEF Idle
    <2> QED
      BY <1>2, <2>1, <2>2
  <1>3. ASSUME NEW c \in Clients, NEW op, NEW letter, KeyDown(c, op, letter)
        PROVE  LockInv'
    <2>1. CASE Connectable(c)
      BY <1>2, <1>3, <2>1 DEF KeyDown, Press, serverVars
    <2>2. CASE ~Connectable(c)
      BY <1>1, <1>3, <2>2 DEF KeyDown, serverVars
    <2> QED
      BY <2>1, <2>2
  <1>4. ASSUME NEW c \in Clients, KeyUp(c) \/ ShiftUp(c) \/ ButtonClick(c)
        PROVE  LockInv'
    BY <1>2, <1>4 DEF KeyUp, ShiftUp, ButtonClick, Press, Connectable, serverVars, flagVars
  <1>5. ASSUME NEW c \in Clients, HandleGain(c) \/ Activate(c)
        PROVE  LockInv'
    <2>1. CASE Connectable(c)
      BY <1>2, <1>5, <2>1 DEF HandleGain, Activate, serverVars
    <2>2. CASE ~Connectable(c)
      BY <1>1, <1>5, <2>2 DEF HandleGain, Activate, serverVars
    <2> QED
      BY <2>1, <2>2
  <1>6. ASSUME NEW c \in Clients, HandleLose(c)
        PROVE  LockInv'
    <2>1. CASE link[c] # "none"
      BY <1>2, <1>6, <2>1 DEF HandleLose, Connectable, serverVars
    <2>2. CASE link[c] = "none"
      BY <1>1, <1>6, <2>2 DEF HandleLose, serverVars
    <2> QED
      BY <2>1, <2>2
  <1>7. ASSUME NEW c \in Clients, Accept(c)
        PROVE  LockInv'
    <2>0. call' = [call EXCEPT ![c].phase = "serving"]
      BY <1>7 DEF Accept
    <2>1. \A d \in Clients : call'[d].phase = IF d = c THEN "serving" ELSE call[d].phase
      BY <2>0 DEF TypeOK, Calls
    <2>2. /\ holder = None /\ holder' = c /\ link[c] = "live"
          /\ UNCHANGED <<up, link>>
      BY <1>7 DEF Accept, flagVars
    <2>3. \A d \in Clients : call[d].phase # "serving"
      BY <2>2
    <2> QED
      BY <2>1, <2>2, <2>3
  <1>8. ASSUME NEW c \in Clients, RefuseBusy(c) \/ Break(c)
        PROVE  LockInv'
    <2>1. /\ call[c].phase # "serving" /\ UNCHANGED <<up, holder, link>>
          /\ \A d \in Clients : call'[d].phase = IF d = c THEN "answered" ELSE call[d].phase
      BY <1>8, ReplyPhase DEF RefuseBusy, Break, serverVars, flagVars
    <2> QED
      BY <2>1
  <1>9. ASSUME NEW c \in Clients, NEW a, call[c].phase = "serving", holder = c,
               holder' = None, Reply(c, a), UNCHANGED <<up, link>>
        PROVE  LockInv'
    <2>1. \A d \in Clients : call'[d].phase = IF d = c THEN "answered" ELSE call[d].phase
      BY <1>9, ReplyPhase
    <2> QED
      BY <1>9, <2>1
  <1>10. ASSUME NEW c \in Clients,
                \/ ServeStart(c) \/ ServeFocusOut(c) \/ ServeToggle(c)
                \/ ServeKeyGated(c) \/ ServeKeyUnhandled(c) \/ ServeKey(c)
         PROVE  LockInv'
    <2>1. call[c].phase = "serving" /\ holder = c /\ holder' = None /\ UNCHANGED <<up, link>>
      BY <1>10 DEF ServeStart, ServeFocusOut, ServeToggle, ServeKeyGated,
         ServeKeyUnhandled, ServeKey, Serving, flagVars
    <2>2. \E a : Reply(c, a)
      BY <1>10 DEF ServeStart, ServeFocusOut, ServeToggle, ServeKeyGated,
         ServeKeyUnhandled, ServeKey
    <2> QED
      BY <1>9, <2>1, <2>2
  <1>11. ASSUME NEW c \in Clients, Return(c)
         PROVE  LockInv'
    <2>1. call[c].phase = "answered" /\ Hangup(c) /\ UNCHANGED <<up, holder>>
      BY <1>11 DEF Return, ReturnStart, ReturnFocusOut, ReturnKeyHandled,
         ReturnKeyUnhandled, ReturnToggle, ReturnButton, Answered, serverVars
    <2>2. UNCHANGED link \/ DropBroken(c)
      BY <1>11 DEF Return, ReturnStart, ReturnFocusOut, ReturnKeyHandled,
         ReturnKeyUnhandled, ReturnToggle, ReturnButton
    <2>3. \A d \in Clients : link'[d] = link[d] \/ (d = c /\ link'[d] = "none")
      BY <2>2 DEF TypeOK, DropBroken
    <2>4. \A d \in Clients : call'[d].phase = IF d = c THEN "idle" ELSE call[d].phase
      BY <2>1, HangupPhase
    <2> QED
      BY <2>1, <2>3, <2>4
  <1>12. ASSUME Crash
         PROVE  LockInv'
    <2>1. \A c \in Clients : call'[c].phase # "serving" /\ link'[c] # "live"
      BY <1>12 DEF Crash, TypeOK, Calls
    <2> QED
      BY <1>12, <2>1 DEF Crash
  <1>13. ASSUME MaintBegin \/ FetchEnd \/ RedeployEnd \/ Restart
         PROVE  LockInv'
    BY <1>13 DEF MaintBegin, FetchEnd, RedeployEnd, Restart, flagVars, callVars
  <1>18. ASSUME SelectSchema \/ TrayToggle
         PROVE  LockInv'
    BY <1>1, <1>18 DEF SelectSchema, TrayToggle, flagVars, callVars
  <1>14. ASSUME NEW f, SwitchFocus(f)
         PROVE  LockInv'
    BY <1>1, <1>14 DEF SwitchFocus, serverVars, flagVars, callVars
  <1>15. ASSUME NEW c \in Clients,
                Deactivate(c) \/ DropEdit(c) \/ CompositionTerminated(c)
         PROVE  LockInv'
    BY <1>1, <1>15 DEF Deactivate, DropEdit, CompositionTerminated, serverVars, flagVars, callVars
  <1>16. ASSUME NEW c \in Clients, NEW op, NEW letter, KeyBypass(c, op, letter)
         PROVE  LockInv'
    BY <1>1, <1>16 DEF KeyBypass, serverVars, flagVars, callVars
  <1>17. ASSUME NEW c \in Clients, NEW started, RunEdit(c, started)
         PROVE  LockInv'
    BY <1>1, <1>17 DEF RunEdit, serverVars, flagVars, callVars
  <1> QED
    BY NextCases, <1>3, <1>4, <1>5, <1>6, <1>7, <1>8, <1>10, <1>11, <1>12, <1>13, <1>14,
       <1>15, <1>16, <1>17, <1>18 DEF Serve

LEMMA LockInit == Init => LockInv
  BY ClientsAssumption DEF Init, LockInv, IdleCall

LEMMA LockInvariant == Spec => [](TypeOK /\ LockInv)
  <1>1. TypeOK /\ LockInv /\ [Next]_vars => LockInv'
    <2>1. LockInv /\ UNCHANGED vars => LockInv'
      BY DEF LockInv, vars, serverVars, flagVars, callVars
    <2> QED
      BY <2>1, LockStep
  <1> QED
    BY <1>1, LockInit, TypeCorrect, PTL DEF Spec

-----------------------------------------------------------------------------
(* The text service's idea of the composition. *)

\* A response that will set composing[c] when its call returns.
Sets(c) == Answered(c, KeyOps \cup {"toggle"}) /\ answer[c].kind = "ok"

\* What is true of the last writer c of the engine's input, at every moment of its
\* request: the belief it has, or the one its response is about to give it, is
\* not a composition the engine lacks.
Belief(c) ==
    IF Sets(c) THEN answer[c].composing => input # {}
               ELSE composing[c] => input # {} \/ Answered(c, {"focusOut"})

\* Only a service with a live pipe can be the last writer, and a broken answer
\* comes from a broken pipe.
ComposingInv ==
    \A c \in Clients :
        /\ link[c] # "live" => lastWriter # c
        /\ answer[c].kind = "broken" => link[c] = "broken"
        /\ lastWriter = c => Belief(c)

\* The belief of d is a matter of d's call, answer and composing and of the input.
LEMMA BeliefFrame ==
    ASSUME NEW d \in Clients, Belief(d), UNCHANGED <<input, composing>>,
           call'[d].phase = call[d].phase, call'[d].op = call[d].op, answer'[d] = answer[d]
    PROVE  Belief(d)'
  BY DEF Belief, Sets, Answered

\* A client other than the one that steps keeps what ComposingInv says of it.
LEMMA ComposingStep ==
    ASSUME TypeOK, LockInv, ComposingInv, Next
    PROVE  ComposingInv'
  <1> USE ClientsAssumption DEF ComposingInv
  <1>1. ASSUME UNCHANGED <<input, lastWriter, link, call, answer, composing>>
        PROVE  ComposingInv'
    BY <1>1 DEF Belief, Sets, Answered
  \* A request of c begins.
  <1>2. ASSUME NEW c \in Clients, NEW op, NEW letter,
               Idle(c), Request(c, op, letter), Connect(c) \/ UNCHANGED link,
               UNCHANGED <<input, lastWriter, answer, composing>>
        PROVE  ComposingInv'
    <2>1. \A d \in Clients : link'[d] = link[d] \/ (link[d] = "none" /\ link'[d] = "live")
      BY <1>2 DEF TypeOK, Connect
    <2>2. \A d \in Clients : d # c => call'[d] = call[d]
      BY <1>2 DEF TypeOK, Request
    <2>3. call[c].phase = "idle" /\ call'[c].phase = "sent"
      BY <1>2 DEF TypeOK, Request, Idle
    <2>4. ASSUME NEW d \in Clients, lastWriter = d
          PROVE  Belief(d)'
      <3>1. CASE d = c
        BY <1>2, <2>3, <2>4, <3>1 DEF Belief, Sets, Answered
      <3>2. CASE d # c
        BY <1>2, <2>2, <2>4, <3>2, BeliefFrame
      <3> QED
        BY <3>1, <3>2
    <2> QED
      BY <1>2, <2>1, <2>4
  <1>3. ASSUME NEW c \in Clients, NEW op, NEW letter, KeyDown(c, op, letter)
        PROVE  ComposingInv'
    <2>1. CASE Connectable(c)
      BY <1>2, <1>3, <2>1 DEF KeyDown, Press, serverVars
    <2>2. CASE ~Connectable(c)
      BY <1>1, <1>3, <2>2 DEF KeyDown, serverVars
    <2> QED
      BY <2>1, <2>2
  <1>4. ASSUME NEW c \in Clients, KeyUp(c) \/ ShiftUp(c) \/ ButtonClick(c)
        PROVE  ComposingInv'
    BY <1>2, <1>4 DEF KeyUp, ShiftUp, ButtonClick, Press, serverVars, flagVars
  <1>5. ASSUME NEW c \in Clients, HandleGain(c) \/ Activate(c)
        PROVE  ComposingInv'
    <2>1. CASE Connectable(c)
      BY <1>2, <1>5, <2>1 DEF HandleGain, Activate, serverVars
    <2>2. CASE ~Connectable(c)
      BY <1>1, <1>5, <2>2 DEF HandleGain, Activate, serverVars
    <2> QED
      BY <2>1, <2>2
  \* A service that stops believing needs no composition.
  <1>6. ASSUME NEW c \in Clients, composing' = [composing EXCEPT ![c] = FALSE], Idle(c),
               UNCHANGED <<input, lastWriter, link, call, answer>>
        PROVE  ComposingInv'
    BY <1>6 DEF TypeOK, Belief, Sets, Answered, Idle
  <1>7. ASSUME NEW c \in Clients, HandleLose(c) \/ Deactivate(c)
        PROVE  ComposingInv'
    <2>1. CASE HandleLose(c) /\ link[c] # "none"
      BY <1>2, <2>1 DEF HandleLose, serverVars
    <2>2. CASE HandleLose(c) /\ link[c] = "none"
      BY <1>6, <2>2 DEF HandleLose, serverVars
    <2>3. CASE Deactivate(c)
      BY <1>6, <2>3 DEF Deactivate, serverVars, callVars
    <2> QED
      BY <1>7, <2>1, <2>2, <2>3
  <1>8. ASSUME NEW c \in Clients, Accept(c)
        PROVE  ComposingInv'
    <2>1. \A d \in Clients : /\ call'[d].phase = IF d = c THEN "serving" ELSE call[d].phase
                             /\ call'[d].op = call[d].op
      BY <1>8, PhasePhase DEF Accept
    <2>2. call[c].phase = "sent" /\ UNCHANGED <<input, lastWriter, link, answer, composing>>
      BY <1>8 DEF Accept, flagVars
    <2>3. ASSUME NEW d \in Clients, Belief(d)
          PROVE  Belief(d)'
      BY <2>1, <2>2, <2>3 DEF Belief, Sets, Answered
    <2> QED
      BY <2>2, <2>3
  \* A response that carries nothing out and tells the service nothing.
  <1>9. ASSUME NEW c \in Clients, NEW a, Reply(c, a), a.kind # "ok" \/ call[c].op = "start",
               call[c].phase # "answered" \/ link[c] = "broken",
               a.kind = "broken" => link[c] = "broken",
               UNCHANGED <<input, lastWriter, link, composing>>
        PROVE  ComposingInv'
    <2>1. \A d \in Clients : /\ call'[d].phase = IF d = c THEN "answered" ELSE call[d].phase
                             /\ call'[d].op = call[d].op
                             /\ answer'[d] = IF d = c THEN a ELSE answer[d]
      BY <1>9, ReplyPhase
    <2>2. ASSUME NEW d \in Clients, lastWriter = d
          PROVE  Belief(d)'
      <3>1. CASE d = c
        BY <1>9, <2>1, <2>2, <3>1 DEF Belief, Sets, Answered, KeyOps
      <3>2. CASE d # c
        BY <1>9, <2>1, <2>2, <3>2, BeliefFrame
      <3> QED
        BY <3>1, <3>2
    <2> QED
      BY <1>9, <2>1, <2>2
  <1>10. ASSUME NEW c \in Clients, RefuseBusy(c)
         PROVE  ComposingInv'
    BY <1>9, <1>10 DEF RefuseBusy, Silent, serverVars, flagVars
  <1>11. ASSUME NEW c \in Clients, Break(c)
         PROVE  ComposingInv'
    BY <1>9, <1>11 DEF Break, Silent, serverVars, flagVars
  <1>12. ASSUME NEW c \in Clients, ServeStart(c) \/ ServeKeyGated(c)
         PROVE  ComposingInv'
    <2>1. call[c].phase = "serving" /\ UNCHANGED <<input, lastWriter, link, composing>>
      BY <1>12 DEF ServeStart, ServeKeyGated, Serving, flagVars
    <2>2. \E a : /\ Reply(c, a) /\ a.kind # "broken"
                 /\ a.kind # "ok" \/ call[c].op = "start"
      <3>1. CASE ServeStart(c)
        BY <3>1 DEF ServeStart, Serving, Silent
      <3>2. CASE ServeKeyGated(c)
        <4> DEFINE a == [Silent("unhandled") EXCEPT !.composing = input # {},
                                                    !.ascii = asciiOpt]
        <4>1. Reply(c, a)
          BY <3>2 DEF ServeKeyGated
        <4>2. a.kind = "unhandled"
          BY DEF Silent
        <4> QED
          BY <4>1, <4>2
      <3> QED
        BY <1>12, <3>1, <3>2
    <2> QED
      BY <1>9, <2>1, <2>2
  \* A rejected key that has changed the input leaves nobody the last writer.
  <1>24. ASSUME NEW c \in Clients, ServeKeyUnhandled(c)
         PROVE  ComposingInv'
    <2>1. call[c].phase = "serving" /\ UNCHANGED <<link, composing>>
      BY <1>24 DEF ServeKeyUnhandled, Serving, flagVars
    <2>2. PICK r \in RimeReject(call[c].op) :
             /\ input' = r[1]
             /\ lastWriter' = IF r[1] = input THEN lastWriter ELSE None
             /\ Reply(c, [kind |-> "unhandled", commit |-> r[2], preedit |-> r[1],
                          composing |-> r[1] # {}, ascii |-> asciiOpt'])
      BY <1>24 DEF ServeKeyUnhandled
    <2> DEFINE a == [kind |-> "unhandled", commit |-> r[2], preedit |-> r[1],
                     composing |-> r[1] # {}, ascii |-> asciiOpt']
    <2>3. Reply(c, a) /\ a.kind = "unhandled"
      BY <2>2
    <2> HIDE DEF a
    <2>4. CASE r[1] = input
      BY <1>9, <2>1, <2>2, <2>3, <2>4
    <2>5. CASE r[1] # input
      <3>1. \A d \in Clients : lastWriter' # d
        BY <2>2, <2>5
      <3>2. \A d \in Clients : answer'[d] = IF d = c THEN a ELSE answer[d]
        BY <2>3, ReplyPhase
      <3> QED
        BY <2>1, <2>3, <3>1, <3>2
    <2> QED
      BY <2>4, <2>5
  \* The engine's input changes and c, whose pipe is live, becomes the last writer.
  <1>13. ASSUME NEW c \in Clients, NEW a, Serving(c, Ops), Reply(c, a), a.kind = "ok",
                a.composing => input' # {},
                call[c].op \in KeyOps \cup {"toggle", "focusOut"} => lastWriter' = c,
                call[c].op \notin KeyOps \cup {"toggle", "focusOut"} => lastWriter' = None,
                UNCHANGED <<link, composing>>
         PROVE  ComposingInv'
    <2>1. \A d \in Clients : /\ call'[d].phase = IF d = c THEN "answered" ELSE call[d].phase
                             /\ call'[d].op = call[d].op
                             /\ answer'[d] = IF d = c THEN a ELSE answer[d]
      BY <1>13, ReplyPhase
    <2>2. link[c] = "live"
      BY <1>13 DEF LockInv, Serving
    <2>3. \A d \in Clients : lastWriter' = d => d = c
      BY <1>13
    <2>4. lastWriter' = c => Belief(c)'
      BY <1>13, <2>1 DEF Belief, Sets, Answered
    <2> QED
      BY <1>13, <2>1, <2>2, <2>3, <2>4
  <1>14. ASSUME NEW c \in Clients, ServeFocusOut(c)
         PROVE  ComposingInv'
    BY <1>13, <1>14 DEF ServeFocusOut, Serving, Silent, Ops, flagVars
  <1>15. ASSUME NEW c \in Clients, ServeToggle(c)
         PROVE  ComposingInv'
    BY <1>13, <1>15 DEF ServeToggle, Serving, Silent, Ops, KeyOps, flagVars
  <1>16. ASSUME NEW c \in Clients, ServeKey(c)
         PROVE  ComposingInv'
    BY <1>13, <1>16 DEF ServeKey, Serving, Ops, KeyOps, flagVars
  \* A response of c is used.
  <1>17. ASSUME NEW c \in Clients, Return(c)
         PROVE  ComposingInv'
    <2>1. call[c].phase = "answered" /\ Hangup(c) /\ UNCHANGED <<input, lastWriter>>
      BY <1>17 DEF Return, ReturnStart, ReturnFocusOut, ReturnKeyHandled,
         ReturnKeyUnhandled, ReturnToggle, ReturnButton, Answered, serverVars
    <2>2. UNCHANGED link \/ DropBroken(c)
      BY <1>17 DEF Return, ReturnStart, ReturnFocusOut, ReturnKeyHandled,
         ReturnKeyUnhandled, ReturnToggle, ReturnButton
    <2>3. \A d \in Clients : \/ link'[d] = link[d] /\ (UNCHANGED link \/ answer[d].kind # "broken" \/ d # c)
                             \/ d = c /\ link[d] = "broken"
      BY <2>2 DEF TypeOK, DropBroken
    <2>4. \A d \in Clients : /\ call'[d] = IF d = c THEN IdleCall ELSE call[d]
                             /\ answer'[d] = IF d = c THEN Silent("ok") ELSE answer[d]
      BY <2>1 DEF TypeOK, Hangup
    <2>5. \A d \in Clients : d # c => composing'[d] = composing[d]
      BY <1>17 DEF TypeOK, Return, ReturnStart, ReturnFocusOut, ReturnKeyHandled,
         ReturnKeyUnhandled, ReturnToggle, ReturnButton
    <2>6. CASE Sets(c)
      <3>1. composing'[c] = answer[c].composing
        BY <1>17, <2>6 DEF TypeOK, Sets, Return, ReturnStart, ReturnFocusOut, ReturnKeyHandled,
           ReturnKeyUnhandled, ReturnToggle, ReturnButton, Answered, KeyOps
      <3>2. Belief(c) => (composing'[c] => input # {})
        BY <2>6, <3>1 DEF Belief
      <3> QED
        BY <2>1, <2>3, <2>4, <2>5, <3>2 DEF Belief, Sets, Answered, IdleCall, Silent
    <2>7. CASE ~Sets(c)
      <3>1. IF Answered(c, {"focusOut"}) THEN composing'[c] = FALSE
                                         ELSE composing'[c] = composing[c]
        BY <1>17, <2>7 DEF TypeOK, Sets, Return, ReturnStart, ReturnFocusOut, ReturnKeyHandled,
           ReturnKeyUnhandled, ReturnToggle, ReturnButton, Answered, KeyOps
      <3>2. Belief(c) => (composing'[c] => input # {})
        BY <2>7, <3>1 DEF Belief
      <3> QED
        BY <2>1, <2>3, <2>4, <2>5, <3>2 DEF Belief, Sets, Answered, IdleCall, Silent
    <2> QED
      BY <2>6, <2>7
  \* Nobody's service is the last writer any more.
  <1>18. ASSUME Crash \/ RedeployEnd \/ SelectSchema
         PROVE  ComposingInv'
    <2>1. \A c \in Clients : lastWriter' # c
      BY <1>18 DEF Crash, RedeployEnd, SelectSchema
    <2>2. \A c \in Clients : answer'[c] = answer[c]
      BY <1>18 DEF Crash, RedeployEnd, SelectSchema, callVars
    <2>3. \A c \in Clients : link[c] = "broken" => link'[c] = "broken"
      BY <1>18 DEF Crash, RedeployEnd, SelectSchema, flagVars, TypeOK
    <2> QED
      BY <2>1, <2>2, <2>3
  <1>19. ASSUME MaintBegin \/ FetchEnd \/ TrayToggle \/ Restart
         PROVE  ComposingInv'
    BY <1>1, <1>19 DEF MaintBegin, FetchEnd, TrayToggle, Restart, flagVars, callVars
  <1>20. ASSUME NEW f, SwitchFocus(f)
         PROVE  ComposingInv'
    BY <1>1, <1>20 DEF SwitchFocus, serverVars, flagVars, callVars
  <1>21. ASSUME NEW c \in Clients, DropEdit(c) \/ CompositionTerminated(c)
         PROVE  ComposingInv'
    BY <1>1, <1>21 DEF DropEdit, CompositionTerminated, serverVars, flagVars, callVars
  <1>22. ASSUME NEW c \in Clients, NEW op, NEW letter, KeyBypass(c, op, letter)
         PROVE  ComposingInv'
    BY <1>1, <1>22 DEF KeyBypass, serverVars, flagVars, callVars
  <1>23. ASSUME NEW c \in Clients, NEW started, RunEdit(c, started)
         PROVE  ComposingInv'
    BY <1>1, <1>23 DEF RunEdit, serverVars, flagVars, callVars
  <1> QED
    BY NextCases, <1>3, <1>4, <1>5, <1>7, <1>8, <1>10, <1>11, <1>12, <1>14, <1>15, <1>16,
       <1>17, <1>18, <1>19, <1>20, <1>21, <1>22, <1>23, <1>24 DEF Serve

\* A service that believes it composes is right, or the last change of the engine's
\* input is one it has not read: somebody else's, its button's, one lost with the
\* server or that of a rejected key.  No answer, late, busy or refused, breaks this.
THEOREM ComposingExplainedAlways == Spec => []ComposingExplained
  <1>1. Init => ComposingInv
    BY ClientsAssumption DEF Init, ComposingInv, Silent
  <1>2. ComposingInv /\ UNCHANGED vars => ComposingInv'
    BY DEF ComposingInv, Belief, Sets, Answered, vars, serverVars, flagVars, callVars
  <1>3. TypeOK /\ LockInv /\ ComposingInv /\ [Next]_vars => ComposingInv'
    BY <1>2, ComposingStep
  <1>4. ComposingInv => ComposingExplained
    BY DEF ComposingInv, ComposingExplained, Belief, Sets, Answered, Idle
  <1> QED
    BY <1>1, <1>3, <1>4, LockInvariant, PTL DEF Spec

-----------------------------------------------------------------------------
(* The letters: where each one is on its way to a document. *)

\* The letter of c's request while c may still have to give it to its application:
\* until the response says "ok".
Hand(c) ==
    IF \/ call[c].phase \in {"sent", "serving"}
       \/ call[c].phase = "answered" /\ answer[c].kind # "ok"
    THEN call[c].letter ELSE {}

\* An edit session c has requested will write l.
Queued(c, l) == \E i \in DOMAIN edits[c] : l \in edits[c][i].commit

\* One of c's places has l.
Has(c, l) == l \in Hand(c) \/ l \in answer[c].commit \/ l \in doc[c] \/ Queued(c, l)

\* No two of c's places have l.
OncePerClient(c, l) ==
    /\ l \in Hand(c) => l \notin answer[c].commit /\ l \notin doc[c] /\ ~Queued(c, l)
    /\ l \in answer[c].commit => l \notin doc[c] /\ ~Queued(c, l)
    /\ l \in doc[c] => ~Queued(c, l)
    /\ \A i, j \in DOMAIN edits[c] :
          l \in edits[c][i].commit /\ l \in edits[c][j].commit => i = j

\* l has not been dropped: c keeps it, if only as the letter of an answered request.
Holds(c, l) == l \in call[c].letter \/ l \in answer[c].commit \/ l \in doc[c] \/ Queued(c, l)
Alive(l) == l \in input \/ \E c \in Clients : Holds(c, l)

\* c asked about its own key, and has not written it itself; a server that died has
\* taken its input along.
InCall(c, l) ==
    /\ owner[l] = c /\ l \notin doc[c] /\ ~Queued(c, l)
    /\ link[c] = "broken" => l \notin input

\* A letter is nowhere before it is typed; the engine and an application never have
\* it both, nor an application twice; and two applications only if one of them is
\* the one it was typed into, its pipe broken before it took the raw key back.
LetterApart(l) ==
    /\ owner[l] = None => l \notin input /\ \A c \in Clients : ~Holds(c, l)
    /\ \A c \in Clients : l \in call[c].letter => InCall(c, l)
    /\ l \in input => \A c \in Clients : ~Has(c, l)
    /\ \A c \in Clients : OncePerClient(c, l)
    /\ \A c, d \in Clients : l \in Hand(c) /\ link[c] # "broken" /\ Has(d, l) => c = d
    /\ \A c, d \in Clients : Has(c, l) /\ Has(d, l) => c = d \/ owner[l] \in {c, d}

\* While no pipe breaks, a letter is in at most one place of all.
LetterOnce(l) ==
    /\ LetterApart(l)
    /\ \A c, d \in Clients : Has(c, l) /\ Has(d, l) => c = d

\* A pipe breaks only when the server dies; a raw key passed through after that
\* may be one the server has already put to use (see the README).
LetterInv ==
    /\ \A c \in Clients : link[c] # "broken"
    /\ \A l \in Letters : LetterOnce(l)

\* A step of client c, or of its request, leaves the places of the others alone.
OthersSame(c) ==
    \A d \in Clients : d # c => /\ call'[d] = call[d] /\ answer'[d] = answer[d]
                                /\ doc'[d] = doc[d] /\ edits'[d] = edits[d]
                                /\ link'[d] = link[d]

\* What a step may do to l in the eyes of its user.
Forward(l) ==
    /\ \A c \in Clients : l \in doc[c] => l \in doc'[c]
    /\ owner[l] # None => owner'[l] = owner[l] /\ (Alive(l)' => Alive(l))
    /\ owner[l] = None => owner'[l] = None \/ Alive(l)'

\* What a step that breaks no pipe does to l.
Keeps(l) == LetterApart(l)' /\ (LetterOnce(l) => LetterOnce(l)') /\ Forward(l)

\* A step of client c that brings l only where it was, or types it.
LEMMA MoveForward ==
    ASSUME NEW l \in Letters, NEW c \in Clients, OthersSame(c),
           l \in doc[c] => l \in doc'[c],
           \/ /\ owner'[l] = owner[l]
              /\ l \in input' \/ Holds(c, l)' => l \in input \/ Holds(c, l)
           \/ owner[l] = None /\ Holds(c, l)'
    PROVE  Forward(l)
  <1>1. \A d \in Clients : d # c => (Holds(d, l)' <=> Holds(d, l)) /\ doc'[d] = doc[d]
    BY DEF OthersSame, Holds, Queued
  <1>2. \A d \in Clients : l \in doc[d] => l \in doc'[d]
    BY <1>1
  <1>3. CASE /\ owner'[l] = owner[l]
             /\ l \in input' \/ Holds(c, l)' => l \in input \/ Holds(c, l)
    <2>1. Alive(l)' => Alive(l)
      BY <1>1, <1>3 DEF Alive
    <2> QED
      BY <1>2, <1>3, <2>1 DEF Forward
  <1>4. CASE owner[l] = None /\ Holds(c, l)'
    BY <1>2, <1>4 DEF Forward, Alive
  <1> QED
    BY <1>3, <1>4

\* Such a step keeps l apart if c has it in one place only, gives the engine none
\* but the letter of a request whose pipe is intact, and takes back in hand only
\* the letter of one whose pipe is broken.
LEMMA MoveApart ==
    ASSUME NEW l \in Letters, NEW c \in Clients, LetterApart(l), OthersSame(c),
           \/ /\ owner'[l] = owner[l]
              /\ l \in input' \/ Holds(c, l)' => l \in input \/ Holds(c, l)
           \/ owner[l] = None /\ owner'[l] = c /\ Holds(c, l)' /\ l \notin input',
           l \in input' => l \in input \/ (l \in Hand(c) /\ link[c] # "broken"),
           l \in Hand(c)' => \/ owner[l] = None \/ link'[c] = "broken"
                             \/ l \in Hand(c) /\ link[c] # "broken",
           l \in call'[c].letter => InCall(c, l)',
           l \in input' => ~Has(c, l)',
           OncePerClient(c, l)'
    PROVE  LetterApart(l)'
  <1> USE ClientsAssumption
  <1>1. \A d \in Clients : d # c => /\ (Has(d, l)' <=> Has(d, l))
                                    /\ (Holds(d, l)' <=> Holds(d, l))
                                    /\ (l \in Hand(d)' <=> l \in Hand(d))
    BY DEF OthersSame, Has, Holds, Hand, Queued
  <1>2. \A d \in Clients : OncePerClient(d, l)'
    BY DEF OthersSame, OncePerClient, Hand, Queued, LetterApart
  <1>3. \A d \in Clients : /\ Has(d, l) => Holds(d, l)
                           /\ Has(d, l)' => Holds(d, l)'
                           /\ l \in Hand(d) => l \in call[d].letter /\ Has(d, l)
                           /\ Holds(d, l) => Has(d, l) \/ l \in call[d].letter
    BY DEF Has, Holds, Hand, Queued
  <1>4. \A d \in Clients : /\ l \in call[d].letter => owner[l] = d
                           /\ Holds(d, l) => owner[l] # None
    BY DEF LetterApart, InCall
  <1>5. Has(c, l)' => Has(c, l) \/ l \in input \/ owner[l] \in {c, None}
    BY <1>3, <1>4
  <1>6. owner[l] # None => owner'[l] = owner[l]
    OBVIOUS
  <1>7. owner'[l] = None => l \notin input' /\ \A d \in Clients : ~Holds(d, l)'
    BY <1>1, <1>4 DEF LetterApart
  <1>8. \A d \in Clients : l \in call'[d].letter => InCall(d, l)'
    <2> SUFFICES ASSUME NEW d \in Clients, d # c, l \in call[d].letter PROVE InCall(d, l)'
      BY DEF OthersSame
    <2>1. InCall(d, l)
      BY DEF LetterApart
    <2>2. owner[l] = d /\ owner'[l] = d
      BY <1>4, <1>6
    <2>3. l \in input' => l \in input
      BY <1>3, <1>4, <2>2
    <2> QED
      BY <2>1, <2>2, <2>3 DEF InCall, OthersSame, Queued
  <1>9. l \in input' => \A d \in Clients : ~Has(d, l)'
    <2> SUFFICES ASSUME l \in input', NEW d \in Clients, d # c PROVE ~Has(d, l)
      BY <1>1
    <2> QED
      BY DEF LetterApart
  <1>10. ASSUME NEW d \in Clients, NEW e \in Clients,
                l \in Hand(d)', link'[d] # "broken", Has(e, l)', d # e
         PROVE  FALSE
    <2>1. CASE d = c
      BY <1>1, <1>3, <1>4, <1>10, <2>1 DEF LetterApart
    <2>2. CASE d # c
      <3>1. l \in Hand(d) /\ link[d] # "broken" /\ owner[l] = d /\ Has(d, l)
        BY <1>1, <1>3, <1>4, <1>10, <2>2 DEF OthersSame
      <3>2. ~Has(e, l) /\ l \notin input
        BY <1>10, <3>1 DEF LetterApart
      <3> QED
        BY <1>1, <1>5, <1>10, <2>2, <3>1, <3>2
    <2> QED
      BY <2>1, <2>2
  <1>11. ASSUME NEW d \in Clients, d # c, Has(c, l)', Has(d, l)
         PROVE  owner[l] \in {c, d}
    <2>1. l \notin input /\ owner[l] # None
      BY <1>3, <1>4, <1>11 DEF LetterApart
    <2> QED
      BY <1>5, <1>11, <2>1 DEF LetterApart
  <1>12. ASSUME NEW d \in Clients, NEW e \in Clients, Has(d, l)', Has(e, l)', d # e
         PROVE  owner'[l] \in {d, e}
    <2>1. owner[l] \in {d, e}
      BY <1>1, <1>11, <1>12 DEF LetterApart
    <2> QED
      BY <1>6, <2>1
  <1> QED
    BY <1>2, <1>7, <1>8, <1>9, <1>10, <1>12 DEF LetterApart

\* If besides it takes nothing back in hand, l stays where it was if that was one place.
LEMMA MoveKeeps ==
    ASSUME NEW l \in Letters, NEW c \in Clients, LetterApart(l), OthersSame(c),
           l \in doc[c] => l \in doc'[c],
           \/ /\ owner'[l] = owner[l]
              /\ l \in input' \/ Holds(c, l)' => l \in input \/ Holds(c, l)
           \/ owner[l] = None /\ owner'[l] = c /\ Holds(c, l)' /\ l \notin input',
           l \in input' => l \in input \/ (l \in Hand(c) /\ link[c] # "broken"),
           Has(c, l)' => Has(c, l) \/ l \in input \/ owner[l] = None,
           l \in Hand(c)' => \/ owner[l] = None \/ link'[c] = "broken"
                             \/ l \in Hand(c) /\ link[c] # "broken",
           l \in call'[c].letter => InCall(c, l)',
           l \in input' => ~Has(c, l)',
           OncePerClient(c, l)'
    PROVE  Keeps(l)
  <1>1. LetterApart(l)'
    BY MoveApart
  <1>2. Forward(l)
    BY MoveForward
  <1>3. ASSUME LetterOnce(l)
        PROVE  \A d, e \in Clients : Has(d, l)' /\ Has(e, l)' => d = e
    <2>1. \A d \in Clients : d # c => (Has(d, l)' <=> Has(d, l))
      BY DEF OthersSame, Has, Hand, Queued
    <2>2. \A d \in Clients : Has(d, l) => l \notin input /\ owner[l] # None
      BY DEF LetterApart, Has, Holds, Hand
    <2>3. Has(c, l)' => \A d \in Clients : d # c => ~Has(d, l)
      BY <1>3, <2>2 DEF LetterOnce
    <2> QED
      BY <1>3, <2>1, <2>3 DEF LetterOnce
  <1> QED
    BY <1>1, <1>2, <1>3 DEF Keeps, LetterOnce

\* A step of c that takes letters away, or none.
LEMMA ShrinkKeeps ==
    ASSUME NEW l \in Letters, NEW c \in Clients, LetterApart(l), OthersSame(c),
           owner'[l] = owner[l], l \in input' => l \in input,
           l \in Hand(c)' => l \in Hand(c),
           l \in call'[c].letter => l \in call[c].letter /\ link'[c] = link[c],
           l \in answer'[c].commit => l \in answer[c].commit,
           doc'[c] = doc[c], edits'[c] = edits[c]
    PROVE  Keeps(l)
  <1>1. OncePerClient(c, l) /\ (l \in input => ~Has(c, l))
    BY DEF LetterApart
  <1>2. Queued(c, l)' <=> Queued(c, l)
    BY DEF Queued
  <1>3. Has(c, l)' => Has(c, l)
    BY <1>2 DEF Has
  <1>4. OncePerClient(c, l)'
    BY <1>1, <1>2 DEF OncePerClient
  <1>5. Holds(c, l)' => Holds(c, l)
    BY <1>2 DEF Holds
  <1>6. l \in call'[c].letter => InCall(c, l)'
    BY <1>2 DEF LetterApart, InCall
  <1>7. l \in Hand(c)' => link'[c] = "broken" \/ (l \in Hand(c) /\ link[c] # "broken")
    BY DEF Hand
  <1> QED
    BY <1>1, <1>3, <1>4, <1>5, <1>6, <1>7, MoveKeeps

\* The call and the answer of every client after a request, a response and the end.
LEMMA RequestCall ==
    ASSUME TypeOK, NEW c \in Clients, NEW op, NEW letter, Request(c, op, letter)
    PROVE  /\ call'[c] = [op |-> op, letter |-> letter, phase |-> "sent"]
           /\ \A d \in Clients : d # c => call'[d] = call[d]
  BY DEF TypeOK, Request

LEMMA ReplyCall ==
    ASSUME TypeOK, NEW c \in Clients, NEW a, Reply(c, a)
    PROVE  /\ call'[c].phase = "answered" /\ call'[c].letter = call[c].letter
           /\ call'[c].op = call[c].op /\ answer'[c] = a
           /\ \A d \in Clients : d # c => call'[d] = call[d] /\ answer'[d] = answer[d]
  <1>1. call[c] \in Calls
    BY DEF TypeOK
  <1>2. /\ call'[c] = [call[c] EXCEPT !.phase = "answered"]
        /\ \A d \in Clients : d # c => call'[d] = call[d]
    BY DEF TypeOK, Reply
  <1>3. /\ call'[c].phase = "answered" /\ call'[c].letter = call[c].letter
        /\ call'[c].op = call[c].op
    BY <1>1, <1>2 DEF Calls
  <1> QED
    BY <1>2, <1>3 DEF TypeOK, Reply

LEMMA HangupCall ==
    ASSUME TypeOK, NEW c \in Clients, Hangup(c)
    PROVE  /\ call'[c] = IdleCall /\ answer'[c] = Silent("ok")
           /\ \A d \in Clients : d # c => call'[d] = call[d] /\ answer'[d] = answer[d]
  BY DEF TypeOK, Hangup

\* A request with no letter.
LEMMA EmptyRequestKeeps ==
    ASSUME TypeOK, NEW c \in Clients, NEW op, Request(c, op, {}), NEW l \in Letters,
           LetterApart(l), Connect(c) \/ UNCHANGED link,
           UNCHANGED <<input, owner, doc, edits, answer>>
    PROVE  Keeps(l)
  <1>1. /\ call'[c] = [op |-> op, letter |-> {}, phase |-> "sent"]
        /\ \A d \in Clients : d # c => call'[d] = call[d]
    BY RequestCall
  <1>2. OthersSame(c) /\ l \notin Hand(c)' /\ call'[c].letter = {}
    BY <1>1 DEF OthersSame, Hand, Connect, TypeOK
  <1> QED
    BY <1>2, ShrinkKeeps

\* A step that no letter takes part in.
LEMMA LetterFrame ==
    ASSUME NEW l \in Letters, LetterApart(l), l \in input' => l \in input,
           UNCHANGED <<owner, call, answer, doc, edits, link>>
    PROVE  Keeps(l)
  <1>1. \A c \in Clients : Has(c, l)' <=> Has(c, l)
    BY DEF Has, Hand, Queued
  <1>2. \A c \in Clients : OncePerClient(c, l)' <=> OncePerClient(c, l)
    BY DEF OncePerClient, Hand, Queued
  <1>3. \A c \in Clients : Holds(c, l)' <=> Holds(c, l)
    BY DEF Holds, Queued
  <1>4. \A c \in Clients : /\ InCall(c, l) => InCall(c, l)'
                           /\ l \in Hand(c)' <=> l \in Hand(c)
    BY DEF InCall, Queued, Hand
  <1>5. LetterApart(l)'
    BY <1>1, <1>2, <1>3, <1>4 DEF LetterApart
  <1>6. LetterOnce(l) => LetterOnce(l)'
    BY <1>1, <1>5 DEF LetterOnce
  <1>7. Forward(l)
    BY <1>3 DEF Forward, Alive
  <1> QED
    BY <1>5, <1>6, <1>7 DEF Keeps

\* A key press that types l: it is in c's request or, passed through, in c's document.
LEMMA TypedKeeps ==
    ASSUME TypeOK, NEW c \in Clients, NEW op, NEW letter \in SUBSET Letters,
           Press(c, op, letter), NEW l \in Letters, LetterApart(l), OthersSame(c),
           UNCHANGED <<input, edits, answer>>,
           \/ doc'[c] = doc[c] /\ call'[c].letter = letter
           \/ doc'[c] = doc[c] \cup letter /\ call'[c] = call[c] /\ link'[c] = link[c]
    PROVE  Keeps(l)
  <1> USE ClientsAssumption
  <1>1. Hand(c) = {}
    BY DEF Press, Idle, Hand
  <1>2. /\ OncePerClient(c, l) /\ (l \in input => ~Has(c, l))
        /\ owner[l] = None => ~Has(c, l) /\ ~Holds(c, l)
        /\ l \in call[c].letter => InCall(c, l)
    BY DEF LetterApart, Has, Holds, Hand
  <1>3. Queued(c, l)' <=> Queued(c, l)
    BY DEF Queued
  <1>4. l \in Hand(c)' => l \in letter /\ doc'[c] = doc[c]
    BY <1>1 DEF Hand
  <1>5. CASE l \in letter
    <2>1. owner[l] = None /\ owner'[l] = c /\ l \notin input
      BY <1>5 DEF Press, Typed, TypeOK, LetterApart
    <2>2. l \notin doc[c] /\ l \notin answer[c].commit /\ ~Queued(c, l)
      BY <1>2, <2>1 DEF Has
    <2>3. l \in Hand(c)' => l \notin doc'[c]
      BY <1>4, <2>2
    <2>4. \A i \in DOMAIN edits[c] : l \notin edits[c][i].commit
      BY <2>2 DEF Queued
    <2>5. OncePerClient(c, l)'
      BY <1>3, <2>2, <2>3, <2>4 DEF OncePerClient
    <2>6. l \notin input'
      BY <2>1
    <2>7. Holds(c, l)' /\ (l \in doc[c] => l \in doc'[c])
      BY <1>5 DEF Holds
    <2>8. l \in call'[c].letter => l \notin doc'[c]
      BY <1>2, <2>1, <2>2 DEF Holds
    <2>9. l \in call'[c].letter => InCall(c, l)'
      BY <1>3, <2>1, <2>2, <2>6, <2>8 DEF InCall
    <2> QED
      BY <2>1, <2>5, <2>6, <2>7, <2>9, MoveKeeps
  <1>6. CASE l \notin letter
    <2>1. owner'[l] = owner[l]
      BY <1>6 DEF Press, TypeOK
    <2>2. l \notin Hand(c)' /\ (l \in doc'[c] <=> l \in doc[c])
      BY <1>4, <1>6
    <2>3. Has(c, l)' => Has(c, l)
      BY <1>3, <2>2 DEF Has
    <2>4. OncePerClient(c, l)'
      BY <1>2, <1>3, <2>2 DEF OncePerClient
    <2>5. l \in call'[c].letter => l \in call[c].letter
      BY <1>6
    <2>6. Holds(c, l)' => Holds(c, l)
      BY <1>3, <2>2, <2>5 DEF Holds
    <2>7. l \in call'[c].letter => InCall(c, l)'
      BY <1>2, <1>3, <1>6, <2>1, <2>2 DEF InCall
    <2> QED
      BY <1>2, <2>1, <2>2, <2>3, <2>4, <2>6, <2>7, MoveKeeps
  <1> QED
    BY <1>5, <1>6

\* A response with no commit text: the letter is still in hand unless it says "ok".
LEMMA SilentReplyKeeps ==
    ASSUME TypeOK, NEW c \in Clients, NEW a, Reply(c, a), a.commit = {},
           call[c].phase \in {"sent", "serving"}, NEW l \in Letters, LetterApart(l),
           UNCHANGED <<owner, doc, edits, link>>, l \in input' => l \in input
    PROVE  Keeps(l)
  <1>1. OthersSame(c)
    BY ReplyCall DEF OthersSame
  <1>2. l \in Hand(c)' => l \in Hand(c)
    BY ReplyCall DEF Hand
  <1>3. l \in answer'[c].commit => l \in answer[c].commit
    BY ReplyCall
  <1>4. call'[c].letter = call[c].letter
    BY ReplyCall
  <1> QED
    BY <1>1, <1>2, <1>3, <1>4, ShrinkKeeps

\* The engine parts its input and the letter of the key into new input and commit.
LEMMA CommitReplyKeeps ==
    ASSUME TypeOK, NEW c \in Clients, NEW a, Reply(c, a), a.kind = "ok",
           call[c].phase = "serving", link[c] # "broken",
           NEW l \in Letters, LetterApart(l), UNCHANGED <<owner, doc, edits, link>>,
           l \in input' \/ l \in a.commit => l \in input \/ l \in call[c].letter,
           ~(l \in input' /\ l \in a.commit)
    PROVE  Keeps(l)
  <1>1. OthersSame(c)
    BY ReplyCall DEF OthersSame
  <1>2. l \notin Hand(c)' /\ (l \in answer'[c].commit <=> l \in a.commit)
    BY ReplyCall DEF Hand
  <1>3. l \in call[c].letter <=> l \in Hand(c)
    BY DEF Hand
  <1>4. OncePerClient(c, l) /\ (l \in input => ~Has(c, l))
    BY DEF LetterApart
  <1>5. Queued(c, l)' <=> Queued(c, l)
    BY DEF Queued
  <1>6. l \in input' \/ l \in a.commit => l \notin doc[c] /\ ~Queued(c, l)
    BY <1>3, <1>4 DEF Has, OncePerClient
  <1>7. OncePerClient(c, l)'
    BY <1>2, <1>4, <1>5, <1>6 DEF OncePerClient
  <1>8. l \in input' => ~Has(c, l)'
    BY <1>2, <1>5, <1>6 DEF Has
  <1>9. l \in input' \/ Has(c, l)' => l \in input \/ Has(c, l)
    BY <1>2, <1>3, <1>5 DEF Has
  <1>10. call'[c].letter = call[c].letter
    BY ReplyCall
  <1>11. l \in input' \/ Holds(c, l)' => l \in input \/ Holds(c, l)
    BY <1>2, <1>5, <1>10 DEF Holds
  <1>12. l \in call'[c].letter => InCall(c, l)'
    BY <1>5, <1>10 DEF LetterApart, InCall
  <1>13. l \in input' => l \in input \/ (l \in Hand(c) /\ link[c] # "broken")
    BY <1>3
  <1> QED
    BY <1>1, <1>2, <1>7, <1>8, <1>9, <1>11, <1>12, <1>13, MoveKeeps

\* A key is rejected: its letter stays in hand, letters of the input may be handed
\* out in a commit that nobody will read.
LEMMA RejectReplyKeeps ==
    ASSUME TypeOK, NEW c \in Clients, NEW a, Reply(c, a), a.kind # "ok",
           call[c].phase = "serving", link[c] # "broken",
           NEW l \in Letters, LetterApart(l), UNCHANGED <<owner, doc, edits, link>>,
           l \in input' \/ l \in a.commit => l \in input,
           ~(l \in input' /\ l \in a.commit)
    PROVE  Keeps(l)
  <1>1. OthersSame(c)
    BY ReplyCall DEF OthersSame
  <1>2. /\ l \in Hand(c)' <=> l \in Hand(c)
        /\ l \in answer'[c].commit <=> l \in a.commit
    BY ReplyCall DEF Hand
  <1>3. OncePerClient(c, l) /\ (l \in input => ~Has(c, l))
    BY DEF LetterApart
  <1>4. Queued(c, l)' <=> Queued(c, l)
    BY DEF Queued
  <1>5. l \in input => l \notin Hand(c) /\ l \notin doc[c] /\ ~Queued(c, l)
    BY <1>3 DEF Has
  <1>6. OncePerClient(c, l)'
    BY <1>2, <1>3, <1>4, <1>5 DEF OncePerClient
  <1>7. l \in input' => ~Has(c, l)'
    BY <1>2, <1>4, <1>5 DEF Has
  <1>8. Has(c, l)' => Has(c, l) \/ l \in input
    BY <1>2, <1>4 DEF Has
  <1>9. call'[c].letter = call[c].letter
    BY ReplyCall
  <1>10. l \in input' \/ Holds(c, l)' => l \in input \/ Holds(c, l)
    BY <1>2, <1>4, <1>9 DEF Holds
  <1>11. l \in call'[c].letter => InCall(c, l)'
    BY <1>4, <1>9 DEF LetterApart, InCall
  <1>12. l \in Hand(c)' => l \in Hand(c) /\ link[c] # "broken"
    BY <1>2
  <1> QED
    BY <1>1, <1>6, <1>7, <1>8, <1>10, <1>11, <1>12, MoveKeeps

\* A response is used up and brings no text.
LEMMA HangupKeeps ==
    ASSUME TypeOK, NEW c \in Clients, Hangup(c), NEW l \in Letters, LetterApart(l),
           DropBroken(c) \/ UNCHANGED link, UNCHANGED <<input, owner, doc, edits>>
    PROVE  Keeps(l)
  <1>1. OthersSame(c)
    BY HangupCall DEF OthersSame, DropBroken, TypeOK
  <1>2. l \notin Hand(c)' /\ l \notin answer'[c].commit /\ l \notin call'[c].letter
    BY HangupCall DEF Hand, IdleCall, Silent
  <1> QED
    BY <1>1, <1>2, ShrinkKeeps

\* The commit text of a response goes into an edit session.
LEMMA ScheduleKeeps ==
    ASSUME TypeOK, NEW c \in Clients, call[c].phase = "answered", answer[c].kind = "ok",
           Schedule(c), Hangup(c), NEW l \in Letters, LetterApart(l),
           UNCHANGED <<input, owner, doc, link>>
    PROVE  Keeps(l)
  <1> DEFINE e == [commit |-> answer[c].commit, preedit |-> answer[c].preedit,
                   composing |-> answer[c].composing]
             s == edits[c]
  <1>1. edits'[c] = Append(s, e) /\ \A d \in Clients : d # c => edits'[d] = edits[d]
    BY DEF TypeOK, Schedule
  <1>2. OthersSame(c)
    BY <1>1, HangupCall DEF OthersSame
  <1>3. l \notin Hand(c)' /\ l \notin answer'[c].commit
    BY HangupCall DEF Hand, IdleCall, Silent
  <1>4. s \in Seq(Edits) /\ e \in Edits
    <2>1. answer[c] \in Answers
      BY DEF TypeOK
    <2> QED
      BY <2>1 DEF TypeOK, Answers, Edits
  <1>5. e.commit = answer[c].commit
    OBVIOUS
  <1> HIDE DEF e
  <1>6. /\ DOMAIN Append(s, e) = 1 .. Len(s) + 1 /\ DOMAIN s = 1 .. Len(s) /\ Len(s) \in Nat
        /\ Append(s, e)[Len(s) + 1] = e
        /\ \A i \in 1 .. Len(s) : Append(s, e)[i] = s[i]
    BY <1>4
  <1>7. Queued(c, l)' <=> Queued(c, l) \/ l \in answer[c].commit
    BY <1>1, <1>5, <1>6 DEF Queued
  <1>8. OncePerClient(c, l) /\ (l \in input => ~Has(c, l))
    BY DEF LetterApart
  <1>9. \A i, j \in DOMAIN edits'[c] :
           l \in edits'[c][i].commit /\ l \in edits'[c][j].commit => i = j
    <2>1. CASE l \in answer[c].commit
      <3>1. \A i \in 1 .. Len(s) : l \notin s[i].commit
        BY <1>6, <1>8, <2>1 DEF OncePerClient, Queued
      <3> QED
        BY <1>1, <1>6, <3>1
    <2>2. CASE l \notin answer[c].commit
      <3>1. \A i, j \in 1 .. Len(s) : l \in s[i].commit /\ l \in s[j].commit => i = j
        BY <1>6, <1>8 DEF OncePerClient
      <3> QED
        BY <1>1, <1>5, <1>6, <2>2, <3>1
    <2> QED
      BY <2>1, <2>2
  <1>10. doc'[c] = doc[c] /\ (l \in doc[c] => ~Queued(c, l)')
    BY <1>7, <1>8 DEF OncePerClient
  <1>11. OncePerClient(c, l)'
    BY <1>3, <1>9, <1>10 DEF OncePerClient
  <1>12. Has(c, l)' => Has(c, l)
    BY <1>3, <1>7, <1>10 DEF Has
  <1>13. l \notin call'[c].letter
    BY HangupCall DEF IdleCall
  <1>14. Holds(c, l)' => Holds(c, l)
    BY <1>3, <1>7, <1>10, <1>13 DEF Holds
  <1> QED
    BY <1>2, <1>3, <1>8, <1>10, <1>11, <1>12, <1>13, <1>14, MoveKeeps

\* The raw key goes to the application: from the hand to the document.
LEMMA PassKeeps ==
    ASSUME TypeOK, NEW c \in Clients, call[c].phase = "answered", answer[c].kind # "ok",
           PassThrough(c, call[c].letter), DropBroken(c), Hangup(c),
           NEW l \in Letters, LetterApart(l), UNCHANGED <<input, owner, edits>>
    PROVE  Keeps(l)
  <1>1. /\ doc'[c] = doc[c] \cup call[c].letter
        /\ \A d \in Clients : d # c => doc'[d] = doc[d]
    BY DEF TypeOK, PassThrough
  <1>2. OthersSame(c)
    BY <1>1, HangupCall DEF OthersSame, DropBroken, TypeOK
  <1>3. l \notin Hand(c)' /\ l \notin answer'[c].commit
    BY HangupCall DEF Hand, IdleCall, Silent
  <1>4. l \in doc'[c] <=> l \in doc[c] \/ l \in Hand(c)
    BY <1>1 DEF Hand
  <1>5. Queued(c, l)' <=> Queued(c, l)
    BY DEF Queued
  <1>6. OncePerClient(c, l) /\ (l \in input => ~Has(c, l))
    BY DEF LetterApart
  <1>7. OncePerClient(c, l)'
    BY <1>3, <1>4, <1>5, <1>6 DEF OncePerClient
  <1>8. Has(c, l)' => Has(c, l)
    BY <1>3, <1>4, <1>5 DEF Has
  <1>9. l \notin call'[c].letter /\ (l \in doc'[c] => l \in doc[c] \/ l \in call[c].letter)
    BY <1>1, HangupCall DEF IdleCall
  <1>10. Holds(c, l)' => Holds(c, l)
    BY <1>3, <1>5, <1>9 DEF Holds
  <1> QED
    BY <1>1, <1>2, <1>3, <1>6, <1>7, <1>8, <1>9, <1>10, MoveKeeps

\* An edit session leaves the queue; its text is written, or lost.
LEMMA EditKeeps ==
    ASSUME TypeOK, NEW c \in Clients, edits[c] # <<>>,
           edits' = [edits EXCEPT ![c] = Tail(@)],
           \A d \in Clients : d # c => doc'[d] = doc[d],
           doc'[c] = doc[c] \/ doc'[c] = doc[c] \cup Head(edits[c]).commit,
           NEW l \in Letters, LetterApart(l), UNCHANGED <<input, owner, link, callVars>>
    PROVE  Keeps(l)
  <1> DEFINE s == edits[c]
  <1>1. edits'[c] = Tail(s) /\ \A d \in Clients : d # c => edits'[d] = edits[d]
    BY DEF TypeOK
  <1>2. OthersSame(c)
    BY <1>1 DEF OthersSame, callVars
  <1>3. s \in Seq(Edits) /\ s # <<>>
    BY DEF TypeOK
  <1>4. /\ Len(s) \in Nat /\ Len(s) > 0 /\ DOMAIN s = 1 .. Len(s)
        /\ DOMAIN Tail(s) = 1 .. Len(s) - 1 /\ Head(s) = s[1]
        /\ \A i \in 1 .. Len(s) - 1 : Tail(s)[i] = s[i + 1]
    BY <1>3
  <1>5. OncePerClient(c, l) /\ (l \in input => ~Has(c, l))
    BY DEF LetterApart
  <1>6. \A i, j \in DOMAIN s : l \in s[i].commit /\ l \in s[j].commit => i = j
    BY <1>5 DEF OncePerClient
  <1>7. \A i \in DOMAIN Tail(s) : i + 1 \in DOMAIN s /\ Tail(s)[i] = s[i + 1] /\ i \in Nat
    BY <1>4
  <1>8. Queued(c, l)' => Queued(c, l)
    BY <1>1, <1>7 DEF Queued
  <1>9. l \in Head(s).commit => Queued(c, l) /\ ~Queued(c, l)'
    <2> SUFFICES ASSUME l \in Head(s).commit PROVE Queued(c, l) /\ ~Queued(c, l)'
      OBVIOUS
    <2>1. 1 \in DOMAIN s /\ l \in s[1].commit
      BY <1>4
    <2>2. \A i \in DOMAIN Tail(s) : l \notin Tail(s)[i].commit
      BY <1>6, <1>7, <2>1
    <2> QED
      BY <1>1, <2>1, <2>2 DEF Queued
  <1>10. \A i, j \in DOMAIN edits'[c] :
            l \in edits'[c][i].commit /\ l \in edits'[c][j].commit => i = j
    <2> SUFFICES ASSUME NEW i \in DOMAIN Tail(s), NEW j \in DOMAIN Tail(s),
                        l \in Tail(s)[i].commit, l \in Tail(s)[j].commit
                 PROVE  i = j
      BY <1>1
    <2>1. i + 1 = j + 1 /\ i \in Nat /\ j \in Nat
      BY <1>6, <1>7
    <2> QED
      BY <2>1
  <1>11. l \in doc'[c] => l \in doc[c] \/ l \in Head(s).commit
    OBVIOUS
  <1>12. (l \in Hand(c)' <=> l \in Hand(c)) /\ answer'[c] = answer[c]
    BY DEF Hand, callVars
  <1>13. l \in doc'[c] => l \notin Hand(c) /\ l \notin answer[c].commit /\ ~Queued(c, l)'
    BY <1>5, <1>8, <1>9, <1>11 DEF OncePerClient
  <1>14. OncePerClient(c, l)'
    BY <1>5, <1>8, <1>10, <1>12, <1>13 DEF OncePerClient
  <1>15. Has(c, l)' => Has(c, l)
    BY <1>8, <1>9, <1>11, <1>12 DEF Has
  <1>16. Holds(c, l)' => Holds(c, l)
    BY <1>8, <1>9, <1>11 DEF Holds, callVars
  <1>17. l \in call'[c].letter => InCall(c, l)'
    BY <1>8, <1>9, <1>11 DEF LetterApart, InCall, callVars
  <1>18. l \in doc[c] => l \in doc'[c]
    OBVIOUS
  <1>19. l \in Hand(c)' => link'[c] = "broken" \/ (l \in Hand(c) /\ link[c] # "broken")
    BY <1>12
  <1> QED
    BY <1>2, <1>5, <1>14, <1>15, <1>16, <1>17, <1>18, <1>19, MoveKeeps

\* A pipe whose server died ends its request: the key is raw again, wherever the
\* server has put the letter since.
LEMMA BreakApart ==
    ASSUME TypeOK, NEW c \in Clients, Break(c), NEW l \in Letters, LetterApart(l)
    PROVE  LetterApart(l)' /\ Forward(l)
  <1>1. /\ link[c] = "broken" /\ Reply(c, Silent("broken"))
        /\ UNCHANGED <<input, owner, doc, edits, link>>
    BY DEF Break, serverVars, userVars, viewVars, flagVars
  <1>2. OthersSame(c)
    BY <1>1, ReplyCall DEF OthersSame
  <1>3. /\ call'[c].letter = call[c].letter /\ l \notin answer'[c].commit
        /\ l \in Hand(c)' <=> l \in call[c].letter
    BY <1>1, ReplyCall DEF Hand, Silent
  <1>4. Queued(c, l)' <=> Queued(c, l)
    BY <1>1 DEF Queued
  <1>5. /\ OncePerClient(c, l) /\ (l \in input => ~Has(c, l))
        /\ l \in call[c].letter => InCall(c, l)
    BY DEF LetterApart
  <1>6. OncePerClient(c, l)'
    BY <1>1, <1>3, <1>4, <1>5 DEF OncePerClient, InCall
  <1>7. l \in call'[c].letter => InCall(c, l)'
    BY <1>1, <1>3, <1>4, <1>5 DEF InCall
  <1>8. l \in input' => ~Has(c, l)'
    BY <1>1, <1>3, <1>4, <1>5 DEF Has, InCall
  <1>9. l \in input' \/ Holds(c, l)' => l \in input \/ Holds(c, l)
    BY <1>1, <1>3, <1>4 DEF Holds
  <1> QED
    BY <1>1, <1>2, <1>6, <1>7, <1>8, <1>9, MoveApart, MoveForward

\* The server dies with its input; its requests are as if they had not been taken.
LEMMA CrashKeeps ==
    ASSUME TypeOK, Crash, NEW l \in Letters, LetterApart(l)
    PROVE  Keeps(l)
  <1>1. /\ input' = {} /\ UNCHANGED <<owner, doc, edits, answer>>
        /\ \A c \in Clients : link[c] = "broken" => link'[c] = "broken"
    BY DEF Crash, TypeOK, userVars, viewVars
  <1>2. \A c \in Clients : call[c] \in Calls
    BY DEF TypeOK
  <1>3. \A c \in Clients : /\ call'[c].letter = call[c].letter
                           /\ call'[c].phase = IF call[c].phase = "serving" THEN "sent"
                                                                           ELSE call[c].phase
    BY <1>2 DEF Crash, Calls
  <1>4. \A c \in Clients : Hand(c)' = Hand(c)
    BY <1>1, <1>3 DEF Hand
  <1>5. \A c \in Clients : /\ Queued(c, l)' <=> Queued(c, l)
                           /\ Has(c, l)' <=> Has(c, l)
                           /\ Holds(c, l)' <=> Holds(c, l)
    BY <1>1, <1>3, <1>4 DEF Queued, Has, Holds
  <1>6. \A c \in Clients : /\ OncePerClient(c, l)' <=> OncePerClient(c, l)
                           /\ InCall(c, l) => InCall(c, l)'
    BY <1>1, <1>4, <1>5 DEF OncePerClient, InCall
  <1>7. LetterApart(l)'
    BY <1>1, <1>3, <1>4, <1>5, <1>6 DEF LetterApart
  <1>8. LetterOnce(l) => LetterOnce(l)'
    BY <1>5, <1>7 DEF LetterOnce
  <1>9. Forward(l)
    BY <1>1, <1>5 DEF Forward, Alive
  <1> QED
    BY <1>7, <1>8, <1>9 DEF Keeps

\* What Rime hands out is what it was given, each letter in the input or the commit.
LEMMA RimeKeyParts ==
    ASSUME NEW op, NEW letter, NEW r \in RimeKey(op, letter), NEW l,
           l \in letter => l \notin input
    PROVE  /\ l \in r[1] \/ l \in r[2] => l \in input \/ l \in letter
           /\ ~(l \in r[1] /\ l \in r[2])
  BY DEF RimeKey

\* And of a key it rejects, only letters of the input.
LEMMA RimeRejectParts ==
    ASSUME NEW op, NEW r \in RimeReject(op), NEW l
    PROVE  /\ l \in r[1] \/ l \in r[2] => l \in input
           /\ ~(l \in r[1] /\ l \in r[2])
  BY DEF RimeReject

\* Every step but the break of a pipe moves each letter from place to place.
LEMMA LetterStep ==
    ASSUME TypeOK, LockInv, Next, NEW l \in Letters, LetterApart(l)
    PROVE  Keeps(l) \/ \E c \in Clients : Break(c)
  <1>0. \A c \in Clients : call[c].phase = "serving" => link[c] = "live"
    BY DEF LockInv
  <1> USE DEF serverVars, userVars, viewVars, flagVars
  <1>1. ASSUME NEW c \in Clients, NEW op \in KeyOps, NEW letter \in SUBSET Letters,
               KeyDown(c, op, letter)
        PROVE  Keeps(l)
    <2>0. Press(c, op, letter) /\ UNCHANGED <<input, edits, answer>>
      BY <1>1 DEF KeyDown
    <2>1. CASE Connectable(c)
      <3>1. Request(c, op, letter) /\ doc' = doc
        BY <1>1, <2>1 DEF KeyDown
      <3>2. /\ call'[c] = [op |-> op, letter |-> letter, phase |-> "sent"]
            /\ \A d \in Clients : d # c => call'[d] = call[d]
        BY <3>1, RequestCall
      <3>3. Connect(c)
        BY <1>1, <2>1 DEF KeyDown
      <3>4. OthersSame(c) /\ call'[c].letter = letter
        BY <2>0, <3>1, <3>2, <3>3 DEF OthersSame, Connect, TypeOK
      <3> QED
        BY <2>0, <3>1, <3>4, TypedKeeps
    <2>2. CASE ~Connectable(c)
      <3>1. PassThrough(c, letter) /\ call' = call /\ link' = link
        BY <1>1, <2>2 DEF KeyDown
      <3>2. doc'[c] = doc[c] \cup letter /\ \A d \in Clients : d # c => doc'[d] = doc[d]
        BY <3>1 DEF PassThrough, TypeOK
      <3>3. OthersSame(c)
        BY <2>0, <3>1, <3>2 DEF OthersSame
      <3> QED
        BY <2>0, <3>1, <3>2, <3>3, TypedKeeps
    <2> QED
      BY <2>1, <2>2
  <1>2. ASSUME NEW c \in Clients, NEW op \in KeyOps, NEW letter \in SUBSET Letters,
               KeyBypass(c, op, letter)
        PROVE  Keeps(l)
    <2>1. Press(c, op, letter) /\ UNCHANGED <<input, edits, answer, call, link>>
      BY <1>2 DEF KeyBypass, callVars
    <2>2. doc'[c] = doc[c] \cup letter /\ \A d \in Clients : d # c => doc'[d] = doc[d]
      BY <1>2 DEF KeyBypass, PassThrough, TypeOK
    <2>3. OthersSame(c)
      BY <2>1, <2>2 DEF OthersSame
    <2> QED
      BY <2>1, <2>2, <2>3, TypedKeeps
  <1>3. ASSUME NEW c \in Clients, KeyUp(c)
        PROVE  Keeps(l)
    BY <1>3, EmptyRequestKeeps DEF KeyUp, Press
  <1>4. ASSUME NEW c \in Clients, ShiftUp(c)
        PROVE  Keeps(l)
    BY <1>4, EmptyRequestKeeps DEF ShiftUp, Press
  <1>5. ASSUME NEW c \in Clients, ButtonClick(c)
        PROVE  Keeps(l)
    BY <1>5, EmptyRequestKeeps DEF ButtonClick, Press
  <1>6. ASSUME NEW c \in Clients, HandleGain(c)
        PROVE  Keeps(l)
    BY <1>6, EmptyRequestKeeps, LetterFrame DEF HandleGain
  <1>7. ASSUME NEW c \in Clients, Activate(c)
        PROVE  Keeps(l)
    BY <1>7, EmptyRequestKeeps, LetterFrame DEF Activate
  <1>8. ASSUME NEW c \in Clients, HandleLose(c)
        PROVE  Keeps(l)
    BY <1>8, EmptyRequestKeeps, LetterFrame DEF HandleLose
  <1>9. ASSUME NEW c \in Clients, Deactivate(c) \/ CompositionTerminated(c)
        PROVE  Keeps(l)
    BY <1>9, LetterFrame DEF Deactivate, CompositionTerminated, callVars
  <1>10. ASSUME NEW f, SwitchFocus(f)
         PROVE  Keeps(l)
    BY <1>10, LetterFrame DEF SwitchFocus, callVars
  <1>11. ASSUME MaintBegin \/ FetchEnd \/ RedeployEnd \/ SelectSchema \/ TrayToggle \/ Restart
         PROVE  Keeps(l)
    BY <1>11, LetterFrame DEF MaintBegin, FetchEnd, RedeployEnd, SelectSchema, TrayToggle,
       Restart, callVars
  <1>12. ASSUME NEW c \in Clients, Accept(c)
         PROVE  Keeps(l)
    <2>1. /\ call'[c] = [call[c] EXCEPT !.phase = "serving"]
          /\ \A d \in Clients : d # c => call'[d] = call[d]
      BY <1>12 DEF Accept, TypeOK
    <2>2. call[c] \in Calls /\ call[c].phase = "sent"
      BY <1>12 DEF Accept, TypeOK
    <2>3. call'[c].phase = "serving" /\ call'[c].letter = call[c].letter
      BY <2>1, <2>2 DEF Calls
    <2>4. UNCHANGED <<input, owner, doc, edits, answer, link>>
      BY <1>12 DEF Accept
    <2>5. OthersSame(c)
      BY <2>1, <2>4 DEF OthersSame
    <2>6. Hand(c)' = Hand(c)
      BY <2>2, <2>3 DEF Hand
    <2> QED
      BY <2>3, <2>4, <2>5, <2>6, ShrinkKeeps
  <1>13. ASSUME NEW c \in Clients, RefuseBusy(c)
         PROVE  Keeps(l)
    BY <1>13, SilentReplyKeeps DEF RefuseBusy, Silent
  <1>14. ASSUME NEW c \in Clients, ServeStart(c) \/ ServeFocusOut(c) \/ ServeKeyGated(c)
         PROVE  Keeps(l)
    <2>1. /\ call[c].phase = "serving" /\ UNCHANGED <<owner, doc, edits, link>>
          /\ l \in input' => l \in input
      BY <1>14 DEF ServeStart, ServeFocusOut, ServeKeyGated, Serving
    <2>2. PICK a : Reply(c, a) /\ a.commit = {}
      <3>1. CASE ServeStart(c)
        <4> DEFINE a == [Silent("ok") EXCEPT !.composing = input # {}, !.ascii = asciiOpt]
        <4>1. Reply(c, a)
          BY <3>1 DEF ServeStart
        <4>2. a.commit = {}
          BY DEF Silent
        <4> QED
          BY <4>1, <4>2
      <3>2. CASE ServeFocusOut(c)
        BY <3>2 DEF ServeFocusOut, Silent
      <3>3. CASE ServeKeyGated(c)
        <4> DEFINE a == [Silent("unhandled") EXCEPT !.composing = input # {},
                                                    !.ascii = asciiOpt]
        <4>1. Reply(c, a)
          BY <3>3 DEF ServeKeyGated
        <4>2. a.commit = {}
          BY DEF Silent
        <4> QED
          BY <4>1, <4>2
      <3> QED
        BY <1>14, <3>1, <3>2, <3>3
    <2> QED
      BY <2>1, <2>2, SilentReplyKeeps
  <1>15. ASSUME NEW c \in Clients, ServeKeyUnhandled(c)
         PROVE  Keeps(l)
    <2>1. call[c].phase = "serving" /\ UNCHANGED <<owner, doc, edits, link>>
      BY <1>15 DEF ServeKeyUnhandled, Serving
    <2>2. PICK r \in RimeReject(call[c].op) :
             /\ input' = r[1]
             /\ Reply(c, [kind |-> "unhandled", commit |-> r[2], preedit |-> r[1],
                          composing |-> r[1] # {}, ascii |-> asciiOpt'])
      BY <1>15 DEF ServeKeyUnhandled
    <2>3. /\ l \in r[1] \/ l \in r[2] => l \in input
          /\ ~(l \in r[1] /\ l \in r[2])
      BY RimeRejectParts
    <2> QED
      BY <1>0, <2>1, <2>2, <2>3, RejectReplyKeeps
  <1>16. ASSUME NEW c \in Clients, ServeToggle(c)
         PROVE  Keeps(l)
    <2> DEFINE a == [Silent("ok") EXCEPT !.commit = IF asciiOpt THEN {} ELSE input,
                                         !.ascii = ~asciiOpt]
    <2>1. /\ call[c].phase = "serving" /\ UNCHANGED <<owner, doc, edits, link>>
          /\ input' = {} /\ Reply(c, a)
      BY <1>16 DEF ServeToggle, Serving
    <2>2. a.kind = "ok" /\ (l \in a.commit => l \in input)
      BY DEF Silent
    <2> HIDE DEF a
    <2> QED
      BY <1>0, <2>1, <2>2, CommitReplyKeeps
  <1>17. ASSUME NEW c \in Clients, ServeKey(c)
         PROVE  Keeps(l)
    <2>1. call[c].phase = "serving" /\ UNCHANGED <<owner, doc, edits, link>>
      BY <1>17 DEF ServeKey, Serving
    <2>2. PICK r \in RimeKey(call[c].op, call[c].letter) :
             /\ input' = r[1]
             /\ Reply(c, [kind |-> "ok", commit |-> r[2], preedit |-> r[1],
                          composing |-> r[1] # {}, ascii |-> asciiOpt])
      BY <1>17 DEF ServeKey
    <2>3. l \in call[c].letter => l \notin input
      BY <2>1 DEF LetterApart, Has, Hand
    <2>4. /\ l \in r[1] \/ l \in r[2] => l \in input \/ l \in call[c].letter
          /\ ~(l \in r[1] /\ l \in r[2])
      BY <2>3, RimeKeyParts
    <2> QED
      BY <1>0, <2>1, <2>2, <2>4, CommitReplyKeeps
  <1>18. ASSUME NEW c \in Clients, ReturnStart(c) \/ ReturnFocusOut(c) \/ ReturnButton(c)
         PROVE  Keeps(l)
    BY <1>18, HangupKeeps DEF ReturnStart, ReturnFocusOut, ReturnButton
  <1>19. ASSUME NEW c \in Clients, ReturnKeyHandled(c)
         PROVE  Keeps(l)
    BY <1>19, ScheduleKeeps DEF ReturnKeyHandled, Answered
  <1>20. ASSUME NEW c \in Clients, ReturnKeyUnhandled(c)
         PROVE  Keeps(l)
    BY <1>20, PassKeeps DEF ReturnKeyUnhandled, Answered
  <1>21. ASSUME NEW c \in Clients, ReturnToggle(c)
         PROVE  Keeps(l)
    <2>1. CASE answer[c].kind = "ok" /\ answer[c].commit # {}
      BY <1>21, <2>1, ScheduleKeeps DEF ReturnToggle, Answered
    <2>2. CASE ~(answer[c].kind = "ok" /\ answer[c].commit # {})
      BY <1>21, <2>2, HangupKeeps DEF ReturnToggle
    <2> QED
      BY <2>1, <2>2
  <1>22. ASSUME NEW c \in Clients, NEW started, RunEdit(c, started)
         PROVE  Keeps(l)
    <2>1. /\ edits[c] # <<>> /\ edits' = [edits EXCEPT ![c] = Tail(@)]
          /\ UNCHANGED <<input, owner, link, callVars>>
      BY <1>22 DEF RunEdit
    <2>2. /\ \A d \in Clients : d # c => doc'[d] = doc[d]
          /\ doc'[c] = doc[c] \/ doc'[c] = doc[c] \cup Head(edits[c]).commit
      BY <1>22 DEF RunEdit, TypeOK
    <2> QED
      BY <2>1, <2>2, EditKeeps
  <1>23. ASSUME NEW c \in Clients, DropEdit(c)
         PROVE  Keeps(l)
    BY <1>23, EditKeeps DEF DropEdit
  <1>24. ASSUME Crash
         PROVE  Keeps(l)
    BY <1>24, CrashKeeps
  <1> QED
    BY NextCases, <1>1, <1>2, <1>3, <1>4, <1>5, <1>6, <1>7, <1>8, <1>9, <1>10, <1>11,
       <1>12, <1>13, <1>14, <1>15, <1>16, <1>17, <1>18, <1>19, <1>20, <1>21, <1>22, <1>23,
       <1>24 DEF Serve, Return

\* A pipe breaks in a crash of the server only.
LEMMA NoBrokenStep ==
    ASSUME TypeOK, \A c \in Clients : link[c] # "broken", Next, "crash" \notin Events
    PROVE  \A c \in Clients : link'[c] # "broken"
  <1>1. ASSUME NEW c \in Clients, Connect(c) \/ DropBroken(c) \/ UNCHANGED link
        PROVE  \A d \in Clients : link'[d] # "broken"
    BY <1>1 DEF TypeOK, Connect, DropBroken
  <1>2. ASSUME NEW c \in Clients, NEW op, NEW letter,
               KeyDown(c, op, letter) \/ KeyBypass(c, op, letter)
        PROVE  \A d \in Clients : link'[d] # "broken"
    BY <1>1, <1>2 DEF KeyDown, KeyBypass, flagVars
  <1>3. ASSUME NEW c \in Clients,
               \/ KeyUp(c) \/ ShiftUp(c) \/ ButtonClick(c) \/ Deactivate(c) \/ Activate(c)
               \/ HandleGain(c) \/ HandleLose(c) \/ DropEdit(c) \/ CompositionTerminated(c)
        PROVE  \A d \in Clients : link'[d] # "broken"
    BY <1>1, <1>3 DEF KeyUp, ShiftUp, ButtonClick, Deactivate, Activate, HandleGain,
       HandleLose, DropEdit, CompositionTerminated, flagVars
  <1>4. ASSUME NEW c \in Clients, Serve(c) \/ Return(c)
        PROVE  \A d \in Clients : link'[d] # "broken"
    BY <1>1, <1>4 DEF Serve, Accept, RefuseBusy, Break, ServeStart, ServeFocusOut,
       ServeToggle, ServeKeyGated, ServeKeyUnhandled, ServeKey, Return, ReturnStart,
       ReturnFocusOut, ReturnKeyHandled, ReturnKeyUnhandled, ReturnToggle, ReturnButton,
       flagVars
  <1>5. ASSUME NEW c \in Clients, NEW started, RunEdit(c, started)
        PROVE  \A d \in Clients : link'[d] # "broken"
    BY <1>1, <1>5 DEF RunEdit, flagVars
  <1>6. ASSUME \/ MaintBegin \/ FetchEnd \/ RedeployEnd \/ SelectSchema \/ TrayToggle
               \/ Restart
               \/ \E f : SwitchFocus(f)
        PROVE  \A d \in Clients : link'[d] # "broken"
    BY <1>6 DEF MaintBegin, FetchEnd, RedeployEnd, SelectSchema, TrayToggle, Restart,
       SwitchFocus, flagVars
  <1>7. ~Crash
    BY DEF Crash
  <1> QED
    BY NextCases, <1>2, <1>3, <1>4, <1>5, <1>6, <1>7

LEMMA LetterInit ==
    ASSUME Init, NEW l \in Letters
    PROVE  LetterOnce(l)
  <1>1. \A c \in Clients : /\ Hand(c) = {} /\ call[c].letter = {} /\ answer[c].commit = {}
                           /\ doc[c] = {} /\ edits[c] = <<>>
    BY DEF Init, Hand, IdleCall, Silent
  <1>2. \A c \in Clients : DOMAIN edits[c] = {}
    BY <1>1
  <1>3. input = {}
    BY DEF Init
  <1>4. \A c \in Clients : ~Has(c, l) /\ ~Holds(c, l) /\ OncePerClient(c, l)
    BY <1>1, <1>2 DEF Has, Holds, Queued, OncePerClient
  <1> QED
    BY <1>1, <1>3, <1>4 DEF LetterOnce, LetterApart

LEMMA LetterStutter ==
    ASSUME UNCHANGED vars, NEW l \in Letters, LetterApart(l)
    PROVE  Keeps(l)
  BY LetterFrame DEF vars, serverVars, userVars, viewVars, flagVars, callVars

\* Whatever happens, crashes included.
LEMMA ApartInvariant == Spec => [](TypeOK /\ \A l \in Letters : LetterApart(l))
  <1> DEFINE Apart == \A l \in Letters : LetterApart(l)
  <1>1. Init => Apart
    BY LetterInit DEF LetterOnce
  <1>2. TypeOK /\ LockInv /\ Apart /\ [Next]_vars => Apart'
    <2> SUFFICES ASSUME TypeOK, LockInv, Apart, [Next]_vars, NEW l \in Letters
                 PROVE  LetterApart(l)'
      OBVIOUS
    <2>1. LetterApart(l)
      OBVIOUS
    <2> HIDE DEF Apart
    <2> QED
      BY <2>1, LetterStep, LetterStutter, BreakApart DEF Keeps
  <1> HIDE DEF Apart
  <1>3. Spec => []Apart
    BY <1>1, <1>2, LockInvariant, PTL DEF Spec
  <1> QED
    BY <1>3, TypeCorrect, PTL DEF Apart

LEMMA LetterInvariant ==
    ASSUME "crash" \notin Events
    PROVE  Spec => [](TypeOK /\ LockInv /\ LetterInv)
  <1>1. LetterInv /\ UNCHANGED vars => LetterInv'
    <2> SUFFICES ASSUME LetterInv, UNCHANGED vars PROVE LetterInv'
      OBVIOUS
    <2>1. \A c \in Clients : link'[c] # "broken"
      BY DEF LetterInv, vars, flagVars
    <2>2. \A l \in Letters : LetterOnce(l)'
      BY LetterStutter DEF LetterInv, LetterOnce, Keeps
    <2> QED
      BY <2>1, <2>2 DEF LetterInv
  <1>2. TypeOK /\ LockInv /\ LetterInv /\ Next => LetterInv'
    <2> SUFFICES ASSUME TypeOK, LockInv, LetterInv, Next PROVE LetterInv'
      OBVIOUS
    <2>1. \A c \in Clients : link[c] # "broken" /\ ~Break(c)
      BY DEF LetterInv, Break
    <2>2. \A l \in Letters : LetterOnce(l)'
      BY <2>1, LetterStep DEF LetterInv, LetterOnce, Keeps
    <2> QED
      BY <2>1, <2>2, NoBrokenStep DEF LetterInv
  <1>3. TypeOK /\ LockInv /\ LetterInv /\ [Next]_vars => LetterInv'
    BY <1>1, <1>2
  <1>4. Init => LetterInv
    BY LetterInit DEF LetterInv, Init
  <1> QED
    BY <1>3, <1>4, LockInvariant, PTL DEF Spec

\* A letter c has been committed is a letter, and one of c's places has it.
LEMMA HeldHas ==
    ASSUME TypeOK, NEW c \in Clients, NEW l \in Held(c)
    PROVE  l \in Letters /\ Has(c, l)
  <1>1. answer[c] \in Answers /\ edits[c] \in Seq(Edits) /\ doc[c] \subseteq Letters
    BY DEF TypeOK
  <1>2. \A i \in DOMAIN edits[c] : edits[c][i] \in Edits
    BY <1>1
  <1>3. l \in Letters
    BY <1>1, <1>2 DEF Held, Answers, Edits
  <1>4. Has(c, l)
    BY DEF Held, Has, Queued
  <1> QED
    BY <1>3, <1>4

LEMMA ApartInClient ==
    ASSUME TypeOK, \A l \in Letters : LetterApart(l), NEW c \in Clients
    PROVE  CommitOnceIn(c)
  <1>1. \A l \in Held(c) : l \in Letters /\ Has(c, l)
    BY HeldHas
  <1>2. \A l \in Letters : OncePerClient(c, l) /\ (l \in input => ~Has(c, l))
    BY DEF LetterApart
  <1>3. input \cap Held(c) = {}
    BY <1>1, <1>2
  <1>4. answer[c].commit \cap doc[c] = {}
    <2>1. answer[c].commit \subseteq Held(c)
      BY DEF Held
    <2> QED
      BY <1>1, <1>2, <2>1 DEF OncePerClient
  <1>5. ASSUME NEW i \in DOMAIN edits[c]
        PROVE  \A l \in edits[c][i].commit : l \in Letters /\ Queued(c, l)
    BY <1>1 DEF Held, Queued
  <1>6. ASSUME NEW i \in DOMAIN edits[c]
        PROVE  edits[c][i].commit \cap (answer[c].commit \cup doc[c]) = {}
    BY <1>2, <1>5 DEF OncePerClient
  <1>7. ASSUME NEW i \in DOMAIN edits[c], NEW j \in DOMAIN edits[c], i # j
        PROVE  edits[c][i].commit \cap edits[c][j].commit = {}
    BY <1>2, <1>5, <1>7 DEF OncePerClient
  <1> QED
    BY <1>3, <1>4, <1>6, <1>7 DEF CommitOnceIn

\* Whatever happens, a server that dies with requests half done included, no
\* application commits a letter twice, and the engine keeps none it has handed out.
THEOREM CommitOncePerApplication == Spec => []CommitOnceEach
  <1> DEFINE Apart == \A l \in Letters : LetterApart(l)
  <1>1. TypeOK /\ Apart => CommitOnceEach
    BY ApartInClient DEF CommitOnceEach
  <1>2. Spec => [](TypeOK /\ Apart)
    BY ApartInvariant
  <1> HIDE DEF Apart
  <1> QED
    BY <1>1, <1>2, PTL

\* A letter reaches two applications in one way only: one of them is the one it was
\* typed into, which got the raw key back from a server that died after handing the
\* letter to the other; so it reaches no third one and never two strangers.
SharedAtHome ==
    \A c, d \in Clients : c # d => \A l \in Held(c) \cap Held(d) : owner[l] \in {c, d}

\* Whatever happens, crashes included, a letter committed by two applications was
\* typed into one of them.
THEOREM CommitSharedAtHome == Spec => []SharedAtHome
  <1> DEFINE Apart == \A l \in Letters : LetterApart(l)
  <1>1. TypeOK /\ Apart => SharedAtHome
    BY HeldHas DEF SharedAtHome, LetterApart
  <1>2. Spec => [](TypeOK /\ Apart)
    BY ApartInvariant
  <1> HIDE DEF Apart
  <1> QED
    BY <1>1, <1>2, PTL

\* As long as the server lives no letter is committed twice, for any number of
\* applications and edit sessions, in whatever order requests, responses, edit
\* sessions, focus changes, redeploys and refused requests come.
THEOREM CommitAtMostOnceAlways ==
    ASSUME "crash" \notin Events
    PROVE  Spec => []CommitAtMostOnce
  <1>1. TypeOK /\ LetterInv => CommitAtMostOnce
    <2> SUFFICES ASSUME TypeOK, LetterInv PROVE CommitAtMostOnce
      OBVIOUS
    <2>1. \A l \in Letters : LetterOnce(l)
      BY DEF LetterInv
    <2>2. \A c \in Clients : CommitOnceIn(c)
      BY <2>1, ApartInClient DEF LetterOnce
    <2>3. \A c, d \in Clients : c # d => Held(c) \cap Held(d) = {}
      BY <2>1, HeldHas DEF LetterOnce
    <2> QED
      BY <2>2, <2>3 DEF CommitAtMostOnce, CommitOnceEach
  <1> QED
    BY <1>1, LetterInvariant, PTL

-----------------------------------------------------------------------------
(* The refinement: letters live as LetterLifecycle says. *)

\* What LetterStatus says of the letters, in a state where they are apart.
StatusCases ==
    \A l \in Letters : LetterOnce(l) =>
        /\ owner[l] = None => LetterStatus[l] = "untyped"
        /\ owner[l] # None /\ (\E c \in Clients : l \in doc[c]) =>
              LetterStatus[l] \in Clients /\ l \in doc[LetterStatus[l]]
        /\ owner[l] # None /\ (\A c \in Clients : l \notin doc[c]) =>
              LetterStatus[l] = IF Alive(l) THEN "pending" ELSE "dropped"

LEMMA StatusIsCases == StatusCases
  <1> SUFFICES ASSUME NEW l \in Letters, LetterOnce(l)
               PROVE  /\ owner[l] = None => LetterStatus[l] = "untyped"
                      /\ owner[l] # None /\ (\E c \in Clients : l \in doc[c]) =>
                            LetterStatus[l] \in Clients /\ l \in doc[LetterStatus[l]]
                      /\ owner[l] # None /\ (\A c \in Clients : l \notin doc[c]) =>
                            LetterStatus[l] = IF Alive(l) THEN "pending" ELSE "dropped"
    BY DEF StatusCases
  <1> DEFINE first == CHOOSE c \in Clients : l \in doc[c]
  <1>1. (\E c \in Clients : l \in doc[c]) => first \in Clients /\ l \in doc[first]
    OBVIOUS
  <1>2. LetterStatus[l] =
           CASE owner[l] = None                -> "untyped"
             [] \E c \in Clients : l \in doc[c] -> first
             [] (\A c \in Clients : l \notin doc[c]) /\ owner[l] # None /\ Pending(l)
                                               -> "pending"
             [] OTHER                          -> "dropped"
    BY DEF LetterStatus
  <1> HIDE DEF first
  <1>3. CASE owner[l] = None
    <2>1. \A c \in Clients : l \notin doc[c]
      BY <1>3 DEF LetterOnce, LetterApart, Holds
    <2> QED
      BY <1>2, <1>3, <2>1
  <1>4. CASE owner[l] # None /\ \E c \in Clients : l \in doc[c]
    BY <1>1, <1>2, <1>4
  <1>5. CASE owner[l] # None /\ \A c \in Clients : l \notin doc[c]
    <2>1. Alive(l) <=> Pending(l)
      BY <1>5 DEF Alive, Pending, Holds, Queued
    <2> QED
      BY <1>2, <1>5, <2>1
  <1> QED
    BY <1>3, <1>4, <1>5

\* A step that moves a letter forward moves its status along Moves.
LEMMA StatusMoves ==
    ASSUME NEW l \in Letters, LetterOnce(l), LetterOnce(l)', Forward(l)
    PROVE  /\ LetterStatus'[l] \in {"untyped", "pending", "dropped"} \cup Clients
           /\ \/ LetterStatus'[l] = LetterStatus[l]
              \/ <<LetterStatus[l], LetterStatus'[l]>> \in Lifecycle!Moves
  <1> DEFINE s == LetterStatus[l]
             t == LetterStatus'[l]
  <1>0. StatusCases /\ StatusCases'
    BY StatusIsCases, PTL
  <1>1. /\ owner[l] = None => s = "untyped"
        /\ owner[l] # None /\ (\E c \in Clients : l \in doc[c]) => s \in Clients /\ l \in doc[s]
        /\ owner[l] # None /\ (\A c \in Clients : l \notin doc[c]) =>
              s = IF Alive(l) THEN "pending" ELSE "dropped"
    BY <1>0 DEF StatusCases
  <1>2. /\ owner'[l] = None => t = "untyped"
        /\ owner'[l] # None /\ (\E c \in Clients : l \in doc'[c]) =>
              t \in Clients /\ l \in doc'[t]
        /\ owner'[l] # None /\ (\A c \in Clients : l \notin doc'[c]) =>
              t = IF Alive(l)' THEN "pending" ELSE "dropped"
    BY <1>0 DEF StatusCases
  <1>3. \A c, d \in Clients : l \in doc'[c] /\ l \in doc'[d] => c = d
    BY DEF LetterOnce, Has
  <1>4. \A c \in Clients : l \in doc'[c] => Alive(l)'
    BY DEF Alive, Holds
  <1> HIDE DEF s, t
  <1>5. t \in {"untyped", "pending", "dropped"} \cup Clients
    BY <1>2
  <1>6. t = s \/ <<s, t>> \in Lifecycle!Moves
    <2>1. CASE owner[l] = None
      BY <1>1, <1>2, <2>1 DEF Forward, Lifecycle!Moves
    <2>2. CASE owner[l] # None /\ \E c \in Clients : l \in doc[c]
      <3>1. s \in Clients /\ l \in doc[s] /\ owner'[l] # None
        BY <1>1, <2>2 DEF Forward
      <3>2. l \in doc'[s] /\ t \in Clients /\ l \in doc'[t]
        BY <1>2, <3>1 DEF Forward
      <3> QED
        BY <1>3, <3>1, <3>2
    <2>3. CASE owner[l] # None /\ (\A c \in Clients : l \notin doc[c]) /\ Alive(l)
      <3>1. s = "pending" /\ owner'[l] # None
        BY <1>1, <2>3 DEF Forward
      <3> QED
        BY <1>2, <3>1 DEF Lifecycle!Moves
    <2>4. CASE owner[l] # None /\ (\A c \in Clients : l \notin doc[c]) /\ ~Alive(l)
      <3>1. s = "dropped" /\ owner'[l] # None /\ ~Alive(l)'
        BY <1>1, <2>4 DEF Forward
      <3> QED
        BY <1>2, <1>4, <3>1
    <2> QED
      BY <2>1, <2>2, <2>3, <2>4
  <1> QED
    BY <1>5, <1>6 DEF s, t

\* A step that changes nothing changes no status.
LEMMA StatusFrame ==
    ASSUME UNCHANGED vars
    PROVE  UNCHANGED LetterStatus
  <1> USE DEF vars, serverVars, userVars, viewVars, flagVars, callVars
  <1>1. \A l : Pending(l)' <=> Pending(l)
    BY DEF Pending
  <1> QED
    BY <1>1 DEF LetterStatus

\* As long as the server lives the system implements the life of a letter: what is
\* delivered stays in its one document, what is dropped never comes back, whatever
\* the order of requests, responses and edit sessions.
THEOREM LifecycleImplemented ==
    ASSUME "crash" \notin Events
    PROVE  Spec => ImplementsLifecycle
  <1>1. Init => Lifecycle!Init
    <2> SUFFICES ASSUME Init PROVE Lifecycle!Init
      OBVIOUS
    <2>1. \A l \in Letters : LetterStatus[l] = "untyped"
      BY LetterInit, StatusIsCases DEF StatusCases, Init
    <2> QED
      BY <2>1 DEF Lifecycle!Init, LetterStatus
  <1>2. TypeOK /\ LockInv /\ LetterInv /\ Next => Lifecycle!Next \/ UNCHANGED LetterStatus
    <2> SUFFICES ASSUME TypeOK, LockInv, LetterInv, Next PROVE Lifecycle!Next
      OBVIOUS
    <2>0. \A c \in Clients : ~Break(c)
      BY DEF LetterInv, Break
    <2>1. \A l \in Letters : LetterOnce(l) /\ LetterOnce(l)' /\ Forward(l)
      BY <2>0, LetterStep DEF LetterInv, LetterOnce, Keeps
    <2>2. \A l \in Letters :
             /\ LetterStatus'[l] \in {"untyped", "pending", "dropped"} \cup Clients
             /\ \/ LetterStatus'[l] = LetterStatus[l]
                \/ <<LetterStatus[l], LetterStatus'[l]>> \in Lifecycle!Moves
      BY <2>1, StatusMoves
    <2>3. LetterStatus' = [l \in Letters |-> LetterStatus'[l]]
      BY DEF LetterStatus
    <2>4. LetterStatus' \in [Letters -> {"untyped", "pending", "dropped"} \cup Clients]
      BY <2>2, <2>3
    <2> QED
      BY <2>2, <2>4 DEF Lifecycle!Next
  <1>3. TypeOK /\ LockInv /\ LetterInv /\ [Next]_vars => [Lifecycle!Next]_LetterStatus
    BY <1>2, StatusFrame
  <1> QED
    BY <1>1, <1>3, LetterInvariant, PTL DEF Spec, ImplementsLifecycle, Lifecycle!Spec

=============================================================================
