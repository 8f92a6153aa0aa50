-------------------------- MODULE CandidateWindow --------------------------
(***************************************************************************)
(* The candidate window of winxime-server: one Win32 window that belongs   *)
(* to the UI thread (the main thread, which runs the message loop) and is  *)
(* driven by the IPC thread that currently holds the engine mutex.  Both   *)
(* threads share the models and the renderer behind three std mutexes; the *)
(* IPC thread measures and places the window itself and posts messages for *)
(* everything else.                                                        *)
(*                                                                         *)
(* A handler is the sequence of its lock operations and effects; the two   *)
(* threads interleave between any two of them.                             *)
(*                                                                         *)
(* Sources: winxime-server/src/ui.rs, ipc_server.rs (who calls what).      *)
(***************************************************************************)
EXTENDS Naturals, Sequences, FiniteSets

CONSTANTS
    Contexts,   \* candidate lists the engine can be in
    Roots,      \* root overlays (the key's radicals shown while Ctrl is down)
    Nothing,    \* an empty candidate list, no root overlay, an undrawn surface
    Commands,   \* which window-driving commands the clients send
    UiEvents,   \* which messages Windows adds: WM_PAINT, WM_DPICHANGED
    MaxQueue    \* bound on the messages posted and not handled

ASSUME NothingAssumption == Nothing \notin Contexts \cup Roots
ASSUME CommandsAssumption ==
    Commands \subseteq {"key", "hide", "page", "showRoot", "hideRoot"}
ASSUME UiEventsAssumption == UiEvents \subseteq {"paint", "dpi"}

VARIABLES
    engine,     \* the candidate list of the engine's composition, or Nothing
    ctrlDown,   \* a client has shown the root overlay and not hidden it
    todo,       \* what is left of the handler each thread runs
    lock,       \* the thread that holds each mutex, or "free"
    model,      \* CandidateWindow.model
    rootModel,  \* CandidateWindow.root_model
    seen,       \* each thread's clone of rootModel
    metrics,    \* each thread's RenderedMetrics: the content they were made for
    queue,      \* messages posted to the window
    moves,      \* asynchronous SetWindowPos requests, before any posted message
    visible,    \* ShowWindow's last effect
    size,       \* the content the window's geometry was computed for
    painted,    \* the swap chain: what it shows and what its size was made for
    wanted      \* what the last finished or running command asks to be shown

vars == <<engine, ctrlDown, todo, lock, model, rootModel, seen, metrics, queue,
          moves, visible, size, painted, wanted>>

Threads == {"ipc", "ui"}
Locks   == {"model", "root", "view"}
Content == Contexts \cup Roots \cup {Nothing}

Free(m) == lock[m] = "free"
IdleThread(t) == todo[t] = <<>>
Quiescent == \A t \in Threads : IdleThread(t) /\ queue = <<>> /\ moves = <<>>

Init ==
    /\ engine = Nothing /\ ctrlDown = FALSE
    /\ todo = [t \in Threads |-> <<>>]
    /\ lock = [m \in Locks |-> "free"]
    /\ model = Nothing /\ rootModel = Nothing
    /\ seen = [t \in Threads |-> Nothing]
    /\ metrics = [t \in Threads |-> Nothing]
    /\ queue = <<>> /\ moves = <<>>
    /\ visible = FALSE /\ size = Nothing /\ wanted = Nothing
    /\ painted = [shows |-> Nothing, fit |-> Nothing]

-----------------------------------------------------------------------------
(* Handlers, as sequences of <<operation, argument>>. *)

Locked(m, body) == <<<<"take", m>>>> \o body \o <<<<"drop", m>>>>

\* Mutant of ApplyLayout: view first.
ApplyLayoutViewFirst ==
    Locked("root", <<<<"clone", Nothing>>>>)
      \o Locked("view", Locked("model", <<<<"measure", Nothing>>>>))
      \o <<<<"place", Nothing>>>>

\* The overlay is cloned and its mutex released before the other two are taken,
\* and all are released before SetWindowPos.
ApplyLayout ==
    Locked("root", <<<<"clone", Nothing>>>>)
      \o Locked("model", Locked("view", <<<<"measure", Nothing>>>>))
      \o <<<<"place", Nothing>>>>

\* repaint_current takes the view, and the model inside it.
RepaintCurrent ==
    Locked("root", <<<<"clone", Nothing>>>>)
      \o Locked("view", <<<<"repaint", Nothing>>>>)

Show == Locked("view", <<>>) \o ApplyLayout \o <<<<"post", <<"show", Nothing>>>>>>
Hide == Locked("view", <<<<"post", <<"hide", Nothing>>>>>>)
Update(ctx) == Locked("view", <<<<"post", <<"update", ctx>>>>>>)
ShowRoot(r) ==
    Locked("view", Locked("root", <<<<"setRoot", r>>>>) \o <<<<"post", <<"showRoot", r>>>>>>)
HideRoot ==
    Locked("view", Locked("root", <<<<"setRoot", Nothing>>>>)
                     \o <<<<"post", <<"hideRoot", Nothing>>>>>>)

\* wnd_proc's handlers.  A critical section that only looks whether the view is
\* there is merged with the one that follows it.
OnUpdate(ctx) ==
    Locked("model", <<<<"setModel", ctx>>>>)
      \o ApplyLayout
      \o Locked("view", <<<<"draw", ctx>>>>)
OnShowRoot(r) ==
    Locked("root", <<<<"setRoot", r>>>>)
      \o ApplyLayout
      \o Locked("view", <<<<"draw", r>>>>)
      \o <<<<"visible", TRUE>>>>
\* Mutant of OnHideRoot: the IPC thread has cleared the overlay already.
OnHideRootKept == ApplyLayout \o RepaintCurrent

OnHideRoot ==
    Locked("root", <<<<"setRoot", Nothing>>>>) \o ApplyLayout \o RepaintCurrent
OnPaint == Locked("model", <<<<"paint", Nothing>>>>)
OnDpiChanged == ApplyLayout \o RepaintCurrent

Handler(msg) ==
    CASE msg[1] = "show"     -> <<<<"visible", TRUE>>>>
      [] msg[1] = "hide"     -> <<<<"visible", FALSE>>>>
      [] msg[1] = "update"   -> OnUpdate(msg[2])
      [] msg[1] = "showRoot" -> OnShowRoot(msg[2])
      [] msg[1] = "hideRoot" -> OnHideRoot

-----------------------------------------------------------------------------
(* The IPC thread: commands, one at a time under the engine mutex. *)

Command(name, script) ==
    /\ name \in Commands
    /\ IdleThread("ipc") /\ Len(queue) < MaxQueue
    /\ todo' = [todo EXCEPT !["ipc"] = script]
    /\ UNCHANGED <<lock, model, rootModel, seen, metrics, queue, moves, visible,
                   size, painted>>

\* A key that leaves a composition with candidates.
Key(ctx) ==
    /\ Command("key", Show \o Update(ctx))
    /\ engine' = ctx /\ wanted' = ctx
    /\ UNCHANGED ctrlDown

\* A commit, a cleared composition, FocusOut, a toggle.
Clear ==
    /\ Command("hide", Hide)
    /\ engine' = Nothing /\ wanted' = Nothing
    /\ UNCHANGED ctrlDown

\* ChangePage: another list of the same composition.
ChangePage(ctx) ==
    /\ engine # Nothing
    /\ Command("page", Show \o Update(ctx))
    /\ engine' = ctx /\ wanted' = ctx
    /\ UNCHANGED ctrlDown

CtrlDown(r) ==
    /\ engine # Nothing /\ ~ctrlDown
    /\ Command("showRoot", ShowRoot(r))
    /\ ctrlDown' = TRUE /\ wanted' = r
    /\ UNCHANGED engine

\* Mutant of CtrlUp: the candidates are sent again without asking for any.
CtrlUpAlways ==
    /\ ctrlDown
    /\ Command("hideRoot", HideRoot \o Show \o Update(engine))
    /\ ctrlDown' = FALSE /\ wanted' = engine
    /\ UNCHANGED engine

\* The HideRoot command: hide_root, then the engine's candidates again.
CtrlUp ==
    /\ ctrlDown
    /\ Command("hideRoot", HideRoot \o
                 IF engine = Nothing THEN <<>> ELSE Show \o Update(engine))
    /\ ctrlDown' = FALSE
    /\ wanted' = IF engine = Nothing THEN wanted ELSE engine
    /\ UNCHANGED engine

-----------------------------------------------------------------------------
(* The UI thread: the message loop. *)

Dispatch(script) ==
    /\ IdleThread("ui")
    /\ todo' = [todo EXCEPT !["ui"] = script]
    /\ UNCHANGED <<engine, ctrlDown, lock, model, rootModel, seen, metrics,
                   visible, painted, wanted>>

\* Posted messages in order, once no asynchronous move is waiting.
GetMessage ==
    /\ moves = <<>> /\ queue # <<>>
    /\ Dispatch(Handler(Head(queue)))
    /\ queue' = Tail(queue)
    /\ UNCHANGED <<moves, size>>

\* The SetWindowPos the IPC thread asked for.
Move ==
    /\ moves # <<>>
    /\ Dispatch(<<>>)
    /\ size' = Head(moves) /\ moves' = Tail(moves)
    /\ UNCHANGED queue

\* WM_PAINT is made up by Windows when nothing else waits.
Paint ==
    /\ "paint" \in UiEvents
    /\ visible /\ queue = <<>> /\ moves = <<>>
    /\ Dispatch(OnPaint)
    /\ UNCHANGED <<queue, moves, size>>

\* WM_DPICHANGED is sent, ahead of posted messages.
DpiChanged ==
    /\ "dpi" \in UiEvents
    /\ Dispatch(OnDpiChanged)
    /\ UNCHANGED <<queue, moves, size>>

-----------------------------------------------------------------------------
(* One operation of a thread's handler. *)

Op(t, name) == todo[t] # <<>> /\ Head(todo[t])[1] = name
Arg(t) == Head(todo[t])[2]
Rest(t, more) == todo' = [todo EXCEPT ![t] = more \o Tail(@)]

Take(t) ==
    /\ Op(t, "take") /\ Free(Arg(t))
    /\ lock' = [lock EXCEPT ![Arg(t)] = t]
    /\ Rest(t, <<>>)
    /\ UNCHANGED <<engine, ctrlDown, model, rootModel, seen, metrics, queue, moves,
                   visible, size, painted, wanted>>

Drop(t) ==
    /\ Op(t, "drop")
    /\ lock' = [lock EXCEPT ![Arg(t)] = "free"]
    /\ Rest(t, <<>>)
    /\ UNCHANGED <<engine, ctrlDown, model, rootModel, seen, metrics, queue, moves,
                   visible, size, painted, wanted>>

\* Reads and writes of the shared models.
SetModel(t) == Op(t, "setModel") /\ model' = Arg(t) /\ UNCHANGED <<rootModel, seen, metrics>>
SetRoot(t) == Op(t, "setRoot") /\ rootModel' = Arg(t) /\ UNCHANGED <<model, seen, metrics>>
Clone(t) ==
    /\ Op(t, "clone") /\ seen' = [seen EXCEPT ![t] = rootModel]
    /\ UNCHANGED <<model, rootModel, metrics>>
Measure(t) ==
    /\ Op(t, "measure")
    /\ metrics' = [metrics EXCEPT ![t] = IF seen[t] # Nothing THEN seen[t] ELSE model]
    /\ UNCHANGED <<model, rootModel, seen>>

Data(t) ==
    /\ SetModel(t) \/ SetRoot(t) \/ Clone(t) \/ Measure(t)
    /\ Rest(t, <<>>)
    /\ UNCHANGED <<engine, ctrlDown, lock, queue, moves, visible, size, painted, wanted>>

\* SetWindowPos(SWP_ASYNCWINDOWPOS): at once in the window's own thread.
Place(t) == /\ Op(t, "place")
            /\ IF t = "ui" THEN size' = metrics[t] /\ UNCHANGED moves
                           ELSE moves' = Append(moves, metrics[t]) /\ UNCHANGED size
            /\ UNCHANGED <<queue, visible, painted>>
Post(t) == Op(t, "post") /\ queue' = Append(queue, Arg(t))
             /\ UNCHANGED <<moves, visible, size, painted>>
ShowOrHide(t) == Op(t, "visible") /\ visible' = Arg(t)
                   /\ UNCHANGED <<queue, moves, size, painted>>
Draw(t) == /\ Op(t, "draw")
           /\ painted' = [shows |-> Arg(t), fit |-> metrics[t]]
           /\ UNCHANGED <<queue, moves, visible, size>>
DrawSeen(t) == /\ Op(t, "repaint") /\ seen[t] # Nothing
               /\ painted' = [shows |-> seen[t], fit |-> metrics[t]]
               /\ UNCHANGED <<queue, moves, visible, size>>
DrawModel(t) == /\ Op(t, "drawModel")
                /\ painted' = IF model = Nothing THEN painted
                                                 ELSE [shows |-> model, fit |-> metrics[t]]
                /\ UNCHANGED <<queue, moves, visible, size>>
\* on_paint measures for itself.
DrawOwn(t) == /\ Op(t, "drawOwn")
              /\ painted' = [shows |-> model, fit |-> model]
              /\ UNCHANGED <<queue, moves, visible, size>>

Surface(t) ==
    /\ \/ Place(t) \/ Post(t) \/ ShowOrHide(t) \/ Draw(t) \/ DrawSeen(t) \/ DrawModel(t)
       \/ DrawOwn(t)
    /\ Rest(t, <<>>)
    /\ UNCHANGED <<engine, ctrlDown, lock, model, rootModel, seen, metrics, wanted>>

\* Where a handler branches on what it read: without an overlay repaint_current
\* goes for the model, with candidates WM_PAINT goes for the view.
Branch(t) ==
    /\ \/ /\ Op(t, "repaint") /\ seen[t] = Nothing
          /\ Rest(t, Locked("model", <<<<"drawModel", Nothing>>>>))
       \/ /\ Op(t, "paint")
          /\ Rest(t, IF model = Nothing THEN <<>>
                     ELSE Locked("view", <<<<"drawOwn", Nothing>>>>))
    /\ UNCHANGED <<engine, ctrlDown, lock, model, rootModel, seen, metrics, queue,
                   moves, visible, size, painted, wanted>>

Step(t) == Take(t) \/ Drop(t) \/ Data(t) \/ Surface(t) \/ Branch(t)

IpcCommand == \/ \E ctx \in Contexts : Key(ctx) \/ ChangePage(ctx)
              \/ Clear \/ CtrlUp
              \/ \E r \in Roots : CtrlDown(r)

MessageLoop == GetMessage \/ Move

Next == IpcCommand \/ MessageLoop \/ Paint \/ DpiChanged \/ \E t \in Threads : Step(t)

Spec == Init /\ [][Next]_vars

\* A thread runs unless it waits for a mutex, the loop takes messages that wait,
\* and std mutexes are fair enough that a thread gets one it can have again and
\* again.  Commands and the messages Windows makes up are not owed.
FairSpec == /\ Spec
            /\ \A t \in Threads : WF_vars(Step(t)) /\ SF_vars(Take(t))
            /\ WF_vars(MessageLoop)

-----------------------------------------------------------------------------
(* Properties *)

Messages == ({"show", "hide", "hideRoot"} \X {Nothing}) \cup ({"update"} \X Contexts)
              \cup ({"showRoot"} \X Roots)

\* Every variable holds a value of its type.
TypeOK ==
    /\ engine \in Contexts \cup {Nothing} /\ ctrlDown \in BOOLEAN
    /\ lock \in [Locks -> Threads \cup {"free"}]
    /\ model \in Contexts \cup {Nothing} /\ rootModel \in Roots \cup {Nothing}
    /\ seen \in [Threads -> Roots \cup {Nothing}] /\ metrics \in [Threads -> Content]
    /\ queue \in Seq(Messages) /\ moves \in Seq(Content)
    /\ visible \in BOOLEAN /\ size \in Content /\ wanted \in Content
    /\ painted \in [shows : Content, fit : Content]

WaitsFor(t, m) == Op(t, "take") /\ Arg(t) = m /\ lock[m] # t

\* The IPC thread, which holds the engine mutex, and the UI thread never wait for
\* each other's mutex: "the thread that holds the lock is not to be stuck".
NoLockCycle ==
    ~ \E m, n \in Locks : /\ WaitsFor("ipc", m) /\ lock[m] = "ui"
                          /\ WaitsFor("ui", n) /\ lock[n] = "ipc"

\* Once everything is handled the screen shows what the last command asked for:
\* no stale list, no list in a window sized for another, no window left behind,
\* although the IPC thread sizes the window from the list before the new one; and
\* an overlay that was taken away leaves nothing of itself in the window.
LastCommandShown ==
    Quiescent /\ ~ctrlDown =>
        IF wanted = Nothing THEN ~visible
        ELSE visible /\ painted = [shows |-> wanted, fit |-> wanted] /\ size = wanted

\* A command always comes to its end, and with it the engine mutex is free again.
CommandsFinish == todo["ipc"] # <<>> ~> todo["ipc"] = <<>>

=============================================================================
