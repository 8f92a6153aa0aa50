----------------------- MODULE CandidateWindow_proofs -----------------------
(***************************************************************************)
(* Proofs about the candidate window, for any candidate lists, overlays    *)
(* and queue bound: the types, scripts of the handlers included; that the  *)
(* two threads cannot block each other as long as there is no root overlay *)
(* and no change of the DPI (with them they can: the run win_root shows    *)
(* it); and that the screen comes to show what the last command asked for, *)
(* overlays and changes of the DPI included.                               *)
(***************************************************************************)
EXTENDS CandidateWindow, TLAPS

(* The operations of handlers with the arguments they can have. *)
Ops == ({"take", "drop"} \X Locks)
         \cup ({"clone", "measure", "place", "repaint", "drawModel", "drawOwn", "paint"} \X {Nothing})
         \cup ({"post"} \X Messages) \cup ({"setRoot"} \X (Roots \cup {Nothing}))
         \cup ({"setModel"} \X Contexts) \cup ({"draw"} \X (Contexts \cup Roots))
         \cup ({"visible"} \X BOOLEAN)

TypeInv == TypeOK /\ todo \in [Threads -> Seq(Ops)]

LEMMA OpTypes ==
    /\ \A m \in Locks : <<"take", m>> \in Ops /\ <<"drop", m>> \in Ops
    /\ \A m \in Messages : <<"post", m>> \in Ops
    /\ \A c \in Contexts : <<"setModel", c>> \in Ops /\ <<"draw", c>> \in Ops
    /\ \A r \in Roots : <<"setRoot", r>> \in Ops /\ <<"draw", r>> \in Ops
    /\ <<"setRoot", Nothing>> \in Ops
    /\ \A b \in BOOLEAN : <<"visible", b>> \in Ops
    /\ <<"clone", Nothing>> \in Ops /\ <<"measure", Nothing>> \in Ops /\ <<"place", Nothing>> \in Ops
    /\ <<"repaint", Nothing>> \in Ops /\ <<"drawModel", Nothing>> \in Ops
    /\ <<"drawOwn", Nothing>> \in Ops /\ <<"paint", Nothing>> \in Ops
  BY DEF Ops

LEMMA MessageTypes ==
    /\ <<"show", Nothing>> \in Messages /\ <<"hide", Nothing>> \in Messages
    /\ <<"hideRoot", Nothing>> \in Messages
    /\ \A c \in Contexts : <<"update", c>> \in Messages
    /\ \A r \in Roots : <<"showRoot", r>> \in Messages
  BY DEF Messages

LEMMA ArgTypes ==
    ASSUME NEW x \in Ops
    PROVE  /\ x[1] \in {"take", "drop"} => x[2] \in Locks
           /\ x[1] = "post" => x[2] \in Messages
           /\ x[1] = "setRoot" => x[2] \in Roots \cup {Nothing}
           /\ x[1] = "setModel" => x[2] \in Contexts
           /\ x[1] = "draw" => x[2] \in Contexts \cup Roots
           /\ x[1] = "visible" => x[2] \in BOOLEAN
  BY DEF Ops

(* Scripts are sequences of operations. *)
LEMMA OneOp == ASSUME NEW x \in Ops PROVE <<x>> \in Seq(Ops)
  OBVIOUS

LEMMA Joined == ASSUME NEW s \in Seq(Ops), NEW r \in Seq(Ops) PROVE s \o r \in Seq(Ops)
  OBVIOUS

LEMMA LockedType ==
    ASSUME NEW m \in Locks, NEW body \in Seq(Ops) PROVE Locked(m, body) \in Seq(Ops)
  BY OpTypes, OneOp, Joined DEF Locked

LEMMA LockNames == "model" \in Locks /\ "root" \in Locks /\ "view" \in Locks
  BY DEF Locks

LEMMA EmptyScript == <<>> \in Seq(Ops)
  OBVIOUS

LEMMA LayoutType == ApplyLayout \in Seq(Ops) /\ RepaintCurrent \in Seq(Ops)
  <1>1. Locked("root", <<<<"clone", Nothing>>>>) \in Seq(Ops)
    BY OpTypes, OneOp, LockedType, LockNames
  <1>2. Locked("model", Locked("view", <<<<"measure", Nothing>>>>)) \in Seq(Ops)
    <2>1. Locked("view", <<<<"measure", Nothing>>>>) \in Seq(Ops)
      BY OpTypes, OneOp, LockedType, LockNames
    <2> QED BY <2>1, LockedType, LockNames
  <1>3. <<<<"place", Nothing>>>> \in Seq(Ops)
    BY OpTypes, OneOp
  <1>4. Locked("view", <<<<"repaint", Nothing>>>>) \in Seq(Ops)
    BY OpTypes, OneOp, LockedType, LockNames
  <1>5. ApplyLayout \in Seq(Ops)
    BY <1>1, <1>2, <1>3, Joined DEF ApplyLayout
  <1>6. RepaintCurrent \in Seq(Ops)
    BY <1>1, <1>4, Joined DEF RepaintCurrent
  <1> QED BY <1>5, <1>6

LEMMA CommandTypes ==
    /\ Show \in Seq(Ops) /\ Hide \in Seq(Ops) /\ HideRoot \in Seq(Ops)
    /\ \A c \in Contexts : Update(c) \in Seq(Ops)
    /\ \A r \in Roots : ShowRoot(r) \in Seq(Ops)
  <1>1. Locked("view", <<>>) \in Seq(Ops)
    BY EmptyScript, LockedType, LockNames
  <1>2. \A m \in Messages : <<<<"post", m>>>> \in Seq(Ops)
    BY OpTypes, OneOp
  <1>3. Show \in Seq(Ops)
    BY <1>1, <1>2, LayoutType, Joined, MessageTypes DEF Show
  <1>4. Hide \in Seq(Ops) /\ \A c \in Contexts : Update(c) \in Seq(Ops)
    BY <1>2, LockedType, LockNames, MessageTypes DEF Hide, Update
  <1>5. \A r \in Roots \cup {Nothing} : Locked("root", <<<<"setRoot", r>>>>) \in Seq(Ops)
    BY OpTypes, OneOp, LockedType, LockNames
  <1>6. HideRoot \in Seq(Ops)
    BY <1>2, <1>5, Joined, LockedType, LockNames, MessageTypes DEF HideRoot
  <1>7. \A r \in Roots : ShowRoot(r) \in Seq(Ops)
    BY <1>2, <1>5, Joined, LockedType, LockNames, MessageTypes DEF ShowRoot
  <1> QED BY <1>3, <1>4, <1>6, <1>7

LEMMA HandlerTypes ==
    /\ OnPaint \in Seq(Ops) /\ OnDpiChanged \in Seq(Ops)
    /\ \A msg \in Messages : Handler(msg) \in Seq(Ops)
  <1>1. OnPaint \in Seq(Ops) /\ OnDpiChanged \in Seq(Ops)
    BY OpTypes, OneOp, LockedType, LockNames, LayoutType, Joined DEF OnPaint, OnDpiChanged
  <1>2. <<<<"visible", TRUE>>>> \in Seq(Ops) /\ <<<<"visible", FALSE>>>> \in Seq(Ops)
    BY OpTypes, OneOp
  <1>3. ASSUME NEW c \in Contexts PROVE OnUpdate(c) \in Seq(Ops)
    <2>1. Locked("model", <<<<"setModel", c>>>>) \in Seq(Ops)
      BY OpTypes, OneOp, LockedType, LockNames
    <2>2. Locked("view", <<<<"draw", c>>>>) \in Seq(Ops)
      BY OpTypes, OneOp, LockedType, LockNames
    <2> QED BY <2>1, <2>2, LayoutType, Joined DEF OnUpdate
  <1>4. ASSUME NEW r \in Roots PROVE OnShowRoot(r) \in Seq(Ops)
    <2>1. Locked("root", <<<<"setRoot", r>>>>) \in Seq(Ops)
      BY OpTypes, OneOp, LockedType, LockNames
    <2>2. Locked("view", <<<<"draw", r>>>>) \in Seq(Ops)
      BY OpTypes, OneOp, LockedType, LockNames
    <2> QED BY <1>2, <2>1, <2>2, LayoutType, Joined DEF OnShowRoot
  <1>5. OnHideRoot \in Seq(Ops)
    BY OpTypes, OneOp, LockedType, LockNames, LayoutType, Joined DEF OnHideRoot
  <1>6. ASSUME NEW msg \in Messages PROVE Handler(msg) \in Seq(Ops)
    <2>1. CASE msg = <<"show", Nothing>> \/ msg = <<"hide", Nothing>>
      BY <1>2, <2>1 DEF Handler
    <2>2. CASE msg = <<"hideRoot", Nothing>>
      BY <1>5, <2>2 DEF Handler
    <2>3. ASSUME NEW c \in Contexts, msg = <<"update", c>> PROVE Handler(msg) \in Seq(Ops)
      BY <1>3, <2>3 DEF Handler
    <2>4. ASSUME NEW r \in Roots, msg = <<"showRoot", r>> PROVE Handler(msg) \in Seq(Ops)
      BY <1>4, <2>4 DEF Handler
    <2>5. /\ msg = <<msg[1], msg[2]>>
          /\ \/ msg[1] \in {"show", "hide", "hideRoot"} /\ msg[2] = Nothing
             \/ msg[1] = "update" /\ msg[2] \in Contexts
             \/ msg[1] = "showRoot" /\ msg[2] \in Roots
      BY DEF Messages
    <2> QED BY <2>1, <2>2, <2>3, <2>4, <2>5
  <1> QED BY <1>1, <1>6

(* The first operation of a thread that has one, and what replaces it. *)
LEMMA FirstOp ==
    ASSUME TypeInv, NEW t \in Threads, todo[t] # <<>>
    PROVE  Head(todo[t]) \in Ops /\ Tail(todo[t]) \in Seq(Ops)
  <1>1. todo[t] \in Seq(Ops)
    BY DEF TypeInv
  <1> QED BY <1>1

LEMMA RestTypes ==
    ASSUME TypeInv, NEW t \in Threads, todo[t] # <<>>, NEW more \in Seq(Ops), Rest(t, more)
    PROVE  todo' \in [Threads -> Seq(Ops)]
  <1>1. more \o Tail(todo[t]) \in Seq(Ops)
    BY FirstOp, Joined
  <1> QED BY <1>1 DEF Rest, TypeInv

LEMMA RestTypesNone ==
    ASSUME TypeInv, NEW t \in Threads, todo[t] # <<>>, Rest(t, <<>>)
    PROVE  todo' \in [Threads -> Seq(Ops)]
  BY RestTypes, EmptyScript

LEMMA InitTypes == ASSUME Init PROVE TypeInv
  <1>1. /\ engine \in Contexts \cup {Nothing} /\ ctrlDown \in BOOLEAN
        /\ model \in Contexts \cup {Nothing} /\ rootModel \in Roots \cup {Nothing}
        /\ visible \in BOOLEAN /\ size \in Content /\ wanted \in Content
    BY DEF Init, Content
  <1>2. queue \in Seq(Messages) /\ moves \in Seq(Content)
    BY DEF Init
  <1>3. painted \in [shows : Content, fit : Content]
    BY DEF Init, Content
  <1>4. /\ lock \in [Locks -> Threads \cup {"free"}]
        /\ seen \in [Threads -> Roots \cup {Nothing}] /\ metrics \in [Threads -> Content]
    BY DEF Init, Content
  <1>5. todo \in [Threads -> Seq(Ops)]
    BY EmptyScript DEF Init
  <1> QED BY <1>1, <1>2, <1>3, <1>4, <1>5 DEF TypeInv, TypeOK

(* Commands and messages. *)
LEMMA CommandKeepsTypes ==
    ASSUME TypeInv, NEW name, NEW script \in Seq(Ops), Command(name, script),
           engine' \in Contexts \cup {Nothing}, ctrlDown' \in BOOLEAN, wanted' \in Content
    PROVE  TypeInv'
  BY DEF TypeInv, TypeOK, Command

LEMMA IpcKeepsTypes == ASSUME TypeInv, IpcCommand PROVE TypeInv'
  <1>1. engine \in Contexts \cup {Nothing} /\ ctrlDown \in BOOLEAN /\ wanted \in Content
    BY DEF TypeInv, TypeOK
  <1>2. ASSUME NEW ctx \in Contexts, Key(ctx) \/ ChangePage(ctx) PROVE TypeInv'
    <2>1. Show \o Update(ctx) \in Seq(Ops)
      BY CommandTypes, Joined
    <2>2. engine' = ctx /\ wanted' = ctx /\ ctrlDown' = ctrlDown
      BY <1>2 DEF Key, ChangePage
    <2>3. PICK name : Command(name, Show \o Update(ctx))
      BY <1>2 DEF Key, ChangePage
    <2> QED BY <1>1, <2>1, <2>2, <2>3, CommandKeepsTypes DEF Content
  <1>3. ASSUME Clear PROVE TypeInv'
    <2>1. Command("hide", Hide) /\ engine' = Nothing /\ wanted' = Nothing /\ ctrlDown' = ctrlDown
      BY <1>3 DEF Clear
    <2> QED BY <1>1, <2>1, CommandTypes, CommandKeepsTypes DEF Content
  <1>4. ASSUME CtrlUp PROVE TypeInv'
    <2> DEFINE script == HideRoot \o (IF engine = Nothing THEN <<>> ELSE Show \o Update(engine))
    <2>1. script \in Seq(Ops)
      <3>1. CASE engine = Nothing
        BY <3>1, CommandTypes, EmptyScript, Joined
      <3>2. CASE engine \in Contexts /\ engine # Nothing
        <4>1. Show \o Update(engine) \in Seq(Ops)
          BY <3>2, CommandTypes, Joined
        <4> QED BY <3>2, <4>1, CommandTypes, Joined
      <3> QED BY <1>1, <3>1, <3>2
    <2>2. Command("hideRoot", script) /\ engine' = engine /\ ctrlDown' = FALSE
      BY <1>4 DEF CtrlUp
    <2>3. wanted' \in Content
      BY <1>1, <1>4 DEF CtrlUp, Content
    <2> QED BY <1>1, <2>1, <2>2, <2>3, CommandKeepsTypes
  <1>5. ASSUME NEW r \in Roots, CtrlDown(r) PROVE TypeInv'
    <2>1. /\ Command("showRoot", ShowRoot(r))
          /\ engine' = engine /\ ctrlDown' = TRUE /\ wanted' = r
      BY <1>5 DEF CtrlDown
    <2> QED BY <1>1, <2>1, CommandTypes, CommandKeepsTypes DEF Content
  <1> QED BY <1>2, <1>3, <1>4, <1>5 DEF IpcCommand

LEMMA DispatchKeepsTypes ==
    ASSUME TypeInv, NEW script \in Seq(Ops), Dispatch(script),
           queue' \in Seq(Messages), moves' \in Seq(Content), size' \in Content
    PROVE  TypeInv'
  BY DEF TypeInv, TypeOK, Dispatch

LEMMA LoopKeepsTypes ==
    ASSUME TypeInv, GetMessage \/ Move \/ Paint \/ DpiChanged PROVE TypeInv'
  <1>1. queue \in Seq(Messages) /\ moves \in Seq(Content) /\ size \in Content
    BY DEF TypeInv, TypeOK
  <1>2. ASSUME GetMessage PROVE TypeInv'
    <2>1. Head(queue) \in Messages /\ Tail(queue) \in Seq(Messages)
      BY <1>1, <1>2 DEF GetMessage
    <2>2. Handler(Head(queue)) \in Seq(Ops)
      BY <2>1, HandlerTypes
    <2>3. Dispatch(Handler(Head(queue))) /\ queue' = Tail(queue) /\ moves' = moves /\ size' = size
      BY <1>2 DEF GetMessage
    <2> QED BY <1>1, <2>1, <2>2, <2>3, DispatchKeepsTypes
  <1>3. ASSUME Move PROVE TypeInv'
    <2>1. Head(moves) \in Content /\ Tail(moves) \in Seq(Content)
      BY <1>1, <1>3 DEF Move
    <2>2. Dispatch(<<>>) /\ queue' = queue /\ size' = Head(moves) /\ moves' = Tail(moves)
      BY <1>3 DEF Move
    <2> QED BY <1>1, <2>1, <2>2, EmptyScript, DispatchKeepsTypes
  <1>4. ASSUME Paint \/ DpiChanged PROVE TypeInv'
    <2>1. PICK script \in {OnPaint, OnDpiChanged} : Dispatch(script)
      BY <1>4 DEF Paint, DpiChanged
    <2>2. queue' = queue /\ moves' = moves /\ size' = size
      BY <1>4 DEF Paint, DpiChanged
    <2>3. script \in Seq(Ops)
      BY HandlerTypes
    <2> QED BY <1>1, <2>1, <2>2, <2>3, DispatchKeepsTypes
  <1> QED BY <1>2, <1>3, <1>4

(* The operations. *)
LEMMA StepKeepsTypes == ASSUME TypeInv, NEW t \in Threads, Step(t) PROVE TypeInv'
  <1>1. ASSUME NEW name, Op(t, name)
        PROVE  todo[t] # <<>> /\ Head(todo[t]) \in Ops /\ Head(todo[t])[1] = name
    BY <1>1, FirstOp DEF Op
  <1>2. ASSUME Take(t) \/ Drop(t) PROVE TypeInv'
    <2>1. todo[t] # <<>> /\ Arg(t) \in Locks
      BY <1>1, <1>2, ArgTypes DEF Take, Drop, Arg
    <2>2. todo' \in [Threads -> Seq(Ops)]
      BY <1>2, <2>1, RestTypesNone DEF Take, Drop
    <2>3. lock' \in [Locks -> Threads \cup {"free"}]
      BY <1>2, <2>1 DEF Take, Drop, TypeInv, TypeOK
    <2> QED BY <1>2, <2>2, <2>3 DEF Take, Drop, TypeInv, TypeOK
  <1>3. ASSUME Data(t) PROVE TypeInv'
    <2>1. /\ model \in Contexts \cup {Nothing} /\ rootModel \in Roots \cup {Nothing}
          /\ seen \in [Threads -> Roots \cup {Nothing}] /\ metrics \in [Threads -> Content]
      BY DEF TypeInv, TypeOK
    <2>2. /\ model' \in Contexts \cup {Nothing} /\ rootModel' \in Roots \cup {Nothing}
          /\ seen' \in [Threads -> Roots \cup {Nothing}] /\ metrics' \in [Threads -> Content]
          /\ todo[t] # <<>>
      <3>1. CASE SetModel(t)
        BY <1>1, <2>1, <3>1, ArgTypes DEF SetModel, Arg
      <3>2. CASE SetRoot(t)
        BY <1>1, <2>1, <3>2, ArgTypes DEF SetRoot, Arg
      <3>3. CASE Clone(t)
        BY <1>1, <2>1, <3>3 DEF Clone
      <3>4. CASE Measure(t)
        BY <1>1, <2>1, <3>4 DEF Measure, Content
      <3> QED BY <1>3, <3>1, <3>2, <3>3, <3>4 DEF Data
    <2>3. todo' \in [Threads -> Seq(Ops)]
      BY <1>3, <2>2, RestTypesNone DEF Data
    <2> QED BY <1>3, <2>2, <2>3 DEF Data, TypeInv, TypeOK
  <1>4. ASSUME Surface(t) PROVE TypeInv'
    <2>1. /\ model \in Contexts \cup {Nothing} /\ seen \in [Threads -> Roots \cup {Nothing}]
          /\ metrics \in [Threads -> Content] /\ queue \in Seq(Messages)
          /\ moves \in Seq(Content) /\ visible \in BOOLEAN /\ size \in Content
          /\ painted \in [shows : Content, fit : Content]
      BY DEF TypeInv, TypeOK
    <2>2. metrics[t] \in Content /\ seen[t] \in Content /\ model \in Content
      BY <2>1 DEF Content
    <2>3. /\ queue' \in Seq(Messages) /\ moves' \in Seq(Content) /\ visible' \in BOOLEAN
          /\ size' \in Content /\ painted' \in [shows : Content, fit : Content]
          /\ todo[t] # <<>>
      <3>1. CASE Place(t)
        BY <1>1, <2>1, <2>2, <3>1 DEF Place
      <3>2. CASE Post(t)
        <4>1. Arg(t) \in Messages /\ todo[t] # <<>>
          BY <1>1, <3>2, ArgTypes DEF Post, Arg
        <4> QED BY <2>1, <3>2, <4>1 DEF Post
      <3>3. CASE ShowOrHide(t)
        <4>1. Arg(t) \in BOOLEAN /\ todo[t] # <<>>
          BY <1>1, <3>3, ArgTypes DEF ShowOrHide, Arg
        <4> QED BY <2>1, <3>3, <4>1 DEF ShowOrHide
      <3>4. CASE Draw(t)
        <4>1. Arg(t) \in Content /\ todo[t] # <<>>
          BY <1>1, <3>4, ArgTypes DEF Draw, Arg, Content
        <4> QED BY <2>1, <2>2, <3>4, <4>1 DEF Draw
      <3>5. CASE DrawSeen(t)
        BY <1>1, <2>1, <2>2, <3>5 DEF DrawSeen
      <3>6. CASE DrawModel(t)
        BY <1>1, <2>1, <2>2, <3>6 DEF DrawModel
      <3>7. CASE DrawOwn(t)
        BY <1>1, <2>1, <2>2, <3>7 DEF DrawOwn
      <3> QED BY <1>4, <3>1, <3>2, <3>3, <3>4, <3>5, <3>6, <3>7 DEF Surface
    <2>4. todo' \in [Threads -> Seq(Ops)]
      BY <1>4, <2>3, RestTypesNone DEF Surface
    <2> QED BY <1>4, <2>3, <2>4 DEF Surface, TypeInv, TypeOK
  <1>5. ASSUME Branch(t) PROVE TypeInv'
    <2>1. todo[t] # <<>>
      BY <1>1, <1>5 DEF Branch
    <2>2. /\ Locked("model", <<<<"drawModel", Nothing>>>>) \in Seq(Ops)
          /\ Locked("view", <<<<"drawOwn", Nothing>>>>) \in Seq(Ops)
      BY OpTypes, OneOp, LockedType, LockNames
    <2>3. PICK more \in Seq(Ops) : Rest(t, more)
      BY <1>5, <2>2, EmptyScript DEF Branch
    <2>4. todo' \in [Threads -> Seq(Ops)]
      BY <2>1, <2>3, RestTypes
    <2> QED BY <1>5, <2>4 DEF Branch, TypeInv, TypeOK
  <1> QED BY <1>2, <1>3, <1>4, <1>5 DEF Step

LEMMA NextKeepsTypes == ASSUME TypeInv, [Next]_vars PROVE TypeInv'
  <1>1. CASE UNCHANGED vars
    BY <1>1 DEF vars, TypeInv, TypeOK
  <1>2. CASE IpcCommand
    BY <1>2, IpcKeepsTypes
  <1>3. CASE MessageLoop \/ Paint \/ DpiChanged
    BY <1>3, LoopKeepsTypes DEF MessageLoop
  <1>4. CASE \E t \in Threads : Step(t)
    BY <1>4, StepKeepsTypes
  <1> QED BY <1>1, <1>2, <1>3, <1>4 DEF Next

LEMMA TypeInvAlways == Spec => []TypeInv
  <1>1. Init => TypeInv
    BY InitTypes
  <1>2. TypeInv /\ [Next]_vars => TypeInv'
    BY NextKeepsTypes
  <1> QED BY <1>1, <1>2, PTL DEF Spec

(* Whatever the threads interleave, every variable of the window keeps its  *)
(* type: handlers are made of known operations, what is posted is a message *)
(* wnd_proc knows, and what is measured, shown or asked for is a content.   *)
THEOREM TypeCorrect == Spec => []TypeOK
  <1>1. TypeInv => TypeOK
    BY DEF TypeInv
  <1> QED BY <1>1, TypeInvAlways, PTL

-----------------------------------------------------------------------------
(* No lock cycle.  Without the overlay and changes of the DPI the mutexes of *)
(* the overlay and of the view are leaves: whoever holds one of them has at  *)
(* most one operation left before it lets it go, and that one takes nothing. *)

LeafLocks == {"root", "view"}

(* From position i on the script gives mutex m back, at once or after one     *)
(* operation that neither takes nor drops a mutex nor branches.               *)
Releases(s, i, m) ==
    \/ i \in DOMAIN s /\ s[i] = <<"drop", m>>
    \/ /\ i \in DOMAIN s /\ s[i][1] \notin {"take", "drop", "paint", "repaint"}
       /\ i + 1 \in DOMAIN s /\ s[i + 1] = <<"drop", m>>

LeafScript(s) ==
    \A i \in DOMAIN s :
        /\ s[i][1] # "repaint" /\ s[i] # <<"post", <<"hideRoot", Nothing>>>>
        /\ \A m \in LeafLocks : s[i] = <<"take", m>> => Releases(s, i + 1, m)

LeafInv ==
    /\ ~ctrlDown
    /\ \A i \in DOMAIN queue : queue[i] # <<"hideRoot", Nothing>>
    /\ \A t \in Threads : LeafScript(todo[t])
    /\ \A t \in Threads, m \in LeafLocks : lock[m] = t => Releases(todo[t], 1, m)

(* An operation with no mutex of its own, and none that is never reached.   *)
Plain(x) ==
    /\ x \in Ops /\ x[1] \notin {"take", "drop", "paint", "repaint"}
    /\ x # <<"post", <<"hideRoot", Nothing>>>>

LEMMA LeafEmpty == LeafScript(<<>>)
  BY DEF LeafScript

LEMMA HeadIn ==
    ASSUME NEW S, NEW q \in Seq(S), q # <<>>
    PROVE  Head(q) \in S /\ 1 \in DOMAIN q /\ Head(q) = q[1]
  OBVIOUS

LEMMA Appended ==
    ASSUME NEW S, NEW q \in Seq(S), NEW x \in S, NEW i \in DOMAIN Append(q, x)
    PROVE  (i \in DOMAIN q /\ Append(q, x)[i] = q[i]) \/ Append(q, x)[i] = x
  OBVIOUS

LEMMA JoinedAt ==
    ASSUME NEW s \in Seq(Ops), NEW r \in Seq(Ops)
    PROVE  /\ Len(s \o r) = Len(s) + Len(r) /\ s \o r \in Seq(Ops)
           /\ \A i \in 1 .. Len(s) : (s \o r)[i] = s[i]
           /\ \A i \in 1 .. Len(r) : (s \o r)[Len(s) + i] = r[i]
  OBVIOUS

LEMMA LeafJoin ==
    ASSUME NEW s \in Seq(Ops), NEW r \in Seq(Ops), LeafScript(s), LeafScript(r)
    PROVE  LeafScript(s \o r)
  <1> DEFINE q == s \o r
  <1>1. /\ DOMAIN q = 1 .. (Len(s) + Len(r)) /\ DOMAIN s = 1 .. Len(s) /\ DOMAIN r = 1 .. Len(r)
        /\ Len(s) \in Nat /\ Len(r) \in Nat
    OBVIOUS
  <1>2. \A i \in DOMAIN s : i \in DOMAIN q /\ q[i] = s[i]
    OBVIOUS
  <1>3. \A i \in DOMAIN r : Len(s) + i \in DOMAIN q /\ q[Len(s) + i] = r[i]
    OBVIOUS
  <1> HIDE DEF q
  <1>4. ASSUME NEW i \in DOMAIN s, NEW m, Releases(s, i, m) PROVE Releases(q, i, m)
    BY <1>2, <1>4 DEF Releases
  <1>5. ASSUME NEW i \in DOMAIN r, NEW m, Releases(r, i, m) PROVE Releases(q, Len(s) + i, m)
    <2>1. i + 1 \in DOMAIN r => (Len(s) + i) + 1 \in DOMAIN q /\ q[(Len(s) + i) + 1] = r[i + 1]
      BY <1>1, <1>3
    <2> QED BY <1>3, <1>5, <2>1 DEF Releases
  <1>6. ASSUME NEW i \in DOMAIN q
        PROVE  /\ q[i][1] # "repaint" /\ q[i] # <<"post", <<"hideRoot", Nothing>>>>
               /\ \A m \in LeafLocks : q[i] = <<"take", m>> => Releases(q, i + 1, m)
    <2>1. CASE i \in DOMAIN s
      <3>1. q[i] = s[i]
        BY <1>2, <2>1
      <3>2. ASSUME NEW m \in LeafLocks, q[i] = <<"take", m>> PROVE Releases(q, i + 1, m)
        <4>1. Releases(s, i + 1, m)
          BY <2>1, <3>1, <3>2 DEF LeafScript
        <4>2. i + 1 \in DOMAIN s
          BY <4>1 DEF Releases
        <4> QED BY <1>4, <4>1, <4>2
      <3> QED BY <2>1, <3>1, <3>2 DEF LeafScript
    <2>2. CASE i \notin DOMAIN s
      <3>1. PICK j \in DOMAIN r : i = Len(s) + j
        <4>1. i - Len(s) \in DOMAIN r /\ i = Len(s) + (i - Len(s))
          BY <1>1, <2>2
        <4> QED BY <4>1
      <3>2. q[i] = r[j]
        BY <1>3, <3>1
      <3>3. ASSUME NEW m \in LeafLocks, q[i] = <<"take", m>> PROVE Releases(q, i + 1, m)
        <4>1. Releases(r, j + 1, m)
          BY <3>2, <3>3 DEF LeafScript
        <4>2. j + 1 \in DOMAIN r
          BY <4>1 DEF Releases
        <4>3. i + 1 = Len(s) + (j + 1)
          BY <1>1, <3>1
        <4> QED BY <1>5, <4>1, <4>2, <4>3
      <3> QED BY <3>2, <3>3 DEF LeafScript
    <2> QED BY <2>1, <2>2
  <1> QED BY <1>6 DEF LeafScript, q

LEMMA LeafOne ==
    ASSUME NEW x \in Ops, Plain(x) \/ x = <<"paint", Nothing>> PROVE LeafScript(<<x>>)
  <1>1. \A i \in DOMAIN <<x>> : <<x>>[i] = x
    OBVIOUS
  <1>2. x[1] # "take" /\ x[1] # "repaint" /\ x # <<"post", <<"hideRoot", Nothing>>>>
    BY DEF Plain
  <1>3. \A m : x # <<"take", m>>
    BY <1>2
  <1> QED BY <1>1, <1>2, <1>3 DEF LeafScript

(* A leaf mutex around at most one plain operation. *)
LEMMA LeafAround ==
    ASSUME NEW k \in LeafLocks, NEW x \in Ops, Plain(x) PROVE LeafScript(Locked(k, <<x>>))
  <1> DEFINE a == <<<<"take", k>>>> \o <<x>>
             s == a \o <<<<"drop", k>>>>
  <1>1. Locked(k, <<x>>) = s
    BY DEF Locked
  <1>2. DOMAIN s = {1, 2, 3} /\ s[1] = <<"take", k>> /\ s[2] = x /\ s[3] = <<"drop", k>>
    <2>1. <<"take", k>> \in Ops /\ <<"drop", k>> \in Ops
      BY OpTypes, LockNames DEF LeafLocks
    <2>2. a \in Seq(Ops) /\ Len(a) = 2 /\ a[1] = <<"take", k>> /\ a[2] = x
      BY <2>1
    <2> DEFINE z == <<<<"drop", k>>>>
    <2>3. z \in Seq(Ops) /\ Len(z) = 1 /\ z[1] = <<"drop", k>>
      BY <2>1
    <2>4. s = a \o z
      OBVIOUS
    <2> HIDE DEF a, z, s
    <2>5. Len(s) = 3 /\ s \in Seq(Ops)
      BY <2>2, <2>3, <2>4, JoinedAt
    <2>6. s[1] = a[1] /\ s[2] = a[2] /\ s[3] = z[1]
      <3>1. \A i \in 1 .. 2 : s[i] = a[i]
        BY <2>2, <2>3, <2>4, JoinedAt
      <3>2. \A i \in 1 .. 1 : s[2 + i] = z[i]
        BY <2>2, <2>3, <2>4, JoinedAt
      <3> QED BY <3>1, <3>2
    <2>7. DOMAIN s = {1, 2, 3}
      BY <2>5
    <2> QED BY <2>2, <2>3, <2>6, <2>7
  <1> HIDE DEF s
  <1>3. Releases(s, 2, k)
    BY <1>2 DEF Releases, Plain
  <1>4. \A m : x # <<"take", m>>
    BY DEF Plain
  <1>5. x[1] # "repaint" /\ x # <<"post", <<"hideRoot", Nothing>>>>
    BY DEF Plain
  <1>6. ASSUME NEW i \in DOMAIN s
        PROVE  /\ s[i][1] # "repaint" /\ s[i] # <<"post", <<"hideRoot", Nothing>>>>
               /\ \A m \in LeafLocks : s[i] = <<"take", m>> => Releases(s, i + 1, m)
    <2>1. CASE i = 1
      BY <1>2, <1>3, <2>1
    <2>2. CASE i = 2
      BY <1>2, <1>4, <1>5, <2>2
    <2>3. CASE i = 3
      BY <1>2, <2>3
    <2> QED BY <1>2, <2>1, <2>2, <2>3
  <1> QED BY <1>1, <1>6 DEF LeafScript

LEMMA LeafAroundNothing == ASSUME NEW k \in LeafLocks PROVE LeafScript(Locked(k, <<>>))
  <1> DEFINE s == Locked(k, <<>>)
  <1>2. DOMAIN s = {1, 2} /\ s[1] = <<"take", k>> /\ s[2] = <<"drop", k>>
    <2>1. <<"take", k>> \in Ops /\ <<"drop", k>> \in Ops
      BY OpTypes, LockNames DEF LeafLocks
    <2>2. <<<<"take", k>>>> \o <<>> = <<<<"take", k>>>>
      BY <2>1
    <2>3. Len(s) = 2 /\ s \in Seq(Ops) /\ s[1] = <<"take", k>> /\ s[2] = <<"drop", k>>
      BY <2>1, <2>2 DEF Locked
    <2> QED BY <2>3
  <1> HIDE DEF s
  <1>3. Releases(s, 2, k)
    BY <1>2 DEF Releases
  <1> QED BY <1>2, <1>3 DEF LeafScript, s

(* The mutex of the model around any such script. *)
LEMMA LeafInModel ==
    ASSUME NEW body \in Seq(Ops), LeafScript(body) PROVE LeafScript(Locked("model", body))
  <1>1. LeafScript(<<<<"take", "model">>>>) /\ LeafScript(<<<<"drop", "model">>>>)
    <2>1. \A x : \A i \in DOMAIN <<x>> : <<x>>[i] = x
      OBVIOUS
    <2>2. \A m \in LeafLocks : <<"take", "model">> # <<"take", m>> /\ <<"drop", "model">> # <<"take", m>>
      BY DEF LeafLocks
    <2> QED BY <2>1, <2>2 DEF LeafScript
  <1>2. <<<<"take", "model">>>> \in Seq(Ops) /\ <<<<"drop", "model">>>> \in Seq(Ops)
    BY OpTypes, OneOp, LockNames
  <1> QED BY <1>1, <1>2, LeafJoin, Joined DEF Locked

-----------------------------------------------------------------------------
(* The handlers are such scripts. *)
LEMMA PlainOps ==
    /\ Plain(<<"clone", Nothing>>) /\ Plain(<<"measure", Nothing>>) /\ Plain(<<"place", Nothing>>)
    /\ Plain(<<"drawOwn", Nothing>>) /\ Plain(<<"drawModel", Nothing>>)
    /\ \A c \in Contexts : Plain(<<"setModel", c>>) /\ Plain(<<"draw", c>>)
    /\ \A r \in Roots : Plain(<<"setRoot", r>>) /\ Plain(<<"draw", r>>)
    /\ \A b \in BOOLEAN : Plain(<<"visible", b>>)
    /\ Plain(<<"post", <<"show", Nothing>>>>) /\ Plain(<<"post", <<"hide", Nothing>>>>)
    /\ \A c \in Contexts : Plain(<<"post", <<"update", c>>>>)
  BY OpTypes, MessageTypes DEF Plain

LEMMA LayoutIsLeaf == LeafScript(ApplyLayout)
  <1>1. /\ Locked("root", <<<<"clone", Nothing>>>>) \in Seq(Ops)
        /\ LeafScript(Locked("root", <<<<"clone", Nothing>>>>))
    BY OpTypes, OneOp, LockedType, LockNames, PlainOps, LeafAround DEF LeafLocks
  <1>2. /\ Locked("view", <<<<"measure", Nothing>>>>) \in Seq(Ops)
        /\ LeafScript(Locked("view", <<<<"measure", Nothing>>>>))
    BY OpTypes, OneOp, LockedType, LockNames, PlainOps, LeafAround DEF LeafLocks
  <1>3. /\ Locked("model", Locked("view", <<<<"measure", Nothing>>>>)) \in Seq(Ops)
        /\ LeafScript(Locked("model", Locked("view", <<<<"measure", Nothing>>>>)))
    BY <1>2, LeafInModel, LockedType, LockNames
  <1>4. <<<<"place", Nothing>>>> \in Seq(Ops) /\ LeafScript(<<<<"place", Nothing>>>>)
    BY OpTypes, OneOp, PlainOps, LeafOne
  <1> QED BY <1>1, <1>3, <1>4, LeafJoin, Joined DEF ApplyLayout

LEMMA CommandsAreLeaf ==
    /\ LeafScript(Hide)
    /\ \A c \in Contexts : LeafScript(Show \o Update(c))
  <1>1. LeafScript(Hide)
    BY PlainOps, OpTypes, MessageTypes, LeafAround DEF Hide, LeafLocks
  <1>2. LeafScript(Show)
    <2>1. Locked("view", <<>>) \in Seq(Ops) /\ LeafScript(Locked("view", <<>>))
      BY EmptyScript, LockedType, LockNames, LeafAroundNothing DEF LeafLocks
    <2>2. <<"post", <<"show", Nothing>>>> \in Ops
      BY OpTypes, MessageTypes
    <2>3. /\ <<<<"post", <<"show", Nothing>>>>>> \in Seq(Ops)
          /\ LeafScript(<<<<"post", <<"show", Nothing>>>>>>)
      BY <2>2, OneOp, PlainOps, LeafOne
    <2> QED BY <2>1, <2>3, LayoutIsLeaf, LayoutType, LeafJoin, Joined DEF Show
  <1>3. ASSUME NEW c \in Contexts PROVE LeafScript(Update(c))
    <2>1. <<"post", <<"update", c>>>> \in Ops
      BY OpTypes, MessageTypes
    <2> QED BY <2>1, PlainOps, LeafAround DEF Update, LeafLocks
  <1> QED BY <1>1, <1>2, <1>3, CommandTypes, LeafJoin

LEMMA HandlersAreLeaf ==
    /\ LeafScript(OnPaint)
    /\ \A msg \in Messages : msg # <<"hideRoot", Nothing>> => LeafScript(Handler(msg))
  <1>1. LeafScript(OnPaint)
    <2>1. <<<<"paint", Nothing>>>> \in Seq(Ops) /\ LeafScript(<<<<"paint", Nothing>>>>)
      BY OpTypes, OneOp, LeafOne
    <2> QED BY <2>1, LeafInModel DEF OnPaint
  <1>2. ASSUME NEW b \in BOOLEAN
        PROVE  <<<<"visible", b>>>> \in Seq(Ops) /\ LeafScript(<<<<"visible", b>>>>)
    BY OpTypes, OneOp, PlainOps, LeafOne
  <1>3. ASSUME NEW c \in Contexts \cup Roots
        PROVE  /\ Locked("view", <<<<"draw", c>>>>) \in Seq(Ops)
               /\ LeafScript(Locked("view", <<<<"draw", c>>>>))
    BY OpTypes, OneOp, LockedType, LockNames, PlainOps, LeafAround DEF LeafLocks
  <1>4. ASSUME NEW c \in Contexts PROVE LeafScript(OnUpdate(c))
    <2>1. <<<<"setModel", c>>>> \in Seq(Ops) /\ LeafScript(<<<<"setModel", c>>>>)
      BY OpTypes, OneOp, PlainOps, LeafOne
    <2>2. /\ Locked("model", <<<<"setModel", c>>>>) \in Seq(Ops)
          /\ LeafScript(Locked("model", <<<<"setModel", c>>>>))
      BY <2>1, LeafInModel, LockedType, LockNames
    <2> QED BY <1>3, <2>2, LayoutIsLeaf, LayoutType, LeafJoin, Joined DEF OnUpdate
  <1>5. ASSUME NEW r \in Roots PROVE LeafScript(OnShowRoot(r))
    <2>1. /\ Locked("root", <<<<"setRoot", r>>>>) \in Seq(Ops)
          /\ LeafScript(Locked("root", <<<<"setRoot", r>>>>))
      BY OpTypes, OneOp, LockedType, LockNames, PlainOps, LeafAround DEF LeafLocks
    <2> DEFINE a == Locked("root", <<<<"setRoot", r>>>>) \o ApplyLayout
               b == a \o Locked("view", <<<<"draw", r>>>>)
    <2>2. a \in Seq(Ops) /\ LeafScript(a)
      BY <2>1, LayoutIsLeaf, LayoutType, LeafJoin, Joined
    <2>3. b \in Seq(Ops) /\ LeafScript(b)
      BY <1>3, <2>2, LeafJoin, Joined
    <2>4. OnShowRoot(r) = b \o <<<<"visible", TRUE>>>>
      BY DEF OnShowRoot
    <2> QED BY <1>2, <2>3, <2>4, LeafJoin
  <1>6. ASSUME NEW msg \in Messages, msg # <<"hideRoot", Nothing>> PROVE LeafScript(Handler(msg))
    <2>1. CASE msg = <<"show", Nothing>> \/ msg = <<"hide", Nothing>>
      <3>1. LeafScript(<<<<"visible", TRUE>>>>) /\ LeafScript(<<<<"visible", FALSE>>>>)
        BY <1>2
      <3>2. ASSUME msg = <<"show", Nothing>> PROVE Handler(msg) = <<<<"visible", TRUE>>>>
        BY <3>2 DEF Handler
      <3>3. ASSUME msg = <<"hide", Nothing>> PROVE Handler(msg) = <<<<"visible", FALSE>>>>
        BY <3>3 DEF Handler
      <3> QED BY <2>1, <3>1, <3>2, <3>3
    <2>2. ASSUME NEW c \in Contexts, msg = <<"update", c>> PROVE LeafScript(Handler(msg))
      <3>1. Handler(msg) = OnUpdate(c)
        BY <2>2 DEF Handler
      <3> QED BY <1>4, <3>1
    <2>3. ASSUME NEW r \in Roots, msg = <<"showRoot", r>> PROVE LeafScript(Handler(msg))
      <3>1. Handler(msg) = OnShowRoot(r)
        BY <2>3 DEF Handler
      <3> QED BY <1>5, <3>1
    <2>4. /\ msg = <<msg[1], msg[2]>>
          /\ \/ msg[1] \in {"show", "hide", "hideRoot"} /\ msg[2] = Nothing
             \/ msg[1] = "update" /\ msg[2] \in Contexts
             \/ msg[1] = "showRoot" /\ msg[2] \in Roots
      BY DEF Messages
    <2> QED BY <1>6, <2>1, <2>2, <2>3, <2>4
  <1> QED BY <1>1, <1>6

-----------------------------------------------------------------------------
(* Every step keeps it. *)

(* A thread that has run its handler to the end, or that is about to take a   *)
(* mutex or to branch, holds no leaf mutex.                                   *)
LEMMA HoldsNoLeaf ==
    ASSUME LeafInv, NEW t \in Threads, NEW m \in LeafLocks,
           \/ todo[t] = <<>>
           \/ todo[t] # <<>> /\ Head(todo[t])[1] \in {"take", "paint", "repaint"}
    PROVE  lock[m] # t
  <1>1. lock[m] = t => Releases(todo[t], 1, m)
    BY DEF LeafInv
  <1>2. ~Releases(todo[t], 1, m)
    <2>1. CASE todo[t] = <<>>
      <3>1. DOMAIN todo[t] = {}
        BY <2>1
      <3> QED BY <3>1 DEF Releases
    <2>2. CASE todo[t] # <<>> /\ Head(todo[t])[1] \in {"take", "paint", "repaint"}
      <3>1. todo[t][1][1] \in {"take", "paint", "repaint"}
        BY <2>2
      <3>2. todo[t][1] # <<"drop", m>>
        BY <3>1
      <3> QED BY <3>1, <3>2 DEF Releases
    <2> QED BY <2>1, <2>2
  <1> QED BY <1>1, <1>2

(* What is left of a leaf script after its first operation. *)
LEMMA LeafTail ==
    ASSUME NEW s \in Seq(Ops), s # <<>>, LeafScript(s)
    PROVE  /\ LeafScript(Tail(s))
           /\ \A m \in LeafLocks : s[1] = <<"take", m>> => Releases(Tail(s), 1, m)
           /\ \A m \in LeafLocks :
                Releases(s, 1, m) /\ s[1] # <<"drop", m>> => Releases(Tail(s), 1, m)
  <1> DEFINE r == Tail(s)
  <1>1. /\ r \in Seq(Ops) /\ Len(s) \in Nat /\ Len(s) >= 1 /\ Len(r) = Len(s) - 1
        /\ DOMAIN r = 1 .. Len(r) /\ DOMAIN s = 1 .. Len(s)
    OBVIOUS
  <1>2. \A i \in DOMAIN r : i + 1 \in DOMAIN s /\ r[i] = s[i + 1]
    OBVIOUS
  <1>3. \A i \in Nat : i >= 1 /\ i + 1 \in DOMAIN s => i \in DOMAIN r
    BY <1>1
  <1> HIDE DEF r
  <1>4. ASSUME NEW i \in Nat, i >= 1, NEW m, Releases(s, i + 1, m) PROVE Releases(r, i, m)
    <2>1. i + 1 \in DOMAIN s
      BY <1>4 DEF Releases
    <2>2. i \in DOMAIN r /\ r[i] = s[i + 1]
      BY <1>2, <1>3, <1>4, <2>1
    <2>3. CASE s[i + 1] = <<"drop", m>>
      BY <2>2, <2>3 DEF Releases
    <2>4. CASE /\ s[i + 1][1] \notin {"take", "drop", "paint", "repaint"}
               /\ (i + 1) + 1 \in DOMAIN s /\ s[(i + 1) + 1] = <<"drop", m>>
      <3>1. i + 1 \in DOMAIN r
        BY <1>3, <1>4, <2>4
      <3>2. r[i + 1] = s[(i + 1) + 1]
        BY <1>2, <3>1
      <3> QED BY <2>2, <2>4, <3>1, <3>2 DEF Releases
    <2> QED BY <1>4, <2>3, <2>4 DEF Releases
  <1>5. LeafScript(r)
    <2>1. ASSUME NEW i \in DOMAIN r
          PROVE  /\ r[i][1] # "repaint" /\ r[i] # <<"post", <<"hideRoot", Nothing>>>>
                 /\ \A m \in LeafLocks : r[i] = <<"take", m>> => Releases(r, i + 1, m)
      <3>1. i \in Nat /\ i >= 1 /\ i + 1 \in Nat /\ i + 1 >= 1 /\ i + 1 \in DOMAIN s /\ r[i] = s[i + 1]
        BY <1>1, <1>2
      <3>2. ASSUME NEW m \in LeafLocks, r[i] = <<"take", m>> PROVE Releases(r, i + 1, m)
        <4>1. Releases(s, (i + 1) + 1, m)
          BY <3>1, <3>2 DEF LeafScript
        <4> QED BY <1>4, <3>1, <4>1
      <3> QED BY <3>1, <3>2 DEF LeafScript
    <2> QED BY <2>1 DEF LeafScript
  <1>6. ASSUME NEW m \in LeafLocks, s[1] = <<"take", m>> PROVE Releases(r, 1, m)
    <2>1. Releases(s, 1 + 1, m)
      BY <1>1, <1>6 DEF LeafScript
    <2> QED BY <1>4, <2>1
  <1>7. ASSUME NEW m \in LeafLocks, Releases(s, 1, m), s[1] # <<"drop", m>> PROVE Releases(r, 1, m)
    <2>1. 2 \in DOMAIN s /\ s[2] = <<"drop", m>>
      BY <1>7 DEF Releases
    <2>2. 1 \in DOMAIN r /\ r[1] = s[2]
      BY <1>2, <1>3, <2>1
    <2> QED BY <2>1, <2>2 DEF Releases
  <1> QED BY <1>5, <1>6, <1>7 DEF r

(* A thread with nothing left to do is given a leaf script. *)
LEMMA LeafStart ==
    ASSUME TypeInv, LeafInv, NEW t \in Threads, todo[t] = <<>>, NEW script, LeafScript(script),
           todo' = [todo EXCEPT ![t] = script], lock' = lock, ctrlDown' = ctrlDown,
           \A i \in DOMAIN queue' : queue'[i] # <<"hideRoot", Nothing>>
    PROVE  LeafInv'
  <1>1. \A u \in Threads : todo'[u] = IF u = t THEN script ELSE todo[u]
    BY DEF TypeInv
  <1>2. ASSUME NEW u \in Threads PROVE LeafScript(todo'[u])
    BY <1>1 DEF LeafInv
  <1>3. ASSUME NEW u \in Threads, NEW m \in LeafLocks, lock'[m] = u PROVE Releases(todo'[u], 1, m)
    <2>1. u # t
      BY <1>3, HoldsNoLeaf
    <2> QED BY <1>1, <1>3, <2>1 DEF LeafInv
  <1>4. ~ctrlDown'
    BY DEF LeafInv
  <1> QED BY <1>2, <1>3, <1>4 DEF LeafInv

LEMMA IpcKeepsLeaf ==
    ASSUME "showRoot" \notin Commands, TypeInv, LeafInv, IpcCommand PROVE LeafInv'
  <1>1. ~ctrlDown
    BY DEF LeafInv
  <1>2. ASSUME NEW name, NEW script, LeafScript(script), Command(name, script), ctrlDown' = ctrlDown
        PROVE  LeafInv'
    <2>1. /\ todo["ipc"] = <<>> /\ todo' = [todo EXCEPT !["ipc"] = script]
          /\ lock' = lock /\ queue' = queue /\ "ipc" \in Threads
      BY <1>2 DEF Command, IdleThread, Threads
    <2>2. \A i \in DOMAIN queue' : queue'[i] # <<"hideRoot", Nothing>>
      BY <2>1 DEF LeafInv
    <2> QED BY <1>2, <2>1, <2>2, LeafStart
  <1>3. ASSUME NEW ctx \in Contexts, Key(ctx) \/ ChangePage(ctx) PROVE LeafInv'
    <2>1. PICK name : Command(name, Show \o Update(ctx)) /\ ctrlDown' = ctrlDown
      BY <1>3 DEF Key, ChangePage
    <2> QED BY <1>2, <2>1, CommandsAreLeaf
  <1>4. ASSUME Clear PROVE LeafInv'
    <2>1. Command("hide", Hide) /\ ctrlDown' = ctrlDown
      BY <1>4 DEF Clear
    <2> QED BY <1>2, <2>1, CommandsAreLeaf
  <1>5. ~CtrlUp
    BY <1>1 DEF CtrlUp
  <1>6. ASSUME NEW r \in Roots PROVE ~CtrlDown(r)
    BY DEF CtrlDown, Command
  <1> QED BY <1>3, <1>4, <1>5, <1>6 DEF IpcCommand

LEMMA LoopKeepsLeaf ==
    ASSUME "dpi" \notin UiEvents, TypeInv, LeafInv, GetMessage \/ Move \/ Paint \/ DpiChanged
    PROVE  LeafInv'
  <1>1. ASSUME NEW script, LeafScript(script), Dispatch(script),
               \A i \in DOMAIN queue' : queue'[i] # <<"hideRoot", Nothing>>
        PROVE  LeafInv'
    <2>1. /\ todo["ui"] = <<>> /\ todo' = [todo EXCEPT !["ui"] = script]
          /\ lock' = lock /\ ctrlDown' = ctrlDown /\ "ui" \in Threads
      BY <1>1 DEF Dispatch, IdleThread, Threads
    <2> QED BY <1>1, <2>1, LeafStart
  <1>2. \A i \in DOMAIN queue : queue[i] # <<"hideRoot", Nothing>>
    BY DEF LeafInv
  <1>3. ASSUME GetMessage PROVE LeafInv'
    <2>1. queue \in Seq(Messages) /\ queue # <<>>
      BY <1>3 DEF GetMessage, TypeInv, TypeOK
    <2>2. Head(queue) \in Messages /\ Head(queue) # <<"hideRoot", Nothing>>
      BY <1>2, <2>1, HeadIn
    <2>3. \A i \in DOMAIN Tail(queue) : Tail(queue)[i] # <<"hideRoot", Nothing>>
      <3>1. \A i \in DOMAIN Tail(queue) : i + 1 \in DOMAIN queue /\ Tail(queue)[i] = queue[i + 1]
        BY <2>1
      <3> QED BY <1>2, <3>1
    <2>4. Dispatch(Handler(Head(queue))) /\ queue' = Tail(queue)
      BY <1>3 DEF GetMessage
    <2>5. LeafScript(Handler(Head(queue)))
      BY <2>2, HandlersAreLeaf
    <2> QED BY <1>1, <2>3, <2>4, <2>5
  <1>4. ASSUME Move PROVE LeafInv'
    <2>1. Dispatch(<<>>) /\ queue' = queue
      BY <1>4 DEF Move
    <2> QED BY <1>1, <1>2, <2>1, LeafEmpty
  <1>5. ASSUME Paint PROVE LeafInv'
    <2>1. Dispatch(OnPaint) /\ queue' = queue
      BY <1>5 DEF Paint
    <2> QED BY <1>1, <1>2, <2>1, HandlersAreLeaf
  <1>6. ~DpiChanged
    BY DEF DpiChanged
  <1> QED BY <1>3, <1>4, <1>5, <1>6

LEMMA TakeKeepsLeaf ==
    ASSUME TypeInv, LeafInv, NEW t \in Threads, Take(t) PROVE LeafInv'
  <1>1. /\ todo[t] \in Seq(Ops) /\ todo[t] # <<>> /\ Head(todo[t]) = todo[t][1]
        /\ todo[t][1] \in Ops /\ Head(todo[t])[1] = "take" /\ Arg(t) = todo[t][1][2]
    BY DEF Take, Op, Arg, TypeInv
  <1>2. todo[t][1] = <<"take", Arg(t)>> /\ Arg(t) \in Locks
    BY <1>1, ArgTypes DEF Ops
  <1>3. todo'[t] = Tail(todo[t]) /\ \A u \in Threads \ {t} : todo'[u] = todo[u]
    <2>1. Tail(todo[t]) \in Seq(Ops) /\ <<>> \o Tail(todo[t]) = Tail(todo[t])
      BY <1>1
    <2> QED BY <2>1 DEF Take, Rest, TypeInv
  <1>4. /\ lock'[Arg(t)] = t /\ lock[Arg(t)] = "free"
        /\ \A m \in Locks : m # Arg(t) => lock'[m] = lock[m]
    BY <1>2 DEF Take, Free, TypeInv, TypeOK
  <1>5. LeafScript(todo[t])
    BY DEF LeafInv
  <1>6. ASSUME NEW u \in Threads PROVE LeafScript(todo'[u])
    BY <1>1, <1>3, <1>5, LeafTail DEF LeafInv
  <1>7. ASSUME NEW u \in Threads, NEW m \in LeafLocks, lock'[m] = u PROVE Releases(todo'[u], 1, m)
    <2>1. CASE m = Arg(t)
      <3>1. u = t /\ todo[t][1] = <<"take", m>>
        BY <1>2, <1>4, <1>7, <2>1
      <3> QED BY <1>1, <1>3, <1>5, <3>1, LeafTail
    <2>2. CASE m # Arg(t)
      <3>1. lock[m] = u
        BY <1>4, <1>7, <2>2 DEF LeafLocks, Locks
      <3>2. u # t
        BY <1>1, <3>1, HoldsNoLeaf
      <3> QED BY <1>3, <3>1, <3>2 DEF LeafInv
    <2> QED BY <2>1, <2>2
  <1>8. ~ctrlDown' /\ \A i \in DOMAIN queue' : queue'[i] # <<"hideRoot", Nothing>>
    BY DEF Take, LeafInv
  <1> QED BY <1>6, <1>7, <1>8 DEF LeafInv

LEMMA DropKeepsLeaf ==
    ASSUME TypeInv, LeafInv, NEW t \in Threads, Drop(t) PROVE LeafInv'
  <1>1. /\ todo[t] \in Seq(Ops) /\ todo[t] # <<>> /\ Head(todo[t]) = todo[t][1]
        /\ todo[t][1] \in Ops /\ Head(todo[t])[1] = "drop" /\ Arg(t) = todo[t][1][2]
    BY DEF Drop, Op, Arg, TypeInv
  <1>2. todo[t][1] = <<"drop", Arg(t)>> /\ Arg(t) \in Locks
    BY <1>1, ArgTypes DEF Ops
  <1>3. todo'[t] = Tail(todo[t]) /\ \A u \in Threads \ {t} : todo'[u] = todo[u]
    <2>1. Tail(todo[t]) \in Seq(Ops) /\ <<>> \o Tail(todo[t]) = Tail(todo[t])
      BY <1>1
    <2> QED BY <2>1 DEF Drop, Rest, TypeInv
  <1>4. lock'[Arg(t)] = "free" /\ \A m \in Locks : m # Arg(t) => lock'[m] = lock[m]
    BY <1>2 DEF Drop, TypeInv, TypeOK
  <1>5. LeafScript(todo[t])
    BY DEF LeafInv
  <1>6. ASSUME NEW u \in Threads PROVE LeafScript(todo'[u])
    BY <1>1, <1>3, <1>5, LeafTail DEF LeafInv
  <1>7. ASSUME NEW u \in Threads, NEW m \in LeafLocks, lock'[m] = u PROVE Releases(todo'[u], 1, m)
    <2>1. m # Arg(t)
      BY <1>4, <1>7 DEF Threads
    <2>2. lock[m] = u
      BY <1>4, <1>7, <2>1 DEF LeafLocks, Locks
    <2>3. CASE u = t
      <3>1. Releases(todo[t], 1, m)
        BY <2>2, <2>3 DEF LeafInv
      <3>2. todo[t][1] # <<"drop", m>>
        BY <1>2, <2>1
      <3> QED BY <1>1, <1>3, <1>5, <2>3, <3>1, <3>2, LeafTail
    <2>4. CASE u # t
      BY <1>3, <2>2, <2>4 DEF LeafInv
    <2> QED BY <2>3, <2>4
  <1>8. ~ctrlDown' /\ \A i \in DOMAIN queue' : queue'[i] # <<"hideRoot", Nothing>>
    BY DEF Drop, LeafInv
  <1> QED BY <1>6, <1>7, <1>8 DEF LeafInv

(* An operation that leaves the mutexes alone and is not a drop. *)
LEMMA PlainStepKeepsLeaf ==
    ASSUME TypeInv, LeafInv, NEW t \in Threads, todo[t] # <<>>, Head(todo[t])[1] # "drop",
           Rest(t, <<>>), lock' = lock, ctrlDown' = ctrlDown,
           \A i \in DOMAIN queue' : queue'[i] # <<"hideRoot", Nothing>>
    PROVE  LeafInv'
  <1>1. /\ todo[t] \in Seq(Ops) /\ Head(todo[t]) = todo[t][1] /\ LeafScript(todo[t])
    BY DEF TypeInv, LeafInv
  <1>2. todo'[t] = Tail(todo[t]) /\ \A u \in Threads \ {t} : todo'[u] = todo[u]
    <2>1. Tail(todo[t]) \in Seq(Ops) /\ <<>> \o Tail(todo[t]) = Tail(todo[t])
      BY <1>1
    <2> QED BY <2>1 DEF Rest, TypeInv
  <1>3. ASSUME NEW u \in Threads PROVE LeafScript(todo'[u])
    BY <1>1, <1>2, LeafTail DEF LeafInv
  <1>4. ASSUME NEW u \in Threads, NEW m \in LeafLocks, lock'[m] = u PROVE Releases(todo'[u], 1, m)
    <2>1. Releases(todo[u], 1, m)
      BY <1>4 DEF LeafInv
    <2>2. CASE u = t
      <3>1. todo[t][1] # <<"drop", m>>
        BY <1>1
      <3> QED BY <1>1, <1>2, <2>1, <2>2, <3>1, LeafTail
    <2>3. CASE u # t
      BY <1>2, <2>1, <2>3
    <2> QED BY <2>2, <2>3
  <1>5. ~ctrlDown'
    BY DEF LeafInv
  <1> QED BY <1>3, <1>4, <1>5 DEF LeafInv

LEMMA StepKeepsLeaf ==
    ASSUME TypeInv, LeafInv, NEW t \in Threads, Step(t) PROVE LeafInv'
  <1>1. \A i \in DOMAIN queue : queue[i] # <<"hideRoot", Nothing>>
    BY DEF LeafInv
  <1>2. ASSUME Data(t) PROVE LeafInv'
    <2>1. todo[t] # <<>> /\ Head(todo[t])[1] # "drop"
      BY <1>2 DEF Data, SetModel, SetRoot, Clone, Measure, Op
    <2>2. Rest(t, <<>>) /\ lock' = lock /\ ctrlDown' = ctrlDown /\ queue' = queue
      BY <1>2 DEF Data
    <2> QED BY <1>1, <2>1, <2>2, PlainStepKeepsLeaf
  <1>3. ASSUME Surface(t) PROVE LeafInv'
    <2>1. todo[t] # <<>> /\ Head(todo[t])[1] # "drop"
      BY <1>3 DEF Surface, Place, Post, ShowOrHide, Draw, DrawSeen, DrawModel, DrawOwn, Op
    <2>2. Rest(t, <<>>) /\ lock' = lock /\ ctrlDown' = ctrlDown
      BY <1>3 DEF Surface
    <2>3. \A i \in DOMAIN queue' : queue'[i] # <<"hideRoot", Nothing>>
      <3>1. CASE Post(t)
        <4>1. /\ todo[t] \in Seq(Ops) /\ Head(todo[t]) = todo[t][1] /\ todo[t][1] \in Ops
              /\ 1 \in DOMAIN todo[t]
          BY <2>1 DEF TypeInv
        <4>2. todo[t][1] = <<"post", Arg(t)>> /\ Arg(t) \in Messages
          BY <3>1, <4>1, ArgTypes DEF Post, Op, Arg, Ops
        <4>3. Arg(t) # <<"hideRoot", Nothing>>
          BY <4>1, <4>2 DEF LeafInv, LeafScript
        <4>4. queue \in Seq(Messages) /\ queue' = Append(queue, Arg(t))
          BY <3>1 DEF Post, TypeInv, TypeOK
        <4>5. ASSUME NEW i \in DOMAIN queue' PROVE queue'[i] # <<"hideRoot", Nothing>>
          <5>1. (i \in DOMAIN queue /\ queue'[i] = queue[i]) \/ queue'[i] = Arg(t)
            <6> DEFINE a == Arg(t)
            <6>1. a \in Messages /\ queue' = Append(queue, a) /\ i \in DOMAIN Append(queue, a)
              BY <4>2, <4>4
            <6> HIDE DEF a
            <6>2. (i \in DOMAIN queue /\ Append(queue, a)[i] = queue[i]) \/ Append(queue, a)[i] = a
              BY <4>4, <6>1, Appended
            <6> QED BY <6>1, <6>2 DEF a
          <5> QED BY <1>1, <4>3, <5>1
        <4> QED BY <4>5
      <3>2. CASE ~Post(t)
        <4>1. queue' = queue
          BY <1>3, <3>2 DEF Surface, Place, ShowOrHide, Draw, DrawSeen, DrawModel, DrawOwn
        <4> QED BY <1>1, <4>1
      <3> QED BY <3>1, <3>2
    <2> QED BY <2>1, <2>2, <2>3, PlainStepKeepsLeaf
  <1>4. ASSUME Branch(t) PROVE LeafInv'
    <2>1. /\ todo[t] \in Seq(Ops) /\ todo[t] # <<>> /\ Head(todo[t]) = todo[t][1]
          /\ LeafScript(todo[t]) /\ 1 \in DOMAIN todo[t]
      BY <1>4 DEF Branch, Op, TypeInv, LeafInv
    <2>2. todo[t][1][1] # "repaint"
      BY <2>1 DEF LeafScript
    <2>3. Head(todo[t])[1] = "paint"
      BY <1>4, <2>1, <2>2 DEF Branch, Op
    <2>4. /\ LeafScript(Locked("view", <<<<"drawOwn", Nothing>>>>))
          /\ Locked("view", <<<<"drawOwn", Nothing>>>>) \in Seq(Ops)
      BY OpTypes, OneOp, LockedType, LockNames, PlainOps, LeafAround DEF LeafLocks
    <2>5. PICK more \in Seq(Ops) : LeafScript(more) /\ Rest(t, more)
      BY <1>4, <2>1, <2>2, <2>4, EmptyScript, LeafEmpty DEF Branch, Op
    <2>6. Tail(todo[t]) \in Seq(Ops) /\ LeafScript(Tail(todo[t]))
      BY <2>1, LeafTail
    <2>7. todo'[t] = more \o Tail(todo[t]) /\ \A u \in Threads \ {t} : todo'[u] = todo[u]
      BY <2>5 DEF Rest, TypeInv
    <2>8. lock' = lock /\ ctrlDown' = ctrlDown /\ queue' = queue
      BY <1>4 DEF Branch
    <2>9. ASSUME NEW u \in Threads PROVE LeafScript(todo'[u])
      BY <2>5, <2>6, <2>7, LeafJoin DEF LeafInv
    <2>10. ASSUME NEW u \in Threads, NEW m \in LeafLocks, lock'[m] = u
           PROVE  Releases(todo'[u], 1, m)
      <3>1. u # t
        BY <2>1, <2>3, <2>8, <2>10, HoldsNoLeaf
      <3> QED BY <2>7, <2>8, <2>10, <3>1 DEF LeafInv
    <2> QED BY <1>1, <2>8, <2>9, <2>10 DEF LeafInv
  <1> QED BY <1>2, <1>3, <1>4, TakeKeepsLeaf, DropKeepsLeaf DEF Step

LEMMA NextKeepsLeaf ==
    ASSUME "showRoot" \notin Commands, "dpi" \notin UiEvents, TypeInv, LeafInv, [Next]_vars
    PROVE  LeafInv'
  <1>1. CASE UNCHANGED vars
    BY <1>1 DEF vars, LeafInv
  <1>2. CASE IpcCommand
    BY <1>2, IpcKeepsLeaf
  <1>3. CASE MessageLoop \/ Paint \/ DpiChanged
    BY <1>3, LoopKeepsLeaf DEF MessageLoop
  <1>4. CASE \E t \in Threads : Step(t)
    BY <1>4, StepKeepsLeaf
  <1> QED BY <1>1, <1>2, <1>3, <1>4 DEF Next

(* A thread that waits holds no leaf mutex, so that two threads waiting for   *)
(* each other would both wait for, and both hold, the mutex of the model.     *)
LEMMA LeafMeansNoCycle == ASSUME TypeInv, LeafInv PROVE NoLockCycle
  <1> SUFFICES ASSUME NEW m \in Locks, NEW n \in Locks,
                      WaitsFor("ipc", m), lock[m] = "ui", WaitsFor("ui", n), lock[n] = "ipc"
               PROVE  FALSE
    BY DEF NoLockCycle
  <1>1. "ipc" \in Threads /\ "ui" \in Threads
    BY DEF Threads
  <1>2. /\ todo["ipc"] # <<>> /\ Head(todo["ipc"])[1] = "take"
        /\ todo["ui"] # <<>> /\ Head(todo["ui"])[1] = "take"
    BY DEF WaitsFor, Op
  <1>3. m \notin LeafLocks /\ n \notin LeafLocks
    BY <1>1, <1>2, HoldsNoLeaf
  <1>4. m = n
    BY <1>3 DEF Locks, LeafLocks
  <1> QED BY <1>4

(* As long as no client asks for the root overlay and the DPI does not change, *)
(* the IPC thread, which holds the engine mutex, and the UI thread never wait  *)
(* for each other's mutex, whatever the candidate lists, the other commands    *)
(* and repaints: the rest of the window's code takes no mutex while it holds   *)
(* the renderer's or the overlay's.  (show_root takes the overlay's inside the *)
(* renderer's, and repaint_current the model's.)                               *)
THEOREM NoLockCycleWithoutOverlay ==
    ASSUME "showRoot" \notin Commands, "dpi" \notin UiEvents
    PROVE  Spec => []NoLockCycle
  <1>1. Init => LeafInv
    <2>1. ASSUME Init PROVE LeafInv
      <3>1. \A t \in Threads : LeafScript(todo[t])
        BY <2>1, LeafEmpty DEF Init
      <3>2. \A t \in Threads, m \in LeafLocks : lock[m] # t
        BY <2>1 DEF Init, Threads, LeafLocks, Locks
      <3>3. ~ctrlDown /\ DOMAIN queue = {}
        BY <2>1 DEF Init
      <3> QED BY <3>1, <3>2, <3>3 DEF LeafInv
    <2> QED BY <2>1
  <1>2. TypeInv /\ LeafInv /\ [Next]_vars => LeafInv'
    BY NextKeepsLeaf
  <1>3. TypeInv /\ LeafInv => NoLockCycle
    BY LeafMeansNoCycle
  <1> QED BY <1>1, <1>2, <1>3, TypeInvAlways, PTL DEF Spec

-----------------------------------------------------------------------------
(* What the last command asked for.  What is on its way to the screen is in  *)
(* three places, one behind the other: the rest of the UI thread's handler,  *)
(* the queue, and what the IPC thread's command has still to post.           *)

Avoids(s, N) == \A k \in DOMAIN s : s[k] \notin N

(* One of X is still to come, before any of N.                               *)
First(s, X, N) ==
    \E k \in DOMAIN s : s[k] \in X /\ \A j \in DOMAIN s : j < k => s[j] \notin N

(* One of X is in the queue, and none of N behind it.                        *)
LastOf(q, X, N) ==
    \E k \in DOMAIN q : q[k] \in X /\ \A j \in DOMAIN q : k < j => q[j] \notin N

(* A value is what it should be (v in V), or will be: whoever sets it right  *)
(* (operations go, in the handlers of the messages gm) comes after whoever   *)
(* sets it wrong (bo, bm).                                                   *)
Settles(i, q, u, gm, bm, go, bo, v, V) ==
    /\ Avoids(i, {"post"} \X bm)
    /\ \/ First(i, {"post"} \X gm, {})
       \/ LastOf(q, gm, bm)
       \/ Avoids(q, bm) /\ Avoids(u, bo) /\ (First(u, go, {}) \/ v \in V)

LEMMA EmptyAvoids ==
    ASSUME NEW N PROVE Avoids(<<>>, N) /\ \A X : ~First(<<>>, X, N) /\ ~LastOf(<<>>, X, N)
  <1>1. DOMAIN <<>> = {}
    OBVIOUS
  <1> QED BY <1>1 DEF Avoids, First, LastOf

LEMMA TailAt ==
    ASSUME NEW S, NEW s \in Seq(S), s # <<>>
    PROVE  /\ Tail(s) \in Seq(S) /\ Head(s) = s[1] /\ 1 \in DOMAIN s /\ Head(s) \in S
           /\ \A k \in DOMAIN s : k = 1 \/ (k - 1 \in DOMAIN Tail(s) /\ Tail(s)[k - 1] = s[k])
           /\ \A k \in DOMAIN Tail(s) : k + 1 \in DOMAIN s /\ Tail(s)[k] = s[k + 1]
           /\ \A k \in DOMAIN s : k \in Nat /\ k >= 1
           /\ \A k \in DOMAIN Tail(s) : k \in Nat /\ k >= 1
  OBVIOUS

LEMMA JoinAt ==
    ASSUME NEW S, NEW s \in Seq(S), NEW r \in Seq(S)
    PROVE  /\ s \o r \in Seq(S) /\ Len(s) \in Nat
           /\ \A k \in DOMAIN s : k \in 1 .. Len(s) /\ k \in DOMAIN (s \o r) /\ (s \o r)[k] = s[k]
           /\ \A k \in DOMAIN r : /\ k \in Nat /\ k >= 1 /\ Len(s) + k \in DOMAIN (s \o r)
                                  /\ (s \o r)[Len(s) + k] = r[k]
           /\ \A k \in DOMAIN (s \o r) :
                 /\ k \in Nat
                 /\ k \in DOMAIN s \/ (k > Len(s) /\ k - Len(s) \in DOMAIN r)
  OBVIOUS

LEMMA TailAvoids ==
    ASSUME NEW S, NEW s \in Seq(S), s # <<>>, NEW N, Avoids(s, N)
    PROVE  Avoids(Tail(s), N) /\ Head(s) \notin N
  BY TailAt DEF Avoids

LEMMA JoinAvoids ==
    ASSUME NEW S, NEW s \in Seq(S), NEW r \in Seq(S), NEW N, Avoids(s, N), Avoids(r, N)
    PROVE  Avoids(s \o r, N)
  <1> DEFINE q == s \o r
  <1>1. /\ Len(s) \in Nat
        /\ \A k \in DOMAIN s : q[k] = s[k]
        /\ \A k \in DOMAIN r : k \in Nat /\ q[Len(s) + k] = r[k]
        /\ \A k \in DOMAIN q : /\ k \in Nat
                               /\ k \in DOMAIN s \/ (k > Len(s) /\ k - Len(s) \in DOMAIN r)
    BY JoinAt
  <1> HIDE DEF q
  <1>2. ASSUME NEW k \in DOMAIN q PROVE q[k] \notin N
    <2>1. CASE k \in DOMAIN s
      BY <1>1, <2>1 DEF Avoids
    <2>2. CASE k - Len(s) \in DOMAIN r
      <3>1. k = Len(s) + (k - Len(s))
        BY <1>1
      <3>2. q[k] = r[k - Len(s)]
        BY <1>1, <2>2, <3>1
      <3> QED BY <2>2, <3>2 DEF Avoids
    <2> QED BY <1>1, <2>1, <2>2
  <1> QED BY <1>2 DEF Avoids, q

LEMMA TailFirst ==
    ASSUME NEW S, NEW s \in Seq(S), s # <<>>, NEW X, NEW N, First(s, X, N)
    PROVE  /\ Head(s) \notin X => First(Tail(s), X, N)
           /\ Head(s) \in N => Head(s) \in X
  <1>1. PICK k \in DOMAIN s : s[k] \in X /\ \A j \in DOMAIN s : j < k => s[j] \notin N
    BY DEF First
  <1>2. CASE k = 1
    BY <1>1, <1>2, TailAt
  <1>3. CASE k # 1
    <2>1. k - 1 \in DOMAIN Tail(s) /\ Tail(s)[k - 1] = s[k] /\ k \in Nat /\ k >= 1
      BY <1>3, TailAt
    <2>2. Head(s) \notin N
      <3>1. 1 < k
        BY <1>3, <2>1
      <3> QED BY <1>1, <3>1, TailAt
    <2>3. ASSUME NEW j \in DOMAIN Tail(s), j < k - 1 PROVE Tail(s)[j] \notin N
      <3>1. j + 1 \in DOMAIN s /\ Tail(s)[j] = s[j + 1] /\ j \in Nat
        BY TailAt
      <3>2. j + 1 < k
        BY <2>1, <2>3, <3>1
      <3> QED BY <1>1, <3>1, <3>2
    <2> QED BY <1>1, <2>1, <2>2, <2>3 DEF First
  <1> QED BY <1>2, <1>3

LEMMA FirstLeft ==
    ASSUME NEW S, NEW s \in Seq(S), NEW r \in Seq(S), NEW X, NEW N, First(s, X, N)
    PROVE  First(s \o r, X, N)
  <1> DEFINE q == s \o r
  <1>1. /\ Len(s) \in Nat
        /\ \A k \in DOMAIN s : k \in 1 .. Len(s) /\ k \in DOMAIN q /\ q[k] = s[k]
        /\ \A k \in DOMAIN q : k \in Nat /\ (k \in DOMAIN s \/ k > Len(s))
    BY JoinAt
  <1> HIDE DEF q
  <1>2. PICK k \in DOMAIN s : s[k] \in X /\ \A j \in DOMAIN s : j < k => s[j] \notin N
    BY DEF First
  <1>3. ASSUME NEW j \in DOMAIN q, j < k PROVE q[j] \notin N
    <2>1. j \in DOMAIN s
      BY <1>1, <1>3
    <2> QED BY <1>1, <1>2, <1>3, <2>1
  <1> QED BY <1>1, <1>2, <1>3 DEF First, q

LEMMA FirstRight ==
    ASSUME NEW S, NEW s \in Seq(S), NEW r \in Seq(S), NEW X, NEW N, First(r, X, N), Avoids(s, N)
    PROVE  First(s \o r, X, N)
  <1> DEFINE q == s \o r
  <1>1. /\ Len(s) \in Nat
        /\ \A k \in DOMAIN s : q[k] = s[k]
        /\ \A k \in DOMAIN r : k \in Nat /\ Len(s) + k \in DOMAIN q /\ q[Len(s) + k] = r[k]
        /\ \A k \in DOMAIN q : /\ k \in Nat
                               /\ k \in DOMAIN s \/ (k > Len(s) /\ k - Len(s) \in DOMAIN r)
    BY JoinAt
  <1> HIDE DEF q
  <1>2. PICK k \in DOMAIN r : r[k] \in X /\ \A j \in DOMAIN r : j < k => r[j] \notin N
    BY DEF First
  <1>3. ASSUME NEW j \in DOMAIN q, j < Len(s) + k PROVE q[j] \notin N
    <2>1. CASE j \in DOMAIN s
      BY <1>1, <2>1 DEF Avoids
    <2>2. CASE j - Len(s) \in DOMAIN r
      <3>1. j = Len(s) + (j - Len(s)) /\ j - Len(s) < k
        BY <1>1, <1>3
      <3>2. q[j] = r[j - Len(s)]
        BY <1>1, <2>2, <3>1
      <3> QED BY <1>2, <2>2, <3>1, <3>2
    <2> QED BY <1>1, <2>1, <2>2
  <1> QED BY <1>1, <1>2, <1>3 DEF First, q

LEMMA OneAt == ASSUME NEW x PROVE /\ DOMAIN <<x>> = {1} /\ <<x>>[1] = x
  OBVIOUS

LEMMA FirstOne == ASSUME NEW x, NEW X, NEW N, x \in X PROVE First(<<x>>, X, N)
  BY OneAt DEF First

LEMMA AvoidsOne == ASSUME NEW x, NEW N, x \notin N PROVE Avoids(<<x>>, N)
  BY OneAt DEF Avoids

LEMMA AppendAt ==
    ASSUME NEW S, NEW q \in Seq(S), NEW x \in S
    PROVE  /\ Len(q) \in Nat /\ Append(q, x) \in Seq(S) /\ Append(q, x) # <<>>
           /\ Len(Append(q, x)) = Len(q) + 1
           /\ Len(q) + 1 \in DOMAIN Append(q, x) /\ Append(q, x)[Len(q) + 1] = x
           /\ \A k \in DOMAIN q : k \in 1 .. Len(q) /\ k \in DOMAIN Append(q, x)
                                    /\ Append(q, x)[k] = q[k]
           /\ \A k \in DOMAIN Append(q, x) : k \in Nat /\ (k \in DOMAIN q \/ k = Len(q) + 1)
  OBVIOUS

LEMMA AppendQueue ==
    ASSUME NEW S, NEW q \in Seq(S), NEW m \in S, NEW gm, NEW bm, m \notin bm
    PROVE  /\ Avoids(q, bm) => Avoids(Append(q, m), bm)
           /\ LastOf(q, gm, bm) => LastOf(Append(q, m), gm, bm)
           /\ m \in gm => LastOf(Append(q, m), gm, bm)
  <1> DEFINE r == Append(q, m)
  <1>1. /\ Len(q) \in Nat /\ Len(q) + 1 \in DOMAIN r /\ r[Len(q) + 1] = m
        /\ \A k \in DOMAIN q : k \in 1 .. Len(q) /\ k \in DOMAIN r /\ r[k] = q[k]
        /\ \A k \in DOMAIN r : k \in Nat /\ (k \in DOMAIN q \/ k = Len(q) + 1)
    BY AppendAt
  <1> HIDE DEF r
  <1>2. ASSUME Avoids(q, bm) PROVE Avoids(r, bm)
    BY <1>1, <1>2 DEF Avoids
  <1>3. ASSUME LastOf(q, gm, bm) PROVE LastOf(r, gm, bm)
    <2>1. PICK k \in DOMAIN q : q[k] \in gm /\ \A j \in DOMAIN q : k < j => q[j] \notin bm
      BY <1>3 DEF LastOf
    <2>2. \A j \in DOMAIN r : k < j => r[j] \notin bm
      BY <1>1, <2>1
    <2> QED BY <1>1, <2>1, <2>2 DEF LastOf
  <1>4. ASSUME m \in gm PROVE LastOf(r, gm, bm)
    <2>1. \A j \in DOMAIN r : Len(q) + 1 < j => r[j] \notin bm
      BY <1>1
    <2> QED BY <1>1, <1>4, <2>1 DEF LastOf
  <1> QED BY <1>2, <1>3, <1>4 DEF r

LEMMA TailLast ==
    ASSUME NEW S, NEW q \in Seq(S), q # <<>>, NEW gm, NEW bm, LastOf(q, gm, bm)
    PROVE  LastOf(Tail(q), gm, bm) \/ (Head(q) \in gm /\ Avoids(Tail(q), bm))
  <1>1. PICK k \in DOMAIN q : q[k] \in gm /\ \A j \in DOMAIN q : k < j => q[j] \notin bm
    BY DEF LastOf
  <1>2. ASSUME NEW j \in DOMAIN Tail(q), k < j + 1 PROVE Tail(q)[j] \notin bm
    <2>1. j + 1 \in DOMAIN q /\ Tail(q)[j] = q[j + 1]
      BY TailAt
    <2> QED BY <1>1, <1>2, <2>1
  <1>3. CASE k = 1
    <2>1. \A j \in DOMAIN Tail(q) : k < j + 1
      BY <1>3, TailAt
    <2> QED BY <1>1, <1>2, <1>3, <2>1, TailAt DEF Avoids
  <1>4. CASE k # 1
    <2>1. k - 1 \in DOMAIN Tail(q) /\ Tail(q)[k - 1] = q[k] /\ k \in Nat
      BY <1>4, TailAt
    <2>2. \A j \in DOMAIN Tail(q) : k - 1 < j => k < j + 1
      BY <2>1, TailAt
    <2> QED BY <1>1, <1>2, <2>1, <2>2 DEF LastOf
  <1> QED BY <1>3, <1>4

LEMMA PostIn == ASSUME NEW m, NEW M PROVE <<"post", m>> \in {"post"} \X M <=> m \in M
  OBVIOUS

(* The IPC thread goes a step: what it posts joins the queue. *)
LEMMA SettlesIpc ==
    ASSUME NEW i \in Seq(Ops), i # <<>>, NEW q \in Seq(Messages), NEW u,
           NEW gm, NEW bm, NEW go, NEW bo, NEW v, NEW w, NEW V, v \in V => w \in V,
           Settles(i, q, u, gm, bm, go, bo, v, V), NEW q2,
           \/ Head(i)[1] # "post" /\ q2 = q
           \/ \E m \in Messages : Head(i) = <<"post", m>> /\ q2 = Append(q, m)
    PROVE  Settles(Tail(i), q2, u, gm, bm, go, bo, w, V)
  <1>1. Avoids(Tail(i), {"post"} \X bm) /\ Head(i) \notin {"post"} \X bm
    BY TailAvoids DEF Settles
  <1>2. CASE Head(i)[1] # "post" /\ q2 = q
    <2>1. Head(i) \notin {"post"} \X gm
      BY <1>2
    <2>2. First(i, {"post"} \X gm, {}) => First(Tail(i), {"post"} \X gm, {})
      BY <2>1, TailFirst
    <2>3. Settles(Tail(i), q, u, gm, bm, go, bo, w, V)
      BY <1>1, <2>2 DEF Settles
    <2>4. q2 = q
      BY <1>2
    <2> QED BY <2>3, <2>4, Zenon
  <1>3. ASSUME NEW m \in Messages, Head(i) = <<"post", m>>, q2 = Append(q, m)
        PROVE  Settles(Tail(i), q2, u, gm, bm, go, bo, w, V)
    <2>1. m \notin bm
      <3>1. <<"post", m>> \notin {"post"} \X bm
        BY <1>1, <1>3
      <3> QED BY <3>1, PostIn
    <2>2. /\ Avoids(q, bm) => Avoids(q2, bm)
          /\ LastOf(q, gm, bm) => LastOf(q2, gm, bm)
          /\ m \in gm => LastOf(q2, gm, bm)
      BY <1>3, <2>1, AppendQueue
    <2>3. m \notin gm => Head(i) \notin {"post"} \X gm
      BY <1>3, PostIn
    <2>4. m \notin gm /\ First(i, {"post"} \X gm, {}) => First(Tail(i), {"post"} \X gm, {})
      BY <2>3, TailFirst
    <2> QED BY <1>1, <2>2, <2>4 DEF Settles
  <1> QED BY <1>2, <1>3

(* The IPC thread begins a command that posts nothing wrong. *)
LEMMA SettlesCommand ==
    ASSUME NEW q, NEW u, NEW gm, NEW bm, NEW go, NEW bo, NEW v, NEW V,
           Settles(<<>>, q, u, gm, bm, go, bo, v, V), NEW i, Avoids(i, {"post"} \X bm)
    PROVE  Settles(i, q, u, gm, bm, go, bo, v, V)
  BY EmptyAvoids DEF Settles

(* The UI thread takes a message. *)
LEMMA SettlesMessage ==
    ASSUME NEW i, NEW q \in Seq(Messages), q # <<>>, NEW gm, NEW bm, NEW go, NEW bo, NEW v, NEW V,
           Settles(i, q, <<>>, gm, bm, go, bo, v, V), NEW u,
           Head(q) \in gm => First(u, go, {}),
           Head(q) \notin bm => Avoids(u, bo), gm \cap bm = {}
    PROVE  Settles(i, Tail(q), u, gm, bm, go, bo, v, V)
  <1>1. CASE First(i, {"post"} \X gm, {})
    BY <1>1 DEF Settles
  <1>2. CASE LastOf(q, gm, bm)
    <2>1. LastOf(Tail(q), gm, bm) \/ (Head(q) \in gm /\ Avoids(Tail(q), bm))
      BY <1>2, TailLast
    <2> QED BY <2>1 DEF Settles
  <1>3. CASE Avoids(q, bm) /\ v \in V
    <2>1. Avoids(Tail(q), bm) /\ Head(q) \notin bm
      BY <1>3, TailAvoids
    <2> QED BY <1>3, <2>1 DEF Settles
  <1> QED BY <1>1, <1>2, <1>3, EmptyAvoids DEF Settles

(* The UI thread begins something that sets nothing wrong. *)
LEMMA SettlesStart ==
    ASSUME NEW i, NEW q, NEW gm, NEW bm, NEW go, NEW bo, NEW v, NEW V,
           Settles(i, q, <<>>, gm, bm, go, bo, v, V), NEW u, Avoids(u, bo)
    PROVE  Settles(i, q, u, gm, bm, go, bo, v, V)
  BY EmptyAvoids DEF Settles

(* The UI thread goes a step, perhaps into a branch that sets nothing wrong. *)
LEMMA SettlesStep ==
    ASSUME NEW i, NEW q, NEW u \in Seq(Ops), u # <<>>, NEW gm, NEW bm, NEW go, NEW bo,
           NEW v, NEW w, NEW V, Settles(i, q, u, gm, bm, go, bo, v, V),
           NEW more \in Seq(Ops), Avoids(more, bo),
           Head(u) \in go => w \in V, Head(u) \notin bo => (v \in V => w \in V)
    PROVE  Settles(i, q, more \o Tail(u), gm, bm, go, bo, w, V)
  <1>1. Tail(u) \in Seq(Ops)
    BY TailAt
  <1>2. ASSUME Avoids(u, bo), First(u, go, {}) \/ v \in V
        PROVE  /\ Avoids(more \o Tail(u), bo)
               /\ First(more \o Tail(u), go, {}) \/ w \in V
    <2>1. Avoids(Tail(u), bo) /\ Head(u) \notin bo
      BY <1>2, TailAvoids
    <2>2. Avoids(more \o Tail(u), bo)
      BY <1>1, <2>1, JoinAvoids
    <2>3. ASSUME First(u, go, {}), Head(u) \notin go PROVE First(more \o Tail(u), go, {})
      <3>1. First(Tail(u), go, {})
        BY <2>3, TailFirst
      <3>2. Avoids(more, {})
        BY DEF Avoids
      <3> QED BY <1>1, <3>1, <3>2, FirstRight
    <2> QED BY <1>2, <2>1, <2>2, <2>3
  <1> QED BY <1>2 DEF Settles

-----------------------------------------------------------------------------
(* What is in the scripts.  Most operations of a script are of the base, and *)
(* what it is for is in the few others.                                      *)

OpsOf(names) == {x \in Ops : x[1] \in names}
Base == OpsOf({"take", "drop", "clone", "measure", "place"})
Uses(s, X) == s \in Seq(Ops) /\ \A k \in DOMAIN s : s[k] \in Base \cup X

LEMMA UsesAvoids ==
    ASSUME NEW s, NEW X, Uses(s, X), NEW N, \A x \in Base \cup X : x \notin N
    PROVE  Avoids(s, N)
  BY DEF Uses, Avoids

LEMMA UsesMore ==
    ASSUME NEW s, NEW X, NEW Y, Uses(s, X), X \subseteq Y PROVE Uses(s, Y)
  BY DEF Uses

LEMMA UsesJoin ==
    ASSUME NEW X, NEW s, NEW r, Uses(s, X), Uses(r, X) PROVE Uses(s \o r, X)
  <1>1. s \in Seq(Ops) /\ r \in Seq(Ops)
    BY DEF Uses
  <1> DEFINE q == s \o r
  <1>2. /\ q \in Seq(Ops) /\ Len(s) \in Nat
        /\ \A k \in DOMAIN s : q[k] = s[k]
        /\ \A k \in DOMAIN r : k \in Nat /\ q[Len(s) + k] = r[k]
        /\ \A k \in DOMAIN q : /\ k \in Nat
                               /\ k \in DOMAIN s \/ (k > Len(s) /\ k - Len(s) \in DOMAIN r)
    BY <1>1, JoinAt
  <1> HIDE DEF q
  <1>3. ASSUME NEW k \in DOMAIN q PROVE q[k] \in Base \cup X
    <2>1. CASE k \in DOMAIN s
      <3>1. q[k] = s[k]
        BY <1>2, <2>1
      <3> QED BY <2>1, <3>1 DEF Uses
    <2>2. CASE k - Len(s) \in DOMAIN r
      <3>1. k = Len(s) + (k - Len(s))
        BY <1>2
      <3>2. q[k] = r[k - Len(s)]
        BY <1>2, <2>2, <3>1
      <3> QED BY <2>2, <3>2 DEF Uses
    <2> QED BY <1>2, <2>1, <2>2
  <1> QED BY <1>2, <1>3 DEF Uses, q

LEMMA UsesOne == ASSUME NEW x \in Ops, NEW X, x \in Base \cup X PROVE Uses(<<x>>, X)
  <1>1. <<x>> \in Seq(Ops)
    BY OneOp
  <1> QED BY <1>1, OneAt DEF Uses

LEMMA UsesNone == ASSUME NEW X PROVE Uses(<<>>, X)
  BY EmptyScript DEF Uses

LEMMA BaseOps ==
    /\ \A m \in Locks : <<"take", m>> \in Base /\ <<"drop", m>> \in Base
    /\ <<"clone", Nothing>> \in Base /\ <<"measure", Nothing>> \in Base
    /\ <<"place", Nothing>> \in Base
  BY OpTypes DEF Base, OpsOf

LEMMA UsesLocked ==
    ASSUME NEW X, NEW m \in Locks, NEW body, Uses(body, X) PROVE Uses(Locked(m, body), X)
  <1>1. Uses(<<<<"take", m>>>>, X) /\ Uses(<<<<"drop", m>>>>, X)
    <2>1. <<"take", m>> \in Ops /\ <<"drop", m>> \in Ops
      BY OpTypes
    <2>2. <<"take", m>> \in Base \cup X /\ <<"drop", m>> \in Base \cup X
      BY BaseOps
    <2> QED BY <2>1, <2>2, UsesOne
  <1> QED BY <1>1, UsesJoin DEF Locked

LEMMA UsesLockedOne ==
    ASSUME NEW X, NEW m \in Locks, NEW x \in Ops, x \in Base \cup X
    PROVE  Uses(Locked(m, <<x>>), X)
  BY UsesOne, UsesLocked

LEMMA LayoutUses ==
    ASSUME NEW X
    PROVE  /\ Uses(ApplyLayout, X)
           /\ <<"repaint", Nothing>> \in X => Uses(RepaintCurrent, X)
  <1>1. Uses(Locked("root", <<<<"clone", Nothing>>>>), X)
    BY UsesLockedOne, BaseOps, OpTypes, LockNames
  <1>2. Uses(Locked("model", Locked("view", <<<<"measure", Nothing>>>>)), X)
    <2>1. Uses(Locked("view", <<<<"measure", Nothing>>>>), X)
      BY UsesLockedOne, BaseOps, OpTypes, LockNames
    <2> QED BY <2>1, UsesLocked, LockNames
  <1>3. Uses(<<<<"place", Nothing>>>>, X)
    BY UsesOne, BaseOps, OpTypes
  <1>4. Uses(ApplyLayout, X)
    BY <1>1, <1>2, <1>3, UsesJoin DEF ApplyLayout
  <1>5. ASSUME <<"repaint", Nothing>> \in X PROVE Uses(RepaintCurrent, X)
    <2>1. Uses(Locked("view", <<<<"repaint", Nothing>>>>), X)
      BY <1>5, UsesLockedOne, OpTypes, LockNames
    <2> QED BY <1>1, <2>1, UsesJoin DEF RepaintCurrent
  <1> QED BY <1>4, <1>5

LEMMA CommandUses ==
    ASSUME NEW X
    PROVE  /\ <<"post", <<"show", Nothing>>>> \in X => Uses(Show, X)
           /\ <<"post", <<"hide", Nothing>>>> \in X => Uses(Hide, X)
           /\ \A c \in Contexts : <<"post", <<"update", c>>>> \in X => Uses(Update(c), X)
           /\ \A r \in Roots : <<"setRoot", r>> \in X /\ <<"post", <<"showRoot", r>>>> \in X
                                 => Uses(ShowRoot(r), X)
           /\ <<"setRoot", Nothing>> \in X /\ <<"post", <<"hideRoot", Nothing>>>> \in X
                => Uses(HideRoot, X)
  <1>1. ASSUME NEW m \in Messages, <<"post", m>> \in X
        PROVE  Uses(<<<<"post", m>>>>, X) /\ Uses(Locked("view", <<<<"post", m>>>>), X)
    <2>1. Uses(<<<<"post", m>>>>, X)
      BY <1>1, OpTypes, UsesOne
    <2> QED BY <2>1, UsesLocked, LockNames
  <1>2. ASSUME <<"post", <<"show", Nothing>>>> \in X PROVE Uses(Show, X)
    <2>1. Uses(<<<<"post", <<"show", Nothing>>>>>>, X)
      BY <1>1, <1>2, MessageTypes
    <2>2. Uses(Locked("view", <<>>), X)
      BY UsesNone, UsesLocked, LockNames
    <2> QED BY <2>1, <2>2, LayoutUses, UsesJoin DEF Show
  <1>3. ASSUME NEW r \in Roots \cup {Nothing}, NEW m \in Messages,
               <<"setRoot", r>> \in X, <<"post", m>> \in X
        PROVE  Uses(Locked("view", Locked("root", <<<<"setRoot", r>>>>) \o <<<<"post", m>>>>), X)
    <2>1. Uses(Locked("root", <<<<"setRoot", r>>>>), X)
      BY <1>3, OpTypes, UsesLockedOne, LockNames
    <2> QED BY <1>1, <1>3, <2>1, UsesJoin, UsesLocked, LockNames
  <1>4. <<"post", <<"hide", Nothing>>>> \in X => Uses(Hide, X)
    BY <1>1, MessageTypes DEF Hide
  <1>5. \A c \in Contexts : <<"post", <<"update", c>>>> \in X => Uses(Update(c), X)
    BY <1>1, MessageTypes DEF Update
  <1>6. \A r \in Roots : <<"setRoot", r>> \in X /\ <<"post", <<"showRoot", r>>>> \in X
                           => Uses(ShowRoot(r), X)
    BY <1>3, MessageTypes DEF ShowRoot
  <1>7. <<"setRoot", Nothing>> \in X /\ <<"post", <<"hideRoot", Nothing>>>> \in X
          => Uses(HideRoot, X)
    BY <1>3, MessageTypes DEF HideRoot
  <1> QED BY <1>2, <1>4, <1>5, <1>6, <1>7

LEMMA HandlerUses ==
    ASSUME NEW X
    PROVE  /\ \A c \in Contexts : <<"setModel", c>> \in X /\ <<"draw", c>> \in X
                                    => Uses(OnUpdate(c), X)
           /\ \A r \in Roots :
                 <<"setRoot", r>> \in X /\ <<"draw", r>> \in X /\ <<"visible", TRUE>> \in X
                   => Uses(OnShowRoot(r), X)
           /\ <<"setRoot", Nothing>> \in X /\ <<"repaint", Nothing>> \in X => Uses(OnHideRoot, X)
           /\ <<"paint", Nothing>> \in X => Uses(OnPaint, X)
           /\ <<"repaint", Nothing>> \in X => Uses(OnDpiChanged, X)
  <1>1. ASSUME NEW x \in Ops, x \in X, NEW m \in Locks PROVE Uses(Locked(m, <<x>>), X)
    BY <1>1, UsesLockedOne
  <1>2. ASSUME NEW c \in Contexts, <<"setModel", c>> \in X, <<"draw", c>> \in X
        PROVE  Uses(OnUpdate(c), X)
    <2>1. /\ Uses(Locked("model", <<<<"setModel", c>>>>), X)
          /\ Uses(Locked("view", <<<<"draw", c>>>>), X)
      BY <1>1, <1>2, OpTypes, LockNames
    <2> QED BY <2>1, LayoutUses, UsesJoin DEF OnUpdate
  <1>3. ASSUME NEW r \in Roots
        PROVE  <<"setRoot", r>> \in X /\ <<"draw", r>> \in X /\ <<"visible", TRUE>> \in X
                 => Uses(OnShowRoot(r), X)
    <2> SUFFICES ASSUME <<"setRoot", r>> \in X, <<"draw", r>> \in X, <<"visible", TRUE>> \in X
                 PROVE  Uses(OnShowRoot(r), X)
      OBVIOUS
    <2>1. /\ Uses(Locked("root", <<<<"setRoot", r>>>>), X)
          /\ Uses(Locked("view", <<<<"draw", r>>>>), X)
      BY <1>1, OpTypes, LockNames
    <2>2. Uses(<<<<"visible", TRUE>>>>, X)
      BY OpTypes, UsesOne
    <2> QED BY <2>1, <2>2, LayoutUses, UsesJoin DEF OnShowRoot
  <1>4. <<"setRoot", Nothing>> \in X /\ <<"repaint", Nothing>> \in X => Uses(OnHideRoot, X)
    BY <1>1, OpTypes, LockNames, LayoutUses, UsesJoin DEF OnHideRoot
  <1>5. <<"paint", Nothing>> \in X => Uses(OnPaint, X)
    BY <1>1, OpTypes, LockNames DEF OnPaint
  <1>6. <<"repaint", Nothing>> \in X => Uses(OnDpiChanged, X)
    BY LayoutUses, UsesJoin DEF OnDpiChanged
  <1>7. \A c \in Contexts : <<"setModel", c>> \in X /\ <<"draw", c>> \in X => Uses(OnUpdate(c), X)
    BY <1>2
  <1> QED BY <1>3, <1>4, <1>5, <1>6, <1>7

(* Something comes first in a critical section. *)
LEMMA FirstLocked ==
    ASSUME NEW m \in Locks, NEW body \in Seq(Ops), NEW X, NEW N, First(body, X, N),
           <<"take", m>> \notin N
    PROVE  First(Locked(m, body), X, N)
  <1> DEFINE t == <<<<"take", m>>>>
             d == <<<<"drop", m>>>>
  <1>1. t \in Seq(Ops) /\ d \in Seq(Ops) /\ Locked(m, body) = (t \o body) \o d
    BY OpTypes, OneOp DEF Locked
  <1>2. Avoids(t, N)
    BY AvoidsOne
  <1> HIDE DEF t, d
  <1>3. First(t \o body, X, N) /\ t \o body \in Seq(Ops)
    BY <1>1, <1>2, FirstRight, Joined
  <1> QED BY <1>1, <1>3, FirstLeft

LEMMA FirstInLocked ==
    ASSUME NEW m \in Locks, NEW x \in Ops, NEW X, NEW N, x \in X, <<"take", m>> \notin N
    PROVE  First(Locked(m, <<x>>), X, N)
  BY FirstOne, OneOp, FirstLocked

LEMMA LockedOps ==
    ASSUME NEW m \in Locks, NEW x \in Ops
    PROVE  \A i \in DOMAIN Locked(m, <<x>>) :
              Locked(m, <<x>>)[i] \in {<<"take", m>>, x, <<"drop", m>>}
  <1> DEFINE t == <<"take", m>>
             d == <<"drop", m>>
             a == <<t>> \o <<x>>
             s == a \o <<d>>
  <1>1. t \in Ops /\ d \in Ops
    BY OpTypes
  <1>2. Locked(m, <<x>>) = s
    BY DEF Locked
  <1> HIDE DEF t, d
  <1>3. \A i \in DOMAIN s : s[i] \in {t, x, d}
    <2>1. a \in Seq({t, x, d}) /\ <<d>> \in Seq({t, x, d})
      BY <1>1
    <2> QED BY <2>1
  <1> QED BY <1>2, <1>3 DEF t, d

(* What the IPC thread's commands do not do, and what they do.               *)
UiNames == {"setModel", "visible", "draw", "drawModel", "drawOwn", "repaint", "paint"}
ShowMessages == ({"show"} \X {Nothing}) \cup ({"showRoot"} \X Roots)
HideMessages == {"hide"} \X {Nothing}
Shows == {<<"visible", TRUE>>}
Hides == {<<"visible", FALSE>>}
HideRoots == {<<"hideRoot", Nothing>>}
ShowRoots == {"showRoot"} \X Roots
SetRoots == {"setRoot"} \X Roots
SetNone == {<<"setRoot", Nothing>>}

LEMMA BaseNames ==
    \A x \in Base : x[1] \in {"take", "drop", "clone", "measure", "place"}
  BY DEF Base, OpsOf

LEMMA VisibleNames == \A x : x \in Shows \/ x \in Hides => x[1] = "visible"
  <1>1. <<"visible", TRUE>>[1] = "visible" /\ <<"visible", FALSE>>[1] = "visible"
    OBVIOUS
  <1>2. ASSUME NEW x, x \in Shows \/ x \in Hides
        PROVE  x = <<"visible", TRUE>> \/ x = <<"visible", FALSE>>
    BY <1>2 DEF Shows, Hides
  <1> QED BY <1>1, <1>2, Zenon

(* The base does nothing of what the invariant watches for. *)
LEMMA BaseIsElse ==
    ASSUME NEW x \in Base
    PROVE  /\ x \notin OpsOf(UiNames) /\ x \notin OpsOf({"post"}) /\ x \notin OpsOf({"setRoot"})
           /\ x \notin SetRoots /\ \A M : x \notin {"post"} \X M
           /\ x \notin Shows /\ x \notin Hides
  BY BaseNames, VisibleNames DEF OpsOf, UiNames, SetRoots

(* The IPC thread's command ends with posting message m.                     *)
EndsWith(s, m) ==
    /\ Len(s) >= 2 /\ s[Len(s)] = <<"drop", "view">> /\ s[Len(s) - 1] = <<"post", m>>

LEMMA EndsLonger ==
    ASSUME NEW s \in Seq(Ops), NEW r \in Seq(Ops), NEW m, EndsWith(r, m) PROVE EndsWith(s \o r, m)
  <1> DEFINE q == s \o r
  <1>1. /\ Len(s) \in Nat /\ Len(r) \in Nat /\ Len(q) = Len(s) + Len(r)
        /\ \A k \in 1 .. Len(r) : q[Len(s) + k] = r[k]
    BY JoinedAt
  <1> HIDE DEF q
  <1>2. q[Len(s) + Len(r)] = r[Len(r)] /\ q[Len(s) + (Len(r) - 1)] = r[Len(r) - 1]
    <2>1. Len(r) \in 1 .. Len(r) /\ Len(r) - 1 \in 1 .. Len(r)
      BY <1>1 DEF EndsWith
    <2> QED BY <1>1, <2>1
  <1>3. Len(q) - 1 = Len(s) + (Len(r) - 1) /\ Len(q) >= 2
    BY <1>1 DEF EndsWith
  <1> QED BY <1>1, <1>2, <1>3 DEF EndsWith, q

LEMMA EndsUpdate == ASSUME NEW c \in Contexts PROVE EndsWith(Update(c), <<"update", c>>)
  <1> DEFINE p == <<"post", <<"update", c>>>>
             d == <<"drop", "view">>
             a == <<<<"take", "view">>>> \o <<p>>
             z == <<d>>
  <1>1. p \in Ops /\ d \in Ops /\ <<"take", "view">> \in Ops
    BY OpTypes, MessageTypes, LockNames
  <1>2. a \in Seq(Ops) /\ Len(a) = 2 /\ a[2] = p
    BY <1>1
  <1>3. z \in Seq(Ops) /\ Len(z) = 1 /\ z[1] = d
    BY <1>1
  <1>4. Update(c) = a \o z
    BY DEF Update, Locked
  <1> HIDE DEF p, d, a, z
  <1>5. /\ Len(a \o z) = Len(a) + Len(z)
        /\ \A k \in 1 .. Len(a) : (a \o z)[k] = a[k]
        /\ \A k \in 1 .. Len(z) : (a \o z)[Len(a) + k] = z[k]
    BY <1>2, <1>3, JoinedAt
  <1>6. Len(a \o z) = 3 /\ (a \o z)[3] = d /\ (a \o z)[2] = p
    BY <1>2, <1>3, <1>5
  <1>7. EndsWith(a \o z, <<"update", c>>)
    <2>1. (a \o z)[3] = <<"drop", "view">> /\ (a \o z)[2] = <<"post", <<"update", c>>>>
      BY <1>6 DEF p, d
    <2> QED BY <1>6, <2>1 DEF EndsWith
  <1> QED BY <1>4, <1>7

(* A list to show. *)
LEMMA ListCommand ==
    ASSUME NEW c \in Contexts
    PROVE  LET s == Show \o Update(c)
           IN  /\ s \in Seq(Ops)
               /\ Avoids(s, OpsOf(UiNames)) /\ Avoids(s, SetRoots) /\ Avoids(s, {"post"} \X ShowRoots)
               /\ Avoids(s, {"post"} \X HideMessages)
               /\ First(s, {"post"} \X ShowMessages, {})
               /\ EndsWith(s, <<"update", c>>)
  <1> DEFINE s == Show \o Update(c)
             X == {<<"post", <<"show", Nothing>>>>, <<"post", <<"update", c>>>>}
  <1>1. Uses(s, X)
    BY CommandUses, UsesJoin
  <1>2. \A x \in X : /\ x \notin OpsOf(UiNames) /\ x \notin SetRoots
                     /\ x \notin {"post"} \X ShowRoots /\ x \notin {"post"} \X HideMessages
    BY DEF OpsOf, UiNames, SetRoots, ShowRoots, ShowMessages, HideMessages
  <1>3. /\ Avoids(s, OpsOf(UiNames)) /\ Avoids(s, SetRoots) /\ Avoids(s, {"post"} \X ShowRoots)
        /\ Avoids(s, {"post"} \X HideMessages)
    <2> HIDE DEF s, X
    <2> QED BY <1>1, <1>2, BaseIsElse, UsesAvoids
  <1>4. First(s, {"post"} \X ShowMessages, {})
    <2> DEFINE p == <<<<"post", <<"show", Nothing>>>>>>
               h == Locked("view", <<>>) \o ApplyLayout
    <2>1. First(p, {"post"} \X ShowMessages, {})
      BY FirstOne DEF ShowMessages, HideMessages
    <2>2. h \in Seq(Ops) /\ p \in Seq(Ops) /\ Show = h \o p
      <3>1. <<"post", <<"show", Nothing>>>> \in Ops
        BY OpTypes, MessageTypes
      <3> QED BY <3>1, EmptyScript, LockedType, LockNames, LayoutType, Joined, OneOp DEF Show
    <2>3. Avoids(h, {})
      BY DEF Avoids
    <2> HIDE DEF h, p
    <2>4. First(Show, {"post"} \X ShowMessages, {})
      BY <2>1, <2>2, <2>3, FirstRight
    <2> QED BY <2>4, CommandTypes, FirstLeft
  <1>5. EndsWith(s, <<"update", c>>) /\ s \in Seq(Ops)
    BY EndsUpdate, EndsLonger, CommandTypes, Joined
  <1> QED BY <1>3, <1>4, <1>5

LEMMA HideCommand ==
    /\ Avoids(Hide, OpsOf(UiNames)) /\ Avoids(Hide, SetRoots) /\ Avoids(Hide, {"post"} \X ShowRoots)
    /\ Avoids(Hide, {"post"} \X ShowMessages)
    /\ First(Hide, {"post"} \X HideMessages, {})
  <1> DEFINE X == {<<"post", <<"hide", Nothing>>>>}
  <1>1. Uses(Hide, X)
    BY CommandUses
  <1>2. \A x \in X : /\ x \notin OpsOf(UiNames) /\ x \notin SetRoots
                     /\ x \notin {"post"} \X ShowRoots /\ x \notin {"post"} \X ShowMessages
    BY DEF OpsOf, UiNames, SetRoots, ShowRoots, ShowMessages, HideMessages
  <1>3. /\ Avoids(Hide, OpsOf(UiNames)) /\ Avoids(Hide, SetRoots)
        /\ Avoids(Hide, {"post"} \X ShowRoots) /\ Avoids(Hide, {"post"} \X ShowMessages)
    <2> HIDE DEF X
    <2> QED BY <1>1, <1>2, BaseIsElse, UsesAvoids
  <1>4. First(Hide, {"post"} \X HideMessages, {})
    <2>1. <<"post", <<"hide", Nothing>>>> \in {"post"} \X HideMessages
      BY DEF ShowMessages, HideMessages
    <2>2. <<"post", <<"hide", Nothing>>>> \in Ops
      BY OpTypes, MessageTypes
    <2> QED BY <2>1, <2>2, LockNames, FirstInLocked DEF Hide
  <1> QED BY <1>3, <1>4

LEMMA RootCommand ==
    ASSUME NEW r \in Roots
    PROVE  Avoids(ShowRoot(r), OpsOf(UiNames)) /\ Avoids(ShowRoot(r), {"post"} \X HideMessages)
  <1> DEFINE X == {<<"setRoot", r>>, <<"post", <<"showRoot", r>>>>}
  <1>1. Uses(ShowRoot(r), X)
    BY CommandUses
  <1>2. \A x \in X : x \notin OpsOf(UiNames) /\ x \notin {"post"} \X HideMessages
    BY DEF OpsOf, UiNames, ShowMessages, HideMessages
  <1> HIDE DEF X
  <1> QED BY <1>1, <1>2, BaseIsElse, UsesAvoids

LEMMA HideRootCommand ==
    /\ Avoids(HideRoot, OpsOf(UiNames)) /\ Avoids(HideRoot, SetRoots)
    /\ Avoids(HideRoot, {"post"} \X ShowRoots)
    /\ Avoids(HideRoot, {"post"} \X ShowMessages) /\ Avoids(HideRoot, {"post"} \X HideMessages)
    /\ First(HideRoot, {"post"} \X HideRoots, {})
  <1> DEFINE X == {<<"setRoot", Nothing>>, <<"post", <<"hideRoot", Nothing>>>>}
  <1>1. Uses(HideRoot, X)
    BY CommandUses
  <1>2. \A x \in X : /\ x \notin OpsOf(UiNames) /\ x \notin SetRoots /\ x \notin {"post"} \X ShowRoots
                     /\ x \notin {"post"} \X ShowMessages /\ x \notin {"post"} \X HideMessages
    BY NothingAssumption DEF OpsOf, UiNames, SetRoots, ShowRoots, ShowMessages, HideMessages
  <1>3. /\ Avoids(HideRoot, OpsOf(UiNames)) /\ Avoids(HideRoot, SetRoots)
        /\ Avoids(HideRoot, {"post"} \X ShowRoots)
        /\ Avoids(HideRoot, {"post"} \X ShowMessages) /\ Avoids(HideRoot, {"post"} \X HideMessages)
    <2> HIDE DEF X
    <2> QED BY <1>1, <1>2, BaseIsElse, UsesAvoids
  <1>4. First(HideRoot, {"post"} \X HideRoots, {})
    <2> DEFINE p == <<<<"post", <<"hideRoot", Nothing>>>>>>
               h == Locked("root", <<<<"setRoot", Nothing>>>>)
    <2>1. First(p, {"post"} \X HideRoots, {})
      BY FirstOne DEF HideRoots
    <2>2. h \in Seq(Ops) /\ p \in Seq(Ops) /\ HideRoot = Locked("view", h \o p)
      <3>1. <<"post", <<"hideRoot", Nothing>>>> \in Ops /\ <<"setRoot", Nothing>> \in Ops
        BY OpTypes, MessageTypes
      <3> QED BY <3>1, LockedType, LockNames, OneOp DEF HideRoot
    <2> HIDE DEF h, p
    <2>3. First(h \o p, {"post"} \X HideRoots, {})
      <3>1. Avoids(h, {})
        BY DEF Avoids
      <3> QED BY <2>1, <2>2, <3>1, FirstRight
    <2> QED BY <2>2, <2>3, Joined, LockNames, FirstLocked
  <1> QED BY <1>3, <1>4

(* What the UI thread's handlers do not do, and what they do.                *)
LEMMA MessageCases ==
    ASSUME NEW m \in Messages
    PROVE  \/ m = <<"show", Nothing>> \/ m = <<"hide", Nothing>> \/ m = <<"hideRoot", Nothing>>
           \/ \E c \in Contexts : m = <<"update", c>>
           \/ \E r \in Roots : m = <<"showRoot", r>>
  BY DEF Messages

LEMMA HandlerOf ==
    /\ Handler(<<"show", Nothing>>) = <<<<"visible", TRUE>>>>
    /\ Handler(<<"hide", Nothing>>) = <<<<"visible", FALSE>>>>
    /\ Handler(<<"hideRoot", Nothing>>) = OnHideRoot
    /\ \A c : Handler(<<"update", c>>) = OnUpdate(c)
    /\ \A r : Handler(<<"showRoot", r>>) = OnShowRoot(r)
  BY DEF Handler

LEMMA ShownNotHidden == <<"visible", TRUE>> # <<"visible", FALSE>>
  OBVIOUS

(* Showing, or hiding, the window, and nothing else. *)
LEMMA ShowHandler ==
    LET s == Handler(<<"show", Nothing>>)
    IN  Avoids(s, OpsOf({"post"})) /\ Avoids(s, Hides) /\ Avoids(s, SetRoots) /\ First(s, Shows, {})
  <1>1. /\ <<"visible", TRUE>> \notin OpsOf({"post"}) /\ <<"visible", TRUE>> \notin Hides
        /\ <<"visible", TRUE>> \notin SetRoots /\ <<"visible", TRUE>> \in Shows
    BY ShownNotHidden DEF OpsOf, Hides, SetRoots, Shows
  <1> QED BY <1>1, HandlerOf, AvoidsOne, FirstOne

LEMMA HideHandler ==
    LET s == Handler(<<"hide", Nothing>>)
    IN  Avoids(s, OpsOf({"post"})) /\ Avoids(s, Shows) /\ Avoids(s, SetRoots) /\ First(s, Hides, {})
  <1>1. /\ <<"visible", FALSE>> \notin OpsOf({"post"}) /\ <<"visible", FALSE>> \notin Shows
        /\ <<"visible", FALSE>> \notin SetRoots /\ <<"visible", FALSE>> \in Hides
    BY ShownNotHidden DEF OpsOf, Hides, SetRoots, Shows
  <1> QED BY <1>1, HandlerOf, AvoidsOne, FirstOne

LEMMA HideRootHandler ==
    LET s == Handler(<<"hideRoot", Nothing>>)
    IN  /\ Avoids(s, OpsOf({"post"})) /\ Avoids(s, Shows) /\ Avoids(s, Hides) /\ Avoids(s, SetRoots)
        /\ First(s, SetNone, {})
  <1> DEFINE X == {<<"setRoot", Nothing>>, <<"repaint", Nothing>>}
  <1>1. Uses(OnHideRoot, X)
    BY HandlerUses
  <1>2. \A x \in X : /\ x \notin OpsOf({"post"}) /\ x \notin Shows /\ x \notin Hides
                     /\ x \notin SetRoots
    BY NothingAssumption, VisibleNames DEF OpsOf, SetRoots
  <1>3. /\ Avoids(OnHideRoot, OpsOf({"post"})) /\ Avoids(OnHideRoot, Shows)
        /\ Avoids(OnHideRoot, Hides) /\ Avoids(OnHideRoot, SetRoots)
    <2> HIDE DEF X
    <2> QED BY <1>1, <1>2, BaseIsElse, UsesAvoids
  <1>4. First(OnHideRoot, SetNone, {})
    <2> DEFINE h == Locked("root", <<<<"setRoot", Nothing>>>>)
    <2>1. <<"setRoot", Nothing>> \in SetNone /\ <<"setRoot", Nothing>> \in Ops
      BY OpTypes DEF SetNone
    <2>2. <<"take", "root">> \notin {}
      OBVIOUS
    <2>3. h \in Seq(Ops) /\ First(h, SetNone, {})
      BY <2>1, <2>2, OneOp, LockedType, LockNames, FirstInLocked
    <2>4. OnHideRoot = (h \o ApplyLayout) \o RepaintCurrent
      BY DEF OnHideRoot
    <2> HIDE DEF h
    <2>5. First(h \o ApplyLayout, SetNone, {}) /\ h \o ApplyLayout \in Seq(Ops)
      BY <2>3, LayoutType, Joined, FirstLeft
    <2> QED BY <2>4, <2>5, LayoutType, FirstLeft
  <1> QED BY <1>3, <1>4, HandlerOf

LEMMA ShowRootHandler ==
    ASSUME NEW r \in Roots
    PROVE  LET s == Handler(<<"showRoot", r>>)
           IN  Avoids(s, OpsOf({"post"})) /\ Avoids(s, Hides) /\ First(s, Shows, {})
  <1> DEFINE X == {<<"setRoot", r>>, <<"draw", r>>, <<"visible", TRUE>>}
  <1>1. Uses(OnShowRoot(r), X)
    BY HandlerUses
  <1>2. \A x \in X : x \notin OpsOf({"post"}) /\ x \notin Hides
    <2>1. <<"visible", TRUE>> \notin OpsOf({"post"}) /\ <<"visible", TRUE>> \notin Hides
      BY ShownNotHidden DEF OpsOf, Hides
    <2>2. /\ <<"setRoot", r>> \notin OpsOf({"post"}) /\ <<"setRoot", r>> \notin Hides
          /\ <<"draw", r>> \notin OpsOf({"post"}) /\ <<"draw", r>> \notin Hides
      BY VisibleNames DEF OpsOf
    <2> QED BY <2>1, <2>2
  <1>3. Avoids(OnShowRoot(r), OpsOf({"post"})) /\ Avoids(OnShowRoot(r), Hides)
    <2> HIDE DEF X
    <2> QED BY <1>1, <1>2, BaseIsElse, UsesAvoids
  <1>4. First(OnShowRoot(r), Shows, {})
    <2> DEFINE p == <<<<"visible", TRUE>>>>
               h == (Locked("root", <<<<"setRoot", r>>>>) \o ApplyLayout)
                      \o Locked("view", <<<<"draw", r>>>>)
    <2>1. First(p, Shows, {}) /\ p \in Seq(Ops)
      <3>1. <<"visible", TRUE>> \in Shows /\ <<"visible", TRUE>> \in Ops
        BY OpTypes DEF Shows
      <3> QED BY <3>1, OneOp, FirstOne
    <2>2. OnShowRoot(r) = h \o p
      BY DEF OnShowRoot
    <2>3. h \in Seq(Ops)
      <3>1. /\ Locked("root", <<<<"setRoot", r>>>>) \in Seq(Ops)
            /\ Locked("view", <<<<"draw", r>>>>) \in Seq(Ops)
        BY OpTypes, OneOp, LockedType, LockNames
      <3> QED BY <3>1, LayoutType, Joined
    <2>4. Avoids(h, {})
      BY DEF Avoids
    <2> HIDE DEF h, p
    <2> QED BY <2>1, <2>2, <2>3, <2>4, FirstRight
  <1> QED BY <1>3, <1>4, HandlerOf

(* The handler u, from here on, leaves the window with list c in it.         *)
Models == {"setModel"} \X Contexts
Draws == {"draw"} \X (Contexts \cup Roots)
OtherModels(c) == Models \ {<<"setModel", c>>}
OtherDraws(c) == Draws \ {<<"draw", c>>}
Reads == OpsOf({"measure", "repaint", "paint", "drawModel", "drawOwn"})

LEMMA UpdateHandler ==
    ASSUME NEW c \in Contexts
    PROVE  LET s == Handler(<<"update", c>>)
           IN  /\ Avoids(s, OpsOf({"post"})) /\ Avoids(s, Shows) /\ Avoids(s, Hides)
               /\ Avoids(s, OpsOf({"setRoot"})) /\ Avoids(s, SetRoots)
               /\ Avoids(s, OtherModels(c)) /\ Avoids(s, OtherDraws(c))
               /\ First(s, Models, Reads)
               /\ First(s, OpsOf({"clone"}), OpsOf({"measure", "repaint"}))
               /\ First(s, OpsOf({"measure"}), OpsOf({"place", "draw", "repaint", "drawModel"}))
               /\ First(s, OpsOf({"place"}), {})
               /\ First(s, Draws, {})
  <1> DEFINE X == {<<"setModel", c>>, <<"draw", c>>}
  <1>1. Uses(OnUpdate(c), X)
    BY HandlerUses
  <1>2. \A x \in X : /\ x \notin OpsOf({"post"}) /\ x \notin Shows /\ x \notin Hides
                     /\ x \notin OpsOf({"setRoot"}) /\ x \notin SetRoots
                     /\ x \notin OtherModels(c) /\ x \notin OtherDraws(c)
    BY VisibleNames DEF OpsOf, SetRoots, OtherModels, OtherDraws, Models, Draws
  <1>3. \A x \in Base : x \notin OtherModels(c) /\ x \notin OtherDraws(c)
    BY BaseNames DEF OtherModels, OtherDraws, Models, Draws
  <1>4. /\ Avoids(OnUpdate(c), OpsOf({"post"})) /\ Avoids(OnUpdate(c), Shows)
        /\ Avoids(OnUpdate(c), Hides)
        /\ Avoids(OnUpdate(c), OpsOf({"setRoot"})) /\ Avoids(OnUpdate(c), SetRoots)
        /\ Avoids(OnUpdate(c), OtherModels(c)) /\ Avoids(OnUpdate(c), OtherDraws(c))
    <2> HIDE DEF X
    <2> QED BY <1>1, <1>2, <1>3, BaseIsElse, UsesAvoids
  <1> DEFINE h == Locked("model", <<<<"setModel", c>>>>)
             v == Locked("view", <<<<"draw", c>>>>)
             k == Locked("root", <<<<"clone", Nothing>>>>)
             m == Locked("model", Locked("view", <<<<"measure", Nothing>>>>))
             p == <<<<"place", Nothing>>>>
             vm == Locked("view", <<<<"measure", Nothing>>>>)
  <1>5. /\ h \in Seq(Ops) /\ v \in Seq(Ops) /\ k \in Seq(Ops) /\ m \in Seq(Ops) /\ p \in Seq(Ops)
        /\ vm \in Seq(Ops)
    <2>1. vm \in Seq(Ops)
      BY OpTypes, OneOp, LockedType, LockNames
    <2> QED BY <2>1, OpTypes, OneOp, LockedType, LockNames
  <1>6. First(h, Models, Reads) /\ Avoids(h, OpsOf({"measure", "repaint"}))
        /\ Avoids(h, OpsOf({"place", "draw", "repaint", "drawModel"}))
    <2>1. <<"setModel", c>> \in Models /\ <<"setModel", c>> \in Ops
      BY OpTypes DEF Models
    <2>2. <<"take", "model">> \notin Reads
      BY DEF Reads, OpsOf
    <2>3. First(h, Models, Reads)
      BY <2>1, <2>2, LockNames, FirstInLocked
    <2>4. Uses(h, {<<"setModel", c>>})
      BY <2>1, UsesLockedOne, LockNames
    <2> DEFINE Ns == OpsOf({"measure", "repaint"})
               Np == OpsOf({"place", "draw", "repaint", "drawModel"})
    <2>5. \A i \in DOMAIN h : h[i] \in {<<"take", "model">>, <<"setModel", c>>, <<"drop", "model">>}
      BY <2>1, LockedOps, LockNames
    <2>6. \A x \in {<<"take", "model">>, <<"setModel", c>>, <<"drop", "model">>} :
            x \notin Ns /\ x \notin Np
      BY DEF OpsOf
    <2>7. Avoids(h, Ns) /\ Avoids(h, Np)
      BY <2>5, <2>6 DEF Avoids
    <2> QED BY <2>3, <2>7
  <1>7. /\ First(k, OpsOf({"clone"}), OpsOf({"measure", "repaint"}))
        /\ Avoids(k, OpsOf({"place", "draw", "repaint", "drawModel"}))
    <2>1. <<"clone", Nothing>> \in OpsOf({"clone"}) /\ <<"clone", Nothing>> \in Ops
      BY OpTypes DEF OpsOf
    <2>2. <<"take", "root">> \notin OpsOf({"measure", "repaint"})
      BY DEF OpsOf
    <2>3. \A i \in DOMAIN k : k[i] \in {<<"take", "root">>, <<"clone", Nothing>>, <<"drop", "root">>}
      BY <2>1, LockedOps, LockNames
    <2>4. \A x \in {<<"take", "root">>, <<"clone", Nothing>>, <<"drop", "root">>} :
            x \notin OpsOf({"place", "draw", "repaint", "drawModel"})
      BY DEF OpsOf
    <2> QED BY <2>1, <2>2, <2>3, <2>4, LockNames, FirstInLocked DEF Avoids
  <1>8. First(m, OpsOf({"measure"}), OpsOf({"place", "draw", "repaint", "drawModel"}))
    <2> DEFINE N == OpsOf({"place", "draw", "repaint", "drawModel"})
    <2>1. <<"measure", Nothing>> \in OpsOf({"measure"}) /\ <<"measure", Nothing>> \in Ops
      BY OpTypes DEF OpsOf
    <2>2. <<"take", "model">> \notin N /\ <<"take", "view">> \notin N
      BY DEF OpsOf
    <2> HIDE DEF N
    <2>3. First(vm, OpsOf({"measure"}), N)
      BY <2>1, <2>2, LockNames, FirstInLocked
    <2>4. First(m, OpsOf({"measure"}), N)
      BY <1>5, <2>2, <2>3, LockNames, FirstLocked
    <2> QED BY <2>4 DEF N
  <1>9. First(p, OpsOf({"place"}), {}) /\ First(v, Draws, {})
    <2>1. /\ <<"place", Nothing>> \in OpsOf({"place"}) /\ <<"draw", c>> \in Draws
          /\ <<"draw", c>> \in Ops
      BY OpTypes DEF OpsOf, Draws
    <2> QED BY <2>1, FirstOne, FirstInLocked, LockNames
  <1>10. OnUpdate(c) = (h \o ((k \o m) \o p)) \o v
    BY DEF OnUpdate, ApplyLayout
  <1> HIDE DEF X, h, v, k, m, p, vm
  <1> DEFINE a == (k \o m) \o p
             s == (h \o a) \o v
  <1>11. k \o m \in Seq(Ops) /\ a \in Seq(Ops) /\ h \o a \in Seq(Ops)
    BY <1>5, Joined
  <1>12. First(s, Models, Reads)
    BY <1>5, <1>6, <1>11, FirstLeft
  <1>13. First(s, OpsOf({"clone"}), OpsOf({"measure", "repaint"}))
    <2>1. First(k \o m, OpsOf({"clone"}), OpsOf({"measure", "repaint"}))
      BY <1>5, <1>7, FirstLeft
    <2>2. First(a, OpsOf({"clone"}), OpsOf({"measure", "repaint"}))
      BY <1>5, <1>11, <2>1, FirstLeft
    <2>3. First(h \o a, OpsOf({"clone"}), OpsOf({"measure", "repaint"}))
      BY <1>5, <1>6, <1>11, <2>2, FirstRight
    <2> QED BY <1>5, <1>11, <2>3, FirstLeft
  <1>14. First(s, OpsOf({"measure"}), OpsOf({"place", "draw", "repaint", "drawModel"}))
    <2> DEFINE N == OpsOf({"place", "draw", "repaint", "drawModel"})
    <2>1. First(k \o m, OpsOf({"measure"}), N)
      BY <1>5, <1>7, <1>8, FirstRight
    <2>2. First(a, OpsOf({"measure"}), N)
      BY <1>5, <1>11, <2>1, FirstLeft
    <2>3. First(h \o a, OpsOf({"measure"}), N)
      BY <1>5, <1>6, <1>11, <2>2, FirstRight
    <2> QED BY <1>5, <1>11, <2>3, FirstLeft
  <1>15. First(s, OpsOf({"place"}), {}) /\ First(s, Draws, {})
    <2>1. \A z : Avoids(z, {})
      BY DEF Avoids
    <2>2. First(a, OpsOf({"place"}), {})
      BY <1>5, <1>9, <1>11, <2>1, FirstRight
    <2>3. First(h \o a, OpsOf({"place"}), {})
      BY <1>5, <1>11, <2>1, <2>2, FirstRight
    <2> QED BY <1>5, <1>9, <1>11, <2>1, <2>3, FirstLeft, FirstRight
  <1> QED BY <1>4, <1>10, <1>12, <1>13, <1>14, <1>15, HandlerOf

LEMMA HandlersDo ==
    ASSUME NEW m \in Messages
    PROVE  /\ Avoids(Handler(m), OpsOf({"post"}))
           /\ m \in ShowMessages => First(Handler(m), Shows, {})
           /\ m \in HideMessages => First(Handler(m), Hides, {})
           /\ m \notin ShowMessages => Avoids(Handler(m), Shows)
           /\ m \notin HideMessages => Avoids(Handler(m), Hides)
           /\ m \in HideRoots => First(Handler(m), SetNone, {})
           /\ m \notin ShowRoots => Avoids(Handler(m), SetRoots)
  <1>1. CASE m = <<"show", Nothing>>
    <2>1. m \in ShowMessages /\ m \notin HideMessages /\ m \notin HideRoots
      BY <1>1 DEF ShowMessages, HideMessages, HideRoots
    <2> QED BY <1>1, <2>1, ShowHandler
  <1>2. CASE m = <<"hide", Nothing>>
    <2>1. m \notin ShowMessages /\ m \in HideMessages /\ m \notin HideRoots
      BY <1>2 DEF ShowMessages, HideMessages, HideRoots
    <2> QED BY <1>2, <2>1, HideHandler
  <1>3. CASE m = <<"hideRoot", Nothing>>
    <2>1. m \notin ShowMessages /\ m \notin HideMessages
      BY <1>3 DEF ShowMessages, HideMessages
    <2> QED BY <1>3, <2>1, HideRootHandler
  <1>4. ASSUME NEW c \in Contexts, m = <<"update", c>>
        PROVE  /\ Avoids(Handler(m), OpsOf({"post"})) /\ Avoids(Handler(m), Shows)
               /\ Avoids(Handler(m), Hides) /\ Avoids(Handler(m), SetRoots)
               /\ m \notin ShowMessages /\ m \notin HideMessages /\ m \notin HideRoots
    <2>1. m \notin ShowMessages /\ m \notin HideMessages /\ m \notin HideRoots
      BY <1>4 DEF ShowMessages, HideMessages, HideRoots
    <2> QED BY <1>4, <2>1, UpdateHandler
  <1>5. ASSUME NEW r \in Roots, m = <<"showRoot", r>>
        PROVE  /\ Avoids(Handler(m), OpsOf({"post"})) /\ First(Handler(m), Shows, {})
               /\ Avoids(Handler(m), Hides)
               /\ m \in ShowMessages /\ m \notin HideMessages /\ m \notin HideRoots /\ m \in ShowRoots
    <2>1. m \in ShowMessages /\ m \notin HideMessages /\ m \notin HideRoots /\ m \in ShowRoots
      BY <1>5 DEF ShowMessages, HideMessages, HideRoots, ShowRoots
    <2> QED BY <1>5, <2>1, ShowRootHandler
  <1> QED BY <1>1, <1>2, <1>3, <1>4, <1>5, MessageCases

(* A script that shows, hides and changes nothing of a model. *)
Harmless(s) ==
    /\ s \in Seq(Ops)
    /\ Avoids(s, OpsOf({"post"})) /\ Avoids(s, Shows) /\ Avoids(s, Hides)
    /\ Avoids(s, OpsOf({"setRoot"})) /\ Avoids(s, SetRoots) /\ Avoids(s, Models) /\ Avoids(s, Draws)

LEMMA NothingHarmless == Harmless(<<>>)
  BY EmptyAvoids, EmptyScript DEF Harmless

LEMMA HarmlessOps ==
    ASSUME NEW s, NEW X, Uses(s, X), \A x \in X : x[1] \in {"repaint", "paint", "drawModel", "drawOwn"}
    PROVE  Harmless(s)
  <1>1. \A x \in Base \cup X :
           x[1] \in {"take", "drop", "clone", "measure", "place",
                     "repaint", "paint", "drawModel", "drawOwn"}
    BY BaseNames
  <1>2. \A x \in Base \cup X :
           /\ x \notin OpsOf({"post"}) /\ x \notin Shows /\ x \notin Hides
           /\ x \notin OpsOf({"setRoot"}) /\ x \notin SetRoots /\ x \notin Models /\ x \notin Draws
    BY <1>1, VisibleNames DEF OpsOf, SetRoots, Models, Draws
  <1>3. /\ Avoids(s, OpsOf({"post"})) /\ Avoids(s, Shows) /\ Avoids(s, Hides)
        /\ Avoids(s, OpsOf({"setRoot"})) /\ Avoids(s, SetRoots) /\ Avoids(s, Models)
        /\ Avoids(s, Draws)
    BY <1>2, UsesAvoids
  <1> QED BY <1>3 DEF Harmless, Uses

LEMMA PaintHarmless == Harmless(OnPaint) /\ Harmless(OnDpiChanged)
  <1>1. Uses(OnPaint, {<<"paint", Nothing>>}) /\ Uses(OnDpiChanged, {<<"repaint", Nothing>>})
    BY HandlerUses
  <1> QED BY <1>1, HarmlessOps

DrawsModel == Locked("model", <<<<"drawModel", Nothing>>>>)
DrawsOwn == Locked("view", <<<<"drawOwn", Nothing>>>>)
LEMMA BranchesHarmless ==
    /\ Harmless(DrawsModel) /\ Harmless(DrawsOwn)
    /\ Avoids(DrawsOwn, OpsOf({"place", "draw", "repaint", "drawModel"}))
    /\ Avoids(DrawsOwn, OpsOf({"measure", "repaint"}))
  <1>1. /\ Uses(DrawsModel, {<<"drawModel", Nothing>>})
        /\ Uses(DrawsOwn, {<<"drawOwn", Nothing>>})
    <2>1. <<"drawModel", Nothing>> \in Ops /\ <<"drawOwn", Nothing>> \in Ops
      BY OpTypes
    <2>2. /\ <<"drawModel", Nothing>> \in Base \cup {<<"drawModel", Nothing>>}
          /\ <<"drawOwn", Nothing>> \in Base \cup {<<"drawOwn", Nothing>>}
      OBVIOUS
    <2> QED BY <2>1, <2>2, UsesLockedOne, LockNames DEF DrawsModel, DrawsOwn
  <1>2. \A i \in DOMAIN DrawsOwn :
           DrawsOwn[i] \in {<<"take", "view">>, <<"drawOwn", Nothing>>, <<"drop", "view">>}
    <2>1. <<"drawOwn", Nothing>> \in Ops
      BY OpTypes
    <2> QED BY <2>1, LockedOps, LockNames DEF DrawsOwn
  <1>3. \A x \in {<<"take", "view">>, <<"drawOwn", Nothing>>, <<"drop", "view">>} :
           /\ x \notin OpsOf({"place", "draw", "repaint", "drawModel"})
           /\ x \notin OpsOf({"measure", "repaint"})
    BY DEF OpsOf
  <1> QED BY <1>1, <1>2, <1>3, HarmlessOps DEF Avoids

-----------------------------------------------------------------------------
(* What a step does. *)

(* Each thread's operations, of those both could do.                         *)
PartsInv == Avoids(todo["ipc"], OpsOf(UiNames)) /\ Avoids(todo["ui"], OpsOf({"post"}))

LEMMA HeadOp ==
    ASSUME TypeInv, NEW t \in Threads, todo[t] # <<>>
    PROVE  /\ todo[t] \in Seq(Ops) /\ Head(todo[t]) \in Ops
           /\ \A u \in Threads : \A more : Rest(u, more) =>
                 todo' = [todo EXCEPT ![u] = more \o Tail(todo[u])]
           /\ <<>> \o Tail(todo[t]) = Tail(todo[t])
  <1>1. todo[t] \in Seq(Ops) /\ todo \in [Threads -> Seq(Ops)]
    BY DEF TypeInv
  <1> QED BY <1>1 DEF Rest

Drawn(h) ==
    IF h[1] = "draw" THEN [shows |-> h[2], fit |-> metrics["ui"]]
    ELSE IF h[1] = "repaint" /\ seen["ui"] # Nothing
         THEN [shows |-> seen["ui"], fit |-> metrics["ui"]]
    ELSE IF h[1] = "drawModel" /\ model # Nothing THEN [shows |-> model, fit |-> metrics["ui"]]
    ELSE IF h[1] = "drawOwn" THEN [shows |-> model, fit |-> model]
    ELSE painted

UiDoes(h) ==
    /\ model' = IF h[1] = "setModel" THEN h[2] ELSE model
    /\ rootModel' = IF h[1] = "setRoot" THEN h[2] ELSE rootModel
    /\ seen'["ui"] = IF h[1] = "clone" THEN rootModel ELSE seen["ui"]
    /\ metrics'["ui"] = IF h[1] # "measure" THEN metrics["ui"]
                        ELSE IF seen["ui"] # Nothing THEN seen["ui"] ELSE model
    /\ size' = IF h[1] = "place" THEN metrics["ui"] ELSE size
    /\ painted' = Drawn(h)

UiGoes(h) ==
    \E more \in {<<>>, DrawsModel, DrawsOwn} :
        /\ todo' = [todo EXCEPT !["ui"] = more \o Tail(todo["ui"])]
        /\ more = DrawsModel => h[1] = "repaint" /\ seen["ui"] = Nothing
        /\ more = DrawsOwn => h[1] = "paint"

UiVisible(h) ==
    /\ h[1] = "visible" => visible' = h[2]
    /\ h[1] # "visible" => visible' = visible

LEMMA LockedLonger ==
    ASSUME NEW m \in Locks, NEW x \in Ops
    PROVE  Len(Locked(m, <<x>>)) # 0 /\ Locked(m, <<x>>)[1] = <<"take", m>>
                                     /\ Locked(m, <<x>>) # <<>>
  <1> DEFINE t == <<<<"take", m>>>>
             r == <<x>> \o <<<<"drop", m>>>>
  <1>1. t \in Seq(Ops) /\ <<x>> \in Seq(Ops) /\ <<<<"drop", m>>>> \in Seq(Ops)
    BY OpTypes, OneOp
  <1>2. Locked(m, <<x>>) = (t \o <<x>>) \o <<<<"drop", m>>>>
    BY DEF Locked
  <1> QED BY <1>1, <1>2

LEMMA DrawScriptsDiffer == DrawsModel # DrawsOwn /\ DrawsModel # <<>> /\ DrawsOwn # <<>>
  <1>1. <<"drawModel", Nothing>> \in Ops /\ <<"drawOwn", Nothing>> \in Ops
    BY OpTypes
  <1>2. /\ DrawsModel[1] = <<"take", "model">> /\ DrawsOwn[1] = <<"take", "view">>
        /\ DrawsModel # <<>> /\ DrawsOwn # <<>>
    BY <1>1, LockNames, LockedLonger DEF DrawsModel, DrawsOwn
  <1> QED BY <1>2

LEMMA UiStep ==
    ASSUME TypeInv, PartsInv, Step("ui")
    PROVE  /\ todo["ui"] # <<>>
           /\ \E h \in Ops : h = Head(todo["ui"]) /\ UiDoes(h) /\ UiGoes(h) /\ UiVisible(h)
           /\ queue' = queue /\ moves' = moves
           /\ engine' = engine /\ ctrlDown' = ctrlDown /\ wanted' = wanted
  <1>1. "ui" \in Threads
    BY DEF Threads
  <1>2. todo["ui"] # <<>>
    BY DEF Step, Take, Drop, Data, SetModel, SetRoot, Clone, Measure, Surface, Place, Post,
           ShowOrHide, Draw, DrawSeen, DrawModel, DrawOwn, Branch, Op
  <1> DEFINE h == Head(todo["ui"])
  <1>3. /\ h \in Ops /\ todo["ui"] \in Seq(Ops) /\ <<>> \o Tail(todo["ui"]) = Tail(todo["ui"])
        /\ \A more : Rest("ui", more) => todo' = [todo EXCEPT !["ui"] = more \o Tail(todo["ui"])]
    BY <1>1, <1>2, HeadOp
  <1>4. \A name : Op("ui", name) => h[1] = name
    BY DEF Op
  <1>5. Arg("ui") = h[2]
    BY DEF Arg
  <1>6. h[1] # "post"
    <2>1. h \notin OpsOf({"post"})
      BY <1>2, <1>3, TailAvoids DEF PartsInv
    <2> QED BY <1>3, <2>1 DEF OpsOf
  <1>7. seen \in [Threads -> Roots \cup {Nothing}] /\ metrics \in [Threads -> Content]
    BY DEF TypeInv, TypeOK
  <1> HIDE DEF h
  <1>8. ASSUME Rest("ui", <<>>) PROVE UiGoes(h)
    <2>1. todo' = [todo EXCEPT !["ui"] = <<>> \o Tail(todo["ui"])]
      BY <1>3, <1>8
    <2> QED BY <2>1, DrawScriptsDiffer DEF UiGoes
  <1>9. CASE Take("ui") \/ Drop("ui")
    <2>1. h[1] \in {"take", "drop"}
      BY <1>4, <1>9 DEF Take, Drop
    <2>2. /\ UNCHANGED <<model, rootModel, seen, metrics, size, painted, visible, queue, moves>>
          /\ UNCHANGED <<engine, ctrlDown, wanted>>
      BY <1>9 DEF Take, Drop
    <2>3. UiDoes(h) /\ UiVisible(h)
      BY <2>1, <2>2 DEF UiDoes, UiVisible, Drawn
    <2>4. UiGoes(h)
      BY <1>8, <1>9 DEF Take, Drop
    <2> QED BY <1>2, <1>3, <2>2, <2>3, <2>4 DEF h
  <1>10. CASE Data("ui")
    <2>1. /\ UNCHANGED <<size, painted, visible, queue, moves>>
          /\ UNCHANGED <<engine, ctrlDown, wanted>>
      BY <1>10 DEF Data
    <2>2. CASE SetModel("ui")
      <3>1. h[1] = "setModel"
        BY <1>4, <2>2 DEF SetModel
      <3> QED BY <1>2, <1>3, <1>5, <1>8, <1>10, <2>1, <2>2, <3>1
              DEF Data, SetModel, UiDoes, UiVisible, Drawn, h
    <2>3. CASE SetRoot("ui")
      <3>1. h[1] = "setRoot"
        BY <1>4, <2>3 DEF SetRoot
      <3> QED BY <1>2, <1>3, <1>5, <1>8, <1>10, <2>1, <2>3, <3>1
              DEF Data, SetRoot, UiDoes, UiVisible, Drawn, h
    <2>4. CASE Clone("ui")
      <3>1. h[1] = "clone"
        BY <1>4, <2>4 DEF Clone
      <3>2. seen'["ui"] = rootModel
        BY <1>1, <1>7, <2>4 DEF Clone
      <3> QED BY <1>2, <1>3, <1>5, <1>8, <1>10, <2>1, <2>4, <3>1, <3>2
              DEF Data, Clone, UiDoes, UiVisible, Drawn, h
    <2>5. CASE Measure("ui")
      <3>1. h[1] = "measure"
        BY <1>4, <2>5 DEF Measure
      <3>2. metrics'["ui"] = IF seen["ui"] # Nothing THEN seen["ui"] ELSE model
        BY <1>1, <1>7, <2>5 DEF Measure
      <3> QED BY <1>2, <1>3, <1>5, <1>8, <1>10, <2>1, <2>5, <3>1, <3>2
              DEF Data, Measure, UiDoes, UiVisible, Drawn, h
    <2> QED BY <1>10, <2>2, <2>3, <2>4, <2>5 DEF Data
  <1>11. CASE Surface("ui")
    <2>1. /\ UNCHANGED <<model, rootModel, seen, metrics, engine, ctrlDown, wanted>>
          /\ UiGoes(h)
      BY <1>8, <1>11 DEF Surface
    <2>2. ~Post("ui")
      BY <1>4, <1>6 DEF Post
    <2>3. /\ queue' = queue /\ moves' = moves
          /\ UiVisible(h)
      <3>1. CASE ShowOrHide("ui")
        <4>1. h[1] = "visible" /\ visible' = h[2] /\ queue' = queue /\ moves' = moves
          BY <1>4, <1>5, <3>1 DEF ShowOrHide
        <4> QED BY <4>1 DEF UiVisible
      <3>2. CASE ~ShowOrHide("ui")
        <4>1. h[1] # "visible"
          BY <1>4, <1>11, <2>2, <3>2 DEF Surface, Place, Draw, DrawSeen, DrawModel, DrawOwn
        <4>2. visible' = visible /\ queue' = queue /\ moves' = moves
          BY <1>11, <2>2, <3>2 DEF Surface, Place, Draw, DrawSeen, DrawModel, DrawOwn
        <4> QED BY <4>1, <4>2 DEF UiVisible
      <3> QED BY <3>1, <3>2
    <2>4. UiDoes(h)
      <3>1. CASE Place("ui")
        <4>1. h[1] = "place" /\ size' = metrics["ui"] /\ painted' = painted
          BY <1>4, <3>1 DEF Place
        <4> QED BY <2>1, <4>1 DEF UiDoes, Drawn
      <3>2. CASE ShowOrHide("ui")
        <4>1. h[1] = "visible" /\ size' = size /\ painted' = painted
          BY <1>4, <3>2 DEF ShowOrHide
        <4> QED BY <2>1, <4>1 DEF UiDoes, Drawn
      <3>3. CASE Draw("ui")
        <4>1. h[1] = "draw" /\ size' = size /\ painted' = [shows |-> h[2], fit |-> metrics["ui"]]
          BY <1>4, <1>5, <3>3 DEF Draw
        <4> QED BY <2>1, <4>1 DEF UiDoes, Drawn
      <3>4. CASE DrawSeen("ui")
        <4>1. /\ h[1] = "repaint" /\ seen["ui"] # Nothing /\ size' = size
              /\ painted' = [shows |-> seen["ui"], fit |-> metrics["ui"]]
          BY <1>4, <3>4 DEF DrawSeen
        <4> QED BY <2>1, <4>1 DEF UiDoes, Drawn
      <3>5. CASE DrawModel("ui")
        <4>1. /\ h[1] = "drawModel" /\ size' = size
              /\ painted' = IF model = Nothing THEN painted
                                               ELSE [shows |-> model, fit |-> metrics["ui"]]
          BY <1>4, <3>5 DEF DrawModel
        <4> QED BY <2>1, <4>1 DEF UiDoes, Drawn
      <3>6. CASE DrawOwn("ui")
        <4>1. h[1] = "drawOwn" /\ size' = size /\ painted' = [shows |-> model, fit |-> model]
          BY <1>4, <3>6 DEF DrawOwn
        <4> QED BY <2>1, <4>1 DEF UiDoes, Drawn
      <3> QED BY <1>11, <2>2, <3>1, <3>2, <3>3, <3>4, <3>5, <3>6 DEF Surface
    <2> QED BY <1>2, <1>3, <2>1, <2>3, <2>4 DEF h
  <1>12. CASE Branch("ui")
    <2>1. /\ UNCHANGED <<model, rootModel, seen, metrics, size, painted, visible, queue, moves>>
          /\ UNCHANGED <<engine, ctrlDown, wanted>>
      BY <1>12 DEF Branch
    <2>2. CASE Op("ui", "repaint") /\ seen["ui"] = Nothing /\ Rest("ui", DrawsModel)
      <3>1. h[1] = "repaint" /\ todo' = [todo EXCEPT !["ui"] = DrawsModel \o Tail(todo["ui"])]
        BY <1>3, <1>4, <2>2
      <3>2. UiGoes(h)
        BY <2>2, <3>1, DrawScriptsDiffer DEF UiGoes
      <3>3. UiDoes(h) /\ UiVisible(h)
        BY <2>1, <2>2, <3>1 DEF UiDoes, UiVisible, Drawn
      <3> QED BY <1>2, <1>3, <2>1, <3>2, <3>3 DEF h
    <2>3. CASE Op("ui", "paint") /\ (Rest("ui", <<>>) \/ Rest("ui", DrawsOwn))
      <3>1. h[1] = "paint"
        BY <1>4, <2>3
      <3>2. UiGoes(h)
        <4>1. CASE Rest("ui", DrawsOwn)
          <5>1. todo' = [todo EXCEPT !["ui"] = DrawsOwn \o Tail(todo["ui"])]
            BY <1>3, <4>1
          <5> QED BY <3>1, <5>1, DrawScriptsDiffer DEF UiGoes
        <4> QED BY <1>8, <2>3, <4>1
      <3>3. UiDoes(h) /\ UiVisible(h)
        BY <2>1, <3>1 DEF UiDoes, UiVisible, Drawn
      <3> QED BY <1>2, <1>3, <2>1, <3>2, <3>3 DEF h
    <2> QED BY <1>12, <2>2, <2>3 DEF Branch, DrawsModel, DrawsOwn
  <1> QED BY <1>9, <1>10, <1>11, <1>12 DEF Step

LEMMA IpcStep ==
    ASSUME TypeInv, PartsInv, Step("ipc")
    PROVE  /\ todo["ipc"] # <<>>
           /\ \E h \in Ops :
                 /\ h = Head(todo["ipc"])
                 /\ todo' = [todo EXCEPT !["ipc"] = Tail(todo["ipc"])]
                 /\ h[1] = "post" => h[2] \in Messages /\ queue' = Append(queue, h[2])
                 /\ h[1] # "post" => queue' = queue
                 /\ rootModel' = IF h[1] = "setRoot" THEN h[2] ELSE rootModel
                 /\ h[1] # "place" => moves' = moves
           /\ UNCHANGED <<model, visible, size, painted, engine, ctrlDown, wanted>>
           /\ seen'["ui"] = seen["ui"] /\ metrics'["ui"] = metrics["ui"]
  <1>1. "ipc" \in Threads /\ "ui" \in Threads /\ "ipc" # "ui"
    BY DEF Threads
  <1>2. todo["ipc"] # <<>>
    BY DEF Step, Take, Drop, Data, SetModel, SetRoot, Clone, Measure, Surface, Place, Post,
           ShowOrHide, Draw, DrawSeen, DrawModel, DrawOwn, Branch, Op
  <1> DEFINE h == Head(todo["ipc"])
             goes == todo' = [todo EXCEPT !["ipc"] = Tail(todo["ipc"])]
  <1>3. /\ h \in Ops /\ todo["ipc"] \in Seq(Ops) /\ <<>> \o Tail(todo["ipc"]) = Tail(todo["ipc"])
        /\ \A more : Rest("ipc", more) => todo' = [todo EXCEPT !["ipc"] = more \o Tail(todo["ipc"])]
    BY <1>1, <1>2, HeadOp
  <1>4. \A name : Op("ipc", name) => h[1] = name
    BY DEF Op
  <1>5. Arg("ipc") = h[2]
    BY DEF Arg
  <1>6. h[1] \notin UiNames
    <2>1. h \notin OpsOf(UiNames)
      BY <1>2, <1>3, TailAvoids DEF PartsInv
    <2> QED BY <1>3, <2>1 DEF OpsOf
  <1>7. seen \in [Threads -> Roots \cup {Nothing}] /\ metrics \in [Threads -> Content]
    BY DEF TypeInv, TypeOK
  <1>8. ASSUME Rest("ipc", <<>>) PROVE goes
    <2>1. todo' = [todo EXCEPT !["ipc"] = <<>> \o Tail(todo["ipc"])]
      BY <1>3, <1>8
    <2> QED BY <1>3, <2>1
  <1>9. h[1] = "post" => h[2] \in Messages
    BY <1>3, ArgTypes
  <1> HIDE DEF h, goes
  <1> SUFFICES /\ goes
               /\ h[1] = "post" => queue' = Append(queue, h[2])
               /\ h[1] # "post" => queue' = queue
               /\ rootModel' = IF h[1] = "setRoot" THEN h[2] ELSE rootModel
               /\ h[1] # "place" => moves' = moves
               /\ UNCHANGED <<model, visible, size, painted, engine, ctrlDown, wanted>>
               /\ seen'["ui"] = seen["ui"] /\ metrics'["ui"] = metrics["ui"]
    BY <1>2, <1>3, <1>9 DEF h, goes
  <1>10. CASE Take("ipc") \/ Drop("ipc")
    <2>1. h[1] \in {"take", "drop"}
      BY <1>4, <1>10 DEF Take, Drop
    <2>2. goes
      BY <1>8, <1>10 DEF Take, Drop
    <2> QED BY <1>10, <2>1, <2>2 DEF Take, Drop
  <1>11. CASE Data("ipc")
    <2>1. ~SetModel("ipc")
      BY <1>4, <1>6 DEF SetModel, UiNames
    <2>2. h[1] \in {"setRoot", "clone", "measure"}
      BY <1>4, <1>11, <2>1 DEF Data, SetRoot, Clone, Measure
    <2>3. goes /\ UNCHANGED <<queue, moves, visible, size, painted, engine, ctrlDown, wanted>>
      BY <1>8, <1>11 DEF Data
    <2>4. /\ model' = model /\ seen'["ui"] = seen["ui"] /\ metrics'["ui"] = metrics["ui"]
          /\ rootModel' = IF h[1] = "setRoot" THEN h[2] ELSE rootModel
      <3>1. CASE SetRoot("ipc")
        BY <1>4, <1>5, <3>1 DEF SetRoot
      <3>2. CASE Clone("ipc")
        <4>1. h[1] = "clone"
          BY <1>4, <3>2 DEF Clone
        <4> QED BY <1>1, <1>7, <3>2, <4>1 DEF Clone
      <3>3. CASE Measure("ipc")
        <4>1. h[1] = "measure"
          BY <1>4, <3>3 DEF Measure
        <4> QED BY <1>1, <1>7, <3>3, <4>1 DEF Measure
      <3> QED BY <1>11, <2>1, <3>1, <3>2, <3>3 DEF Data
    <2> QED BY <2>2, <2>3, <2>4
  <1>12. CASE Surface("ipc")
    <2>1. Place("ipc") \/ Post("ipc")
      BY <1>4, <1>6, <1>12 DEF Surface, ShowOrHide, Draw, DrawSeen, DrawModel, DrawOwn, UiNames
    <2>2. goes /\ UNCHANGED <<model, rootModel, seen, metrics, engine, ctrlDown, wanted>>
      BY <1>8, <1>12 DEF Surface
    <2>3. CASE Place("ipc")
      <3>1. h[1] = "place" /\ UNCHANGED <<queue, visible, painted, size>>
        BY <1>1, <1>4, <2>3 DEF Place
      <3> QED BY <2>2, <3>1
    <2>4. CASE Post("ipc")
      <3>1. h[1] = "post" /\ queue' = Append(queue, h[2]) /\ UNCHANGED <<moves, visible, size, painted>>
        BY <1>4, <1>5, <2>4 DEF Post
      <3> QED BY <2>2, <3>1
    <2> QED BY <2>1, <2>3, <2>4
  <1>13. ~Branch("ipc")
    BY <1>4, <1>6 DEF Branch, UiNames
  <1> QED BY <1>10, <1>11, <1>12, <1>13 DEF Step

-----------------------------------------------------------------------------
(* The invariant. *)

(* With Ctrl up, or without a composition, the engine's list is asked for.   *)
WantInv == ~ctrlDown \/ engine = Nothing => wanted = engine

(* The window comes to be visible exactly when there is a composition.       *)
Yes == {TRUE}
No == {FALSE}
VisInv ==
    /\ engine # Nothing => Settles(todo["ipc"], queue, todo["ui"], ShowMessages, HideMessages,
                                   Shows, Hides, visible, Yes)
    /\ engine = Nothing => Settles(todo["ipc"], queue, todo["ui"], HideMessages, ShowMessages,
                                   Hides, Shows, visible, No)

(* With Ctrl up the overlay comes to be gone, whatever of it is in the queue. *)
Gone == {Nothing}
RootInv == ~ctrlDown =>
    /\ Avoids(todo["ipc"], SetRoots)
    /\ Settles(todo["ipc"], queue, todo["ui"], HideRoots, ShowRoots, SetNone, SetRoots,
               rootModel, Gone)

LayoutOK(u, c) ==
    /\ Avoids(u, OpsOf({"setRoot"})) /\ Avoids(u, OtherModels(c)) /\ Avoids(u, OtherDraws(c))
    /\ model = c \/ First(u, Models, Reads)
    /\ seen["ui"] = Nothing \/ First(u, OpsOf({"clone"}), OpsOf({"measure", "repaint"}))
    /\ metrics["ui"] = c
         \/ First(u, OpsOf({"measure"}), OpsOf({"place", "draw", "repaint", "drawModel"}))
    /\ size = c \/ First(u, OpsOf({"place"}), {})
    /\ painted = [shows |-> c, fit |-> c] \/ First(u, Draws, {})

(* The command that shows the engine's list has its message still to post,   *)
(* or it is the last one in the queue, or the handler is at it or has been.  *)
Over(s) == Len(s) <= 1 /\ \A k \in DOMAIN s : s[k] = <<"drop", "view">>
LayoutInv == ~ctrlDown /\ engine # Nothing =>
    \/ EndsWith(todo["ipc"], <<"update", engine>>)
    \/ Over(todo["ipc"]) /\ queue # <<>> /\ queue[Len(queue)] = <<"update", engine>>
    \/ Over(todo["ipc"]) /\ queue = <<>> /\ moves = <<>> /\ rootModel = Nothing
         /\ LayoutOK(todo["ui"], engine)

ShownInv == PartsInv /\ WantInv /\ VisInv /\ RootInv /\ LayoutInv

(* A command begins. *)
LEMMA CommandKeepsShown == ASSUME TypeInv, ShownInv, IpcCommand PROVE ShownInv'
  <1>1. ASSUME NEW name, NEW script, Command(name, script)
        PROVE  /\ todo["ipc"] = <<>> /\ todo'["ipc"] = script /\ todo'["ui"] = todo["ui"]
               /\ UNCHANGED <<queue, moves, visible, rootModel>>
    BY <1>1 DEF Command, IdleThread, TypeInv, Threads
  <1>2. Nothing \notin Contexts
    BY NothingAssumption
  <1>3. ASSUME NEW script, NEW name, Command(name, script), Avoids(script, OpsOf(UiNames))
        PROVE  PartsInv'
    BY <1>1, <1>3 DEF ShownInv, PartsInv
  <1>4. ASSUME NEW script, NEW name, Command(name, script), ~ctrlDown, ~ctrlDown',
               Avoids(script, SetRoots), Avoids(script, {"post"} \X ShowRoots)
        PROVE  RootInv'
    <2>1. Settles(<<>>, queue, todo["ui"], HideRoots, ShowRoots, SetNone, SetRoots, rootModel, Gone)
      BY <1>1, <1>4 DEF ShownInv, RootInv
    <2>2. Settles(script, queue, todo["ui"], HideRoots, ShowRoots, SetNone, SetRoots, rootModel, Gone)
      BY <1>4, <2>1, SettlesCommand
    <2>3. /\ todo'["ipc"] = script /\ todo'["ui"] = todo["ui"] /\ queue' = queue
          /\ rootModel' = rootModel
      BY <1>1, <1>4
    <2> QED BY <1>4, <2>2, <2>3 DEF RootInv
  <1>5. ASSUME NEW script, NEW name, Command(name, script), engine' # Nothing,
               Avoids(script, {"post"} \X HideMessages), First(script, {"post"} \X ShowMessages, {})
        PROVE  VisInv'
    <2>1. todo'["ipc"] = script
      BY <1>1, <1>5
    <2> QED BY <1>5, <2>1 DEF VisInv, Settles
  <1>6. ASSUME NEW ctx \in Contexts, Key(ctx) \/ ChangePage(ctx) PROVE ShownInv'
    <2> DEFINE s == Show \o Update(ctx)
    <2>1. PICK name : Command(name, s)
      BY <1>6 DEF Key, ChangePage
    <2>2. engine' = ctx /\ wanted' = ctx /\ ctrlDown' = ctrlDown /\ ctx # Nothing
      BY <1>2, <1>6 DEF Key, ChangePage
    <2>3. /\ Avoids(s, OpsOf(UiNames)) /\ Avoids(s, SetRoots) /\ Avoids(s, {"post"} \X ShowRoots)
          /\ Avoids(s, {"post"} \X HideMessages) /\ First(s, {"post"} \X ShowMessages, {})
          /\ EndsWith(s, <<"update", ctx>>)
      BY ListCommand
    <2> HIDE DEF s
    <2>4. PartsInv'
      BY <1>3, <2>1, <2>3
    <2>5. WantInv'
      BY <2>2 DEF WantInv
    <2>6. VisInv'
      BY <1>5, <2>1, <2>2, <2>3
    <2>7. RootInv'
      <3>1. CASE ctrlDown
        BY <2>2, <3>1 DEF RootInv
      <3>2. CASE ~ctrlDown
        BY <1>4, <2>1, <2>2, <2>3, <3>2
      <3> QED BY <3>1, <3>2
    <2>8. LayoutInv'
      <3>1. todo'["ipc"] = s
        BY <1>1, <2>1
      <3> QED BY <2>2, <2>3, <3>1 DEF LayoutInv
    <2> QED BY <2>4, <2>5, <2>6, <2>7, <2>8 DEF ShownInv
  <1>7. ASSUME Clear PROVE ShownInv'
    <2>1. Command("hide", Hide) /\ engine' = Nothing /\ wanted' = Nothing /\ ctrlDown' = ctrlDown
      BY <1>7 DEF Clear
    <2>2. PartsInv'
      BY <1>3, <2>1, HideCommand
    <2>3. VisInv'
      <3>1. todo'["ipc"] = Hide
        BY <1>1, <2>1
      <3> QED BY <2>1, <3>1, HideCommand DEF VisInv, Settles
    <2>4. RootInv'
      <3>1. CASE ctrlDown
        BY <2>1, <3>1 DEF RootInv
      <3>2. CASE ~ctrlDown
        BY <1>4, <2>1, <3>2, HideCommand
      <3> QED BY <3>1, <3>2
    <2>5. WantInv' /\ LayoutInv'
      BY <2>1 DEF WantInv, LayoutInv
    <2> QED BY <2>2, <2>3, <2>4, <2>5 DEF ShownInv
  <1>8. ASSUME NEW r \in Roots, CtrlDown(r) PROVE ShownInv'
    <2>1. /\ Command("showRoot", ShowRoot(r)) /\ engine # Nothing
          /\ engine' = engine /\ ctrlDown' = TRUE
      BY <1>8 DEF CtrlDown
    <2>2. PartsInv'
      BY <1>3, <2>1, RootCommand
    <2>3. VisInv'
      <3>1. /\ todo["ipc"] = <<>> /\ todo'["ipc"] = ShowRoot(r) /\ todo'["ui"] = todo["ui"]
            /\ queue' = queue /\ visible' = visible
        BY <1>1, <2>1
      <3>2. Settles(<<>>, queue, todo["ui"], ShowMessages, HideMessages, Shows, Hides, visible, Yes)
        BY <2>1, <3>1 DEF ShownInv, VisInv
      <3>3. Settles(ShowRoot(r), queue, todo["ui"], ShowMessages, HideMessages, Shows, Hides,
                    visible, Yes)
        BY <3>2, RootCommand, SettlesCommand
      <3> QED BY <2>1, <3>1, <3>3 DEF VisInv
    <2>4. WantInv' /\ RootInv' /\ LayoutInv'
      BY <2>1 DEF WantInv, RootInv, LayoutInv
    <2> QED BY <2>2, <2>3, <2>4 DEF ShownInv
  <1>9. ASSUME CtrlUp PROVE ShownInv'
    <2> DEFINE s == HideRoot \o (IF engine = Nothing THEN <<>> ELSE Show \o Update(engine))
    <2>1. /\ Command("hideRoot", s) /\ ctrlDown' = FALSE /\ engine' = engine
          /\ wanted' = IF engine = Nothing THEN wanted ELSE engine
      BY <1>9 DEF CtrlUp
    <2>2. engine \in Contexts \cup {Nothing}
      BY DEF TypeInv, TypeOK
    <2>3. WantInv'
      BY <2>1 DEF ShownInv, WantInv
    <2>4. CASE engine = Nothing
      <3>1. s = HideRoot
        <4>1. s = HideRoot \o <<>>
          BY <2>4
        <4> QED BY <4>1, CommandTypes
      <3>2. PartsInv'
        BY <1>3, <2>1, <3>1, HideRootCommand
      <3>3. /\ todo["ipc"] = <<>> /\ todo'["ipc"] = HideRoot /\ todo'["ui"] = todo["ui"]
            /\ queue' = queue /\ visible' = visible /\ rootModel' = rootModel
        BY <1>1, <2>1, <3>1
      <3>4. VisInv'
        <4>1. Settles(<<>>, queue, todo["ui"], HideMessages, ShowMessages, Hides, Shows, visible, No)
          BY <2>4, <3>3 DEF ShownInv, VisInv
        <4>2. Settles(HideRoot, queue, todo["ui"], HideMessages, ShowMessages, Hides, Shows,
                      visible, No)
          BY <4>1, HideRootCommand, SettlesCommand
        <4> QED BY <2>1, <2>4, <3>3, <4>2 DEF VisInv
      <3>5. RootInv'
        BY <3>3, HideRootCommand DEF RootInv, Settles
      <3>6. LayoutInv'
        BY <2>1, <2>4 DEF LayoutInv
      <3> QED BY <2>3, <3>2, <3>4, <3>5, <3>6 DEF ShownInv
    <2>5. CASE engine # Nothing
      <3> DEFINE l == Show \o Update(engine)
      <3>1. engine \in Contexts /\ s = HideRoot \o l
        BY <2>2, <2>5
      <3>2. /\ l \in Seq(Ops) /\ Avoids(l, OpsOf(UiNames)) /\ Avoids(l, SetRoots)
            /\ Avoids(l, {"post"} \X ShowRoots)
            /\ Avoids(l, {"post"} \X HideMessages) /\ First(l, {"post"} \X ShowMessages, {})
            /\ EndsWith(l, <<"update", engine>>)
        BY <3>1, ListCommand
      <3> HIDE DEF l, s
      <3>3. HideRoot \in Seq(Ops)
        BY CommandTypes
      <3>4. /\ Avoids(s, OpsOf(UiNames)) /\ Avoids(s, SetRoots) /\ Avoids(s, {"post"} \X ShowRoots)
            /\ Avoids(s, {"post"} \X HideMessages)
        BY <3>1, <3>2, <3>3, HideRootCommand, JoinAvoids
      <3>5. First(s, {"post"} \X HideRoots, {})
        BY <3>1, <3>2, <3>3, HideRootCommand, FirstLeft
      <3>6. First(s, {"post"} \X ShowMessages, {})
        <4>1. Avoids(HideRoot, {})
          BY DEF Avoids
        <4> QED BY <3>1, <3>2, <3>3, <4>1, FirstRight
      <3>7. EndsWith(s, <<"update", engine>>)
        BY <3>1, <3>2, <3>3, EndsLonger
      <3>8. todo'["ipc"] = s
        BY <1>1, <2>1
      <3>9. PartsInv'
        BY <1>3, <2>1, <3>4
      <3>10. VisInv'
        BY <1>5, <2>1, <2>5, <3>4, <3>6
      <3>11. RootInv'
        BY <3>4, <3>5, <3>8 DEF RootInv, Settles
      <3>12. LayoutInv'
        BY <2>1, <3>7, <3>8 DEF LayoutInv
      <3> QED BY <2>3, <3>9, <3>10, <3>11, <3>12 DEF ShownInv
    <2> QED BY <2>4, <2>5
  <1> QED BY <1>6, <1>7, <1>8, <1>9 DEF IpcCommand

(* The IPC thread goes a step of its command. *)
LEMMA TailShape ==
    ASSUME NEW S, NEW s \in Seq(S), s # <<>>
    PROVE  /\ Len(s) \in Nat /\ Len(s) >= 1 /\ DOMAIN s = 1 .. Len(s) /\ Head(s) = s[1]
           /\ Tail(s) \in Seq(S) /\ Len(Tail(s)) = Len(s) - 1 /\ DOMAIN Tail(s) = 1 .. Len(s) - 1
           /\ \A k \in 1 .. Len(s) - 1 : Tail(s)[k] = s[k + 1]
           /\ Len(s) = 1 => Tail(s) = <<>>
           /\ Len(s) # 1 => Tail(s) # <<>>
  <1>1. /\ Len(s) \in Nat /\ Len(s) >= 1 /\ DOMAIN s = 1 .. Len(s) /\ Head(s) = s[1]
        /\ Tail(s) \in Seq(S) /\ Len(Tail(s)) = Len(s) - 1
    OBVIOUS
  <1>2. DOMAIN Tail(s) = 1 .. Len(s) - 1 /\ \A k \in 1 .. Len(s) - 1 : Tail(s)[k] = s[k + 1]
    BY <1>1
  <1>3. Len(s) = 1 => Tail(s) = <<>>
    <2> DEFINE t == Tail(s)
    <2>1. t \in Seq(S) /\ (Len(s) = 1 => Len(t) = 0)
      BY <1>1
    <2> HIDE DEF t
    <2>2. Len(t) = 0 => t = <<>>
      BY <2>1
    <2> QED BY <2>1, <2>2 DEF t
  <1>4. Len(s) # 1 => Tail(s) # <<>>
    <2>1. Len(<<>>) = 0
      OBVIOUS
    <2> QED BY <1>1, <2>1
  <1> QED BY <1>1, <1>2, <1>3, <1>4

LEMMA SeqLen == ASSUME NEW S, NEW s \in Seq(S) PROVE Len(s) \in Nat /\ (Len(s) # 0 => s # <<>>)
  OBVIOUS

LEMMA OverNothing == Over(<<>>)
  BY EmptyAvoids DEF Over

LEMMA EndsShorter ==
    ASSUME NEW s \in Seq(Ops), NEW m, EndsWith(s, m), Len(s) # 2
    PROVE  EndsWith(Tail(s), m)
  <1>1. s # <<>> /\ Len(s) \in Nat /\ Len(s) > 2
    <2>1. Len(s) >= 2
      BY DEF EndsWith
    <2>2. Len(s) \in Nat
      OBVIOUS
    <2>3. s # <<>>
      BY <2>1, <2>2, SeqLen
    <2> DEFINE n == Len(s)
    <2>4. n \in Nat /\ n >= 2 /\ n # 2
      BY <2>1, <2>2
    <2> HIDE DEF n
    <2>5. n > 2
      BY <2>4
    <2> QED BY <2>2, <2>3, <2>5 DEF n
  <1>2. Len(Tail(s)) = Len(s) - 1 /\ \A k \in 1 .. Len(s) - 1 : Tail(s)[k] = s[k + 1]
    BY <1>1, TailShape
  <1>3. Len(s) - 1 \in 1 .. Len(s) - 1 /\ Len(s) - 2 \in 1 .. Len(s) - 1
    BY <1>1
  <1>4. Tail(s)[Len(s) - 1] = s[(Len(s) - 1) + 1] /\ Tail(s)[Len(s) - 2] = s[(Len(s) - 2) + 1]
    BY <1>2, <1>3
  <1>5. (Len(s) - 1) + 1 = Len(s) /\ (Len(s) - 2) + 1 = Len(s) - 1 /\ Len(s) - 1 >= 2
        /\ (Len(s) - 1) - 1 = Len(s) - 2
    BY <1>1
  <1> QED BY <1>2, <1>4, <1>5 DEF EndsWith

LEMMA EndsPosting ==
    ASSUME NEW s \in Seq(Ops), NEW m, EndsWith(s, m), Len(s) = 2
    PROVE  s # <<>> /\ Head(s) = <<"post", m>> /\ Over(Tail(s))
  <1>1. s # <<>>
    BY SeqLen
  <1>2. /\ Head(s) = s[1] /\ Len(Tail(s)) = 1 /\ DOMAIN Tail(s) = 1 .. 1
        /\ \A k \in 1 .. 1 : Tail(s)[k] = s[k + 1]
    <2>1. Len(s) - 1 = 1
      OBVIOUS
    <2> QED BY <1>1, <2>1, TailShape
  <1>3. \A k \in 1 .. 1 : k + 1 = 2
    OBVIOUS
  <1>4. s[2] = <<"drop", "view">> /\ s[1] = <<"post", m>>
    BY DEF EndsWith
  <1>5. \A k \in DOMAIN Tail(s) : Tail(s)[k] = <<"drop", "view">>
    BY <1>2, <1>3, <1>4
  <1> QED BY <1>1, <1>2, <1>4, <1>5 DEF Over

LEMMA OverIsOver ==
    ASSUME NEW s \in Seq(Ops), s # <<>>, Over(s)
    PROVE  Head(s) = <<"drop", "view">> /\ Tail(s) = <<>>
  <1>1. Len(s) = 1 /\ 1 \in DOMAIN s /\ Head(s) = s[1]
    BY TailShape DEF Over
  <1> QED BY <1>1, TailShape DEF Over

LEMMA IpcKeepsShown == ASSUME TypeInv, ShownInv, Step("ipc") PROVE ShownInv'
  <1> USE DEF ShownInv
  <1>1. PICK h \in Ops :
           /\ h = Head(todo["ipc"])
           /\ todo' = [todo EXCEPT !["ipc"] = Tail(todo["ipc"])]
           /\ h[1] = "post" => h[2] \in Messages /\ queue' = Append(queue, h[2])
           /\ h[1] # "post" => queue' = queue
           /\ rootModel' = IF h[1] = "setRoot" THEN h[2] ELSE rootModel
           /\ h[1] # "place" => moves' = moves
    BY IpcStep
  <1>2. /\ todo["ipc"] # <<>>
        /\ UNCHANGED <<model, visible, size, painted, engine, ctrlDown, wanted>>
        /\ seen'["ui"] = seen["ui"] /\ metrics'["ui"] = metrics["ui"]
    BY IpcStep
  <1> DEFINE i == todo["ipc"]
             u == todo["ui"]
  <1>3. i \in Seq(Ops) /\ todo'["ipc"] = Tail(i) /\ todo'["ui"] = u /\ queue \in Seq(Messages)
    BY <1>1 DEF TypeInv, TypeOK, Threads
  <1>4. \/ Head(i)[1] # "post" /\ queue' = queue
        \/ \E m \in Messages : Head(i) = <<"post", m>> /\ queue' = Append(queue, m)
    <2>1. h[1] = "post" => h = <<"post", h[2]>>
      BY DEF Ops
    <2> QED BY <1>1, <2>1
  <1>5. PartsInv'
    BY <1>2, <1>3, TailAvoids DEF PartsInv
  <1>6. WantInv'
    BY <1>2 DEF WantInv
  <1>7. VisInv'
    <2>1. ASSUME NEW gm, NEW bm, NEW go, NEW bo, NEW V,
                 Settles(i, queue, u, gm, bm, go, bo, visible, V)
          PROVE  Settles(Tail(i), queue', u, gm, bm, go, bo, visible, V)
      BY <1>2, <1>3, <1>4, <2>1, SettlesIpc
    <2>2. visible' = visible /\ engine' = engine
      BY <1>2
    <2> QED BY <1>3, <2>1, <2>2 DEF VisInv
  <1>8. RootInv'
    <2> SUFFICES ASSUME ~ctrlDown
                 PROVE  /\ Avoids(Tail(i), SetRoots)
                        /\ Settles(Tail(i), queue', u, HideRoots, ShowRoots, SetNone, SetRoots,
                                   rootModel', Gone)
      BY <1>2, <1>3 DEF RootInv
    <2>1. /\ Avoids(i, SetRoots)
          /\ Settles(i, queue, u, HideRoots, ShowRoots, SetNone, SetRoots, rootModel, Gone)
      BY DEF RootInv
    <2>2. Avoids(Tail(i), SetRoots) /\ Head(i) \notin SetRoots
      BY <1>2, <1>3, <2>1, TailAvoids
    <2>3. rootModel \in Gone => rootModel' \in Gone
      <3>1. h[1] = "setRoot" => h[2] = Nothing
        BY <1>1, <2>2 DEF Ops, SetRoots
      <3> QED BY <1>1, <3>1 DEF Gone
    <2> QED BY <1>2, <1>3, <1>4, <2>1, <2>2, <2>3, SettlesIpc
  <1>9. LayoutInv'
    <2> SUFFICES ASSUME ~ctrlDown, engine # Nothing PROVE LayoutInv'
      BY <1>2 DEF LayoutInv
    <2> DEFINE m == <<"update", engine>>
    <2>1. CASE EndsWith(i, m) /\ Len(i) # 2
      <3>1. EndsWith(Tail(i), m)
        BY <1>3, <2>1, EndsShorter
      <3> QED BY <1>2, <1>3, <3>1 DEF LayoutInv
    <2>2. CASE EndsWith(i, m) /\ Len(i) = 2
      <3>1. Head(i) = <<"post", m>> /\ Over(Tail(i))
        BY <1>3, <2>2, EndsPosting
      <3>2. queue' = Append(queue, m) /\ m \in Messages
        <4>1. h = <<"post", m>>
          BY <1>1, <3>1
        <4> HIDE DEF m
        <4>2. h[1] = "post" /\ h[2] = m
          BY <4>1
        <4> QED BY <1>1, <4>2
      <3> HIDE DEF m
      <3>3. Append(queue, m) # <<>> /\ Append(queue, m)[Len(Append(queue, m))] = m
        BY <1>3, <3>2
      <3>4. queue' # <<>> /\ queue'[Len(queue')] = m
        BY <3>2, <3>3
      <3> QED BY <1>2, <1>3, <3>1, <3>4 DEF LayoutInv, m
    <2>3. CASE Over(i)
      <3>1. Head(i) = <<"drop", "view">> /\ Tail(i) = <<>>
        BY <1>2, <1>3, <2>3, OverIsOver
      <3>2. queue' = queue /\ moves' = moves /\ rootModel' = rootModel /\ Over(Tail(i))
        <4>1. h[1] = "drop"
          BY <1>1, <3>1
        <4> QED BY <1>1, <3>1, <4>1, OverNothing
      <3>3. ~EndsWith(i, m)
        BY <1>3, <2>3, SeqLen DEF Over, EndsWith
      <3>4. LayoutOK(u, engine) => LayoutOK(u, engine)'
        BY <1>2, <1>3 DEF LayoutOK
      <3>5. LayoutOK(u, engine)' <=> LayoutOK(todo["ui"], engine)'
        BY DEF LayoutOK
      <3> QED BY <1>2, <1>3, <3>2, <3>3, <3>4, <3>5 DEF LayoutInv
    <2> QED BY <2>1, <2>2, <2>3 DEF LayoutInv
  <1> QED BY <1>5, <1>6, <1>7, <1>8, <1>9

(* The UI thread is given something to do. *)
LEMMA LayoutStarts ==
    ASSUME NEW c, LayoutOK(<<>>, c), NEW s, Harmless(s) PROVE LayoutOK(s, c)
  <1>1. Avoids(s, OtherModels(c)) /\ Avoids(s, OtherDraws(c))
    BY DEF Harmless, Avoids, OtherModels, OtherDraws
  <1>2. \A X, N : ~First(<<>>, X, N)
    BY EmptyAvoids
  <1> QED BY <1>1, <1>2 DEF LayoutOK, Harmless

LEMMA LoopKeepsShown ==
    ASSUME TypeInv, ShownInv, GetMessage \/ Move \/ Paint \/ DpiChanged PROVE ShownInv'
  <1> USE DEF ShownInv
  <1> DEFINE i == todo["ipc"]
  <1>1. queue \in Seq(Messages) /\ i \in Seq(Ops) /\ "ui" \in Threads /\ "ipc" \in Threads
    BY DEF TypeInv, TypeOK, Threads
  <1>2. ASSUME NEW s, Dispatch(s)
        PROVE  /\ todo["ui"] = <<>> /\ todo'["ui"] = s /\ todo'["ipc"] = i
               /\ UNCHANGED <<engine, ctrlDown, model, rootModel, seen, metrics, visible,
                              painted, wanted>>
    BY <1>2 DEF Dispatch, IdleThread, TypeInv, Threads
  <1>3. ASSUME GetMessage PROVE ShownInv'
    <2> DEFINE m == Head(queue)
               s == Handler(m)
    <2>1. m \in Messages /\ queue # <<>> /\ moves = <<>> /\ queue' = Tail(queue) /\ moves' = moves
          /\ size' = size
      BY <1>1, <1>3 DEF GetMessage
    <2>2. /\ todo["ui"] = <<>> /\ todo'["ui"] = s /\ todo'["ipc"] = i
          /\ UNCHANGED <<engine, ctrlDown, model, rootModel, seen, metrics, visible,
                         painted, wanted>>
      BY <1>2, <1>3 DEF GetMessage
    <2>3. /\ Avoids(s, OpsOf({"post"}))
          /\ m \in ShowMessages => First(s, Shows, {})
          /\ m \in HideMessages => First(s, Hides, {})
          /\ m \notin ShowMessages => Avoids(s, Shows)
          /\ m \notin HideMessages => Avoids(s, Hides)
          /\ m \in HideRoots => First(s, SetNone, {})
          /\ m \notin ShowRoots => Avoids(s, SetRoots)
      BY <2>1, HandlersDo
    <2> HIDE DEF s
    <2>4. PartsInv'
      BY <2>2, <2>3 DEF PartsInv
    <2>5. WantInv'
      BY <2>2 DEF WantInv
    <2>6. VisInv'
      <3>1. ShowMessages \cap HideMessages = {} /\ HideMessages \cap ShowMessages = {}
        BY DEF ShowMessages, HideMessages
      <3>2. ASSUME engine # Nothing
            PROVE  Settles(i, Tail(queue), s, ShowMessages, HideMessages, Shows, Hides, visible, Yes)
        <4>1. Settles(i, queue, <<>>, ShowMessages, HideMessages, Shows, Hides, visible, Yes)
          BY <2>2, <3>2 DEF VisInv
        <4> QED BY <1>1, <2>1, <2>3, <3>1, <4>1, SettlesMessage
      <3>3. ASSUME engine = Nothing
            PROVE  Settles(i, Tail(queue), s, HideMessages, ShowMessages, Hides, Shows, visible, No)
        <4>1. Settles(i, queue, <<>>, HideMessages, ShowMessages, Hides, Shows, visible, No)
          BY <2>2, <3>3 DEF VisInv
        <4> QED BY <1>1, <2>1, <2>3, <3>1, <4>1, SettlesMessage
      <3> QED BY <2>1, <2>2, <3>2, <3>3 DEF VisInv
    <2>7. RootInv'
      <3>1. HideRoots \cap ShowRoots = {}
        BY DEF HideRoots, ShowRoots
      <3>2. ASSUME ~ctrlDown
            PROVE  /\ Avoids(i, SetRoots)
                   /\ Settles(i, Tail(queue), s, HideRoots, ShowRoots, SetNone, SetRoots,
                              rootModel, Gone)
        <4>1. /\ Settles(i, queue, <<>>, HideRoots, ShowRoots, SetNone, SetRoots, rootModel, Gone)
              /\ Avoids(i, SetRoots)
          BY <2>2, <3>2 DEF RootInv
        <4> QED BY <1>1, <2>1, <2>3, <3>1, <4>1, SettlesMessage
      <3> QED BY <2>1, <2>2, <3>2 DEF RootInv
    <2>8. LayoutInv'
      <3> SUFFICES ASSUME ~ctrlDown, engine # Nothing PROVE LayoutInv'
        BY <2>2 DEF LayoutInv
      <3>1. engine \in Contexts
        BY DEF TypeInv, TypeOK
      <3>2. CASE EndsWith(i, <<"update", engine>>)
        BY <2>2, <3>2 DEF LayoutInv
      <3>3. CASE Over(i) /\ queue[Len(queue)] = <<"update", engine>> /\ Len(queue) # 1
        <4> DEFINE q == queue
        <4>1. q \in Seq(Messages) /\ q # <<>> /\ Len(q) # 1
          BY <1>1, <2>1, <3>3
        <4> HIDE DEF q
        <4>2. Tail(q) # <<>> /\ Tail(q)[Len(Tail(q))] = q[Len(q)]
          <5>1. /\ Len(q) \in Nat /\ Len(q) >= 1 /\ Tail(q) # <<>> /\ Len(Tail(q)) = Len(q) - 1
                /\ \A k \in 1 .. Len(q) - 1 : Tail(q)[k] = q[k + 1]
            BY <4>1, TailShape
          <5>2. Len(q) - 1 \in 1 .. Len(q) - 1 /\ (Len(q) - 1) + 1 = Len(q)
            BY <4>1, <5>1
          <5>3. Tail(q)[Len(q) - 1] = q[(Len(q) - 1) + 1]
            BY <5>1, <5>2
          <5> QED BY <5>1, <5>2, <5>3
        <4>3. queue' # <<>> /\ queue'[Len(queue')] = <<"update", engine>>
          BY <2>1, <3>3, <4>2 DEF q
        <4> QED BY <2>2, <3>3, <4>3 DEF LayoutInv
      <3>4. CASE Over(i) /\ queue[Len(queue)] = <<"update", engine>> /\ Len(queue) = 1
        <4>1. m = <<"update", engine>> /\ queue' = <<>>
          <5> DEFINE q == queue
          <5>1. q \in Seq(Messages) /\ q # <<>> /\ Len(q) = 1
            BY <1>1, <2>1, <3>4
          <5> HIDE DEF q
          <5>2. Tail(q) = <<>> /\ Head(q) = q[Len(q)]
            BY <5>1, TailShape
          <5> QED BY <2>1, <3>4, <5>2 DEF q
        <4>2. rootModel = Nothing
          <5>1. Settles(i, queue, <<>>, HideRoots, ShowRoots, SetNone, SetRoots, rootModel, Gone)
            BY <2>2 DEF RootInv
          <5>2. ~First(i, {"post"} \X HideRoots, {})
            <6>1. \A k \in DOMAIN i : i[k] = <<"drop", "view">>
              BY <3>4 DEF Over
            <6> QED BY <6>1 DEF First
          <5>3. ~LastOf(queue, HideRoots, ShowRoots)
            <6>1. \A k \in DOMAIN queue : queue[k] = m
              <7>1. DOMAIN queue = 1 .. 1 /\ Head(queue) = queue[1]
                BY <1>1, <2>1, <3>4, TailShape
              <7> QED BY <7>1
            <6> QED BY <4>1, <6>1 DEF LastOf, HideRoots
          <5>4. rootModel \in Gone
            BY <5>1, <5>2, <5>3, EmptyAvoids DEF Settles
          <5> QED BY <5>4 DEF Gone
        <4>3. /\ Avoids(s, OpsOf({"setRoot"}))
              /\ Avoids(s, OtherModels(engine)) /\ Avoids(s, OtherDraws(engine))
              /\ First(s, Models, Reads)
              /\ First(s, OpsOf({"clone"}), OpsOf({"measure", "repaint"}))
              /\ First(s, OpsOf({"measure"}), OpsOf({"place", "draw", "repaint", "drawModel"}))
              /\ First(s, OpsOf({"place"}), {})
              /\ First(s, Draws, {})
          BY <3>1, <4>1, UpdateHandler DEF s
        <4>4. LayoutOK(todo["ui"], engine)'
          BY <2>2, <4>3 DEF LayoutOK
        <4> QED BY <2>1, <2>2, <3>4, <4>1, <4>2, <4>4 DEF LayoutInv
      <3> QED BY <2>1, <3>2, <3>3, <3>4 DEF LayoutInv
    <2> QED BY <2>4, <2>5, <2>6, <2>7, <2>8
  <1>4. ASSUME Move \/ Paint \/ DpiChanged PROVE ShownInv'
    <2>1. PICK s : Dispatch(s) /\ Harmless(s)
      BY <1>4, NothingHarmless, PaintHarmless DEF Move, Paint, DpiChanged
    <2>2. /\ todo["ui"] = <<>> /\ todo'["ui"] = s /\ todo'["ipc"] = i
          /\ UNCHANGED <<engine, ctrlDown, model, rootModel, seen, metrics, visible,
                         painted, wanted>>
      BY <1>2, <2>1
    <2>3. queue' = queue /\ (moves = <<>> => moves' = moves /\ size' = size)
      BY <1>4 DEF Move, Paint, DpiChanged
    <2>4. PartsInv' /\ WantInv'
      BY <2>1, <2>2 DEF PartsInv, WantInv, Harmless
    <2>5. VisInv'
      <3>1. ASSUME engine # Nothing
            PROVE  Settles(i, queue, s, ShowMessages, HideMessages, Shows, Hides, visible, Yes)
        <4>1. Settles(i, queue, <<>>, ShowMessages, HideMessages, Shows, Hides, visible, Yes)
          BY <2>2, <3>1 DEF VisInv
        <4> QED BY <2>1, <4>1, SettlesStart DEF Harmless
      <3>2. ASSUME engine = Nothing
            PROVE  Settles(i, queue, s, HideMessages, ShowMessages, Hides, Shows, visible, No)
        <4>1. Settles(i, queue, <<>>, HideMessages, ShowMessages, Hides, Shows, visible, No)
          BY <2>2, <3>2 DEF VisInv
        <4> QED BY <2>1, <4>1, SettlesStart DEF Harmless
      <3> QED BY <2>2, <2>3, <3>1, <3>2 DEF VisInv
    <2>6. RootInv'
      <3>1. ASSUME ~ctrlDown
            PROVE  /\ Avoids(i, SetRoots)
                   /\ Settles(i, queue, s, HideRoots, ShowRoots, SetNone, SetRoots, rootModel, Gone)
        <4>1. /\ Settles(i, queue, <<>>, HideRoots, ShowRoots, SetNone, SetRoots, rootModel, Gone)
              /\ Avoids(i, SetRoots)
          BY <2>2, <3>1 DEF RootInv
        <4> QED BY <2>1, <4>1, SettlesStart DEF Harmless
      <3> QED BY <2>2, <2>3, <3>1 DEF RootInv
    <2>7. LayoutInv'
      <3>1. ASSUME moves = <<>>, LayoutOK(todo["ui"], engine) PROVE LayoutOK(todo["ui"], engine)'
        <4>1. LayoutOK(<<>>, engine)
          BY <2>2, <3>1
        <4>2. LayoutOK(s, engine)
          BY <2>1, <4>1, LayoutStarts
        <4> QED BY <2>2, <2>3, <3>1, <4>2 DEF LayoutOK
      <3> QED BY <2>2, <2>3, <3>1 DEF LayoutInv
    <2> QED BY <2>4, <2>5, <2>6, <2>7
  <1> QED BY <1>3, <1>4

(* The UI thread goes a step of its handler. *)
LEMMA VisibleOps ==
    ASSUME NEW h \in Ops
    PROVE  /\ h[1] = "visible" => h \in Shows \/ h \in Hides
           /\ h \in Shows => h[1] = "visible" /\ h[2] \in Yes
           /\ h \in Hides => h[1] = "visible" /\ h[2] \in No
  <1>1. <<"visible", TRUE>>[2] \in Yes /\ <<"visible", FALSE>>[2] \in No
    BY DEF Yes, No
  <1>2. h[1] = "visible" => h = <<"visible", TRUE>> \/ h = <<"visible", FALSE>>
    <2>1. h[1] = "visible" => \E b \in BOOLEAN : h = <<"visible", b>>
      BY DEF Ops
    <2>2. \A b \in BOOLEAN : b = TRUE \/ b = FALSE
      OBVIOUS
    <2> QED BY <2>1, <2>2, Zenon
  <1>3. h = <<"visible", TRUE>> <=> h \in Shows
    BY DEF Shows
  <1>4. h = <<"visible", FALSE>> <=> h \in Hides
    BY DEF Hides
  <1> QED BY <1>1, <1>2, <1>3, <1>4, VisibleNames, Zenon

LEMMA DrawOps ==
    ASSUME NEW h \in Ops
    PROVE  /\ h[1] = "setModel" <=> h \in Models
           /\ h[1] = "draw" <=> h \in Draws
           /\ \A c : h[1] = "setModel" /\ h \notin OtherModels(c) => h[2] = c
           /\ \A c : h[1] = "draw" /\ h \notin OtherDraws(c) => h[2] = c
           /\ \A names : h \in OpsOf(names) <=> h[1] \in names
  <1>1. h[1] = "setModel" => \E c \in Contexts : h = <<"setModel", c>>
    BY DEF Ops
  <1>2. h[1] = "draw" => \E c \in Contexts \cup Roots : h = <<"draw", c>>
    BY DEF Ops
  <1> QED BY <1>1, <1>2 DEF Models, Draws, OtherModels, OtherDraws, OpsOf

LEMMA LayoutGoes ==
    ASSUME NEW u \in Seq(Ops), u # <<>>, NEW c \in Contexts, LayoutOK(u, c), rootModel = Nothing,
           NEW h \in Ops, h = Head(u), UiDoes(h), NEW more \in {<<>>, DrawsModel, DrawsOwn},
           more = DrawsModel => h[1] = "repaint", more = DrawsOwn => h[1] = "paint"
    PROVE  LET n == more \o Tail(u)
           IN  /\ rootModel' = Nothing
               /\ Avoids(n, OpsOf({"setRoot"})) /\ Avoids(n, OtherModels(c))
               /\ Avoids(n, OtherDraws(c))
               /\ model' = c \/ First(n, Models, Reads)
               /\ seen'["ui"] = Nothing \/ First(n, OpsOf({"clone"}), OpsOf({"measure", "repaint"}))
               /\ metrics'["ui"] = c
                    \/ First(n, OpsOf({"measure"}), OpsOf({"place", "draw", "repaint", "drawModel"}))
               /\ size' = c \/ First(n, OpsOf({"place"}), {})
               /\ painted' = [shows |-> c, fit |-> c] \/ First(n, Draws, {})
  <1> DEFINE Ns == OpsOf({"measure", "repaint"})
             Np == OpsOf({"place", "draw", "repaint", "drawModel"})
             n == more \o Tail(u)
  <1>1. Harmless(more) /\ more \in Seq(Ops) /\ Tail(u) \in Seq(Ops)
    BY NothingHarmless, BranchesHarmless, TailAt DEF Harmless
  <1>2. Avoids(u, OpsOf({"setRoot"})) /\ Avoids(u, OtherModels(c)) /\ Avoids(u, OtherDraws(c))
    BY DEF LayoutOK
  <1>3. /\ h \notin OpsOf({"setRoot"}) /\ h \notin OtherModels(c) /\ h \notin OtherDraws(c)
        /\ Avoids(Tail(u), OpsOf({"setRoot"})) /\ Avoids(Tail(u), OtherModels(c))
        /\ Avoids(Tail(u), OtherDraws(c))
    BY <1>2, TailAvoids
  <1>4. /\ h[1] # "setRoot" /\ (h[1] = "setModel" => h[2] = c) /\ (h[1] = "draw" => h[2] = c)
        /\ (h[1] = "setModel" <=> h \in Models) /\ (h[1] = "draw" <=> h \in Draws)
        /\ (h[1] = "clone" <=> h \in OpsOf({"clone"}))
        /\ (h[1] = "measure" <=> h \in OpsOf({"measure"}))
        /\ (h[1] = "place" <=> h \in OpsOf({"place"}))
        /\ (h[1] \in {"measure", "repaint", "paint", "drawModel", "drawOwn"} <=> h \in Reads)
        /\ (h[1] \in {"measure", "repaint"} <=> h \in Ns)
        /\ (h[1] \in {"place", "draw", "repaint", "drawModel"} <=> h \in Np)
    BY <1>3, DrawOps DEF Reads
  <1> HIDE DEF Ns, Np
  <1>5. Avoids(n, OpsOf({"setRoot"})) /\ Avoids(n, OtherModels(c)) /\ Avoids(n, OtherDraws(c))
    <2>1. /\ Avoids(more, OpsOf({"setRoot"})) /\ Avoids(more, OtherModels(c))
          /\ Avoids(more, OtherDraws(c))
      BY <1>1 DEF Harmless, Avoids, OtherModels, OtherDraws
    <2> QED BY <1>1, <1>3, <2>1, JoinAvoids
  <1>6. ASSUME NEW X, NEW N, First(u, X, N), h \notin X, Avoids(more, N) PROVE First(n, X, N)
    <2>1. First(Tail(u), X, N)
      BY <1>6, TailFirst
    <2> QED BY <1>1, <1>6, <2>1, FirstRight
  <1>7. ASSUME NEW X, NEW N, First(u, X, N), h \notin X PROVE h \notin N
    BY <1>7, TailFirst
  <1>8. \A N : Avoids(<<>>, N) /\ Avoids(more, {})
    BY EmptyAvoids DEF Avoids
  <1>9. Avoids(DrawsOwn, Ns) /\ Avoids(DrawsOwn, Np)
    BY BranchesHarmless DEF Ns, Np
  <1>10. h \in Reads /\ h \notin Models => model = c
    BY <1>7 DEF LayoutOK
  <1>11. h \in Ns /\ h \notin OpsOf({"clone"}) => seen["ui"] = Nothing
    BY <1>7 DEF LayoutOK, Ns
  <1>12. h \in Np /\ h \notin OpsOf({"measure"}) => metrics["ui"] = c
    BY <1>7 DEF LayoutOK, Np
  <1>13. rootModel' = Nothing
    BY <1>4 DEF UiDoes
  <1>14. model' = c \/ First(n, Models, Reads)
    <2>1. CASE h[1] = "setModel"
      BY <1>4, <2>1 DEF UiDoes
    <2>2. CASE h[1] # "setModel" /\ model = c
      BY <2>2 DEF UiDoes
    <2>3. CASE h[1] # "setModel" /\ First(u, Models, Reads)
      <3>1. h \notin Models /\ h \notin Reads
        BY <1>4, <1>7, <2>3
      <3>2. more = <<>>
        BY <1>4, <3>1
      <3> QED BY <1>6, <1>8, <2>3, <3>1, <3>2
    <2> QED BY <2>1, <2>2, <2>3 DEF LayoutOK
  <1>15. seen'["ui"] = Nothing \/ First(n, OpsOf({"clone"}), Ns)
    <2>1. CASE h[1] = "clone"
      BY <2>1 DEF UiDoes
    <2>2. CASE h[1] # "clone" /\ seen["ui"] = Nothing
      BY <2>2 DEF UiDoes
    <2>3. CASE h[1] # "clone" /\ First(u, OpsOf({"clone"}), Ns)
      <3>1. h \notin OpsOf({"clone"}) /\ h \notin Ns
        BY <1>4, <1>7, <2>3
      <3>2. more = <<>> \/ more = DrawsOwn
        BY <1>4, <3>1
      <3> QED BY <1>6, <1>8, <1>9, <2>3, <3>1, <3>2
    <2> QED BY <2>1, <2>2, <2>3 DEF LayoutOK, Ns
  <1>16. metrics'["ui"] = c \/ First(n, OpsOf({"measure"}), Np)
    <2>1. CASE h[1] = "measure"
      <3>1. model = c /\ seen["ui"] = Nothing
        BY <1>4, <1>10, <1>11, <2>1
      <3> QED BY <2>1, <3>1 DEF UiDoes
    <2>2. CASE h[1] # "measure" /\ metrics["ui"] = c
      BY <2>2 DEF UiDoes
    <2>3. CASE h[1] # "measure" /\ First(u, OpsOf({"measure"}), Np)
      <3>1. h \notin OpsOf({"measure"}) /\ h \notin Np
        BY <1>4, <1>7, <2>3
      <3>2. more = <<>> \/ more = DrawsOwn
        BY <1>4, <3>1
      <3> QED BY <1>6, <1>8, <1>9, <2>3, <3>1, <3>2
    <2> QED BY <2>1, <2>2, <2>3 DEF LayoutOK, Np
  <1>17. size' = c \/ First(n, OpsOf({"place"}), {})
    <2>1. CASE h[1] = "place"
      BY <1>4, <1>12, <2>1 DEF UiDoes
    <2>2. CASE h[1] # "place" /\ size = c
      BY <2>2 DEF UiDoes
    <2>3. CASE h[1] # "place" /\ First(u, OpsOf({"place"}), {})
      BY <1>4, <1>6, <1>8, <2>3
    <2> QED BY <2>1, <2>2, <2>3 DEF LayoutOK
  <1>18. painted' = [shows |-> c, fit |-> c] \/ First(n, Draws, {})
    <2>1. CASE h[1] = "draw"
      <3>1. h[2] = c /\ metrics["ui"] = c
        BY <1>4, <1>12, <2>1
      <3> QED BY <2>1, <3>1 DEF UiDoes, Drawn
    <2>2. CASE h[1] # "draw" /\ First(u, Draws, {})
      BY <1>4, <1>6, <1>8, <2>2
    <2>3. CASE h[1] # "draw" /\ painted = [shows |-> c, fit |-> c]
      <3>1. h[1] = "repaint" => seen["ui"] = Nothing
        BY <1>4, <1>11
      <3>2. h[1] = "drawModel" => model = c /\ metrics["ui"] = c
        BY <1>4, <1>10, <1>12
      <3>3. h[1] = "drawOwn" => model = c
        BY <1>4, <1>10
      <3>4. Drawn(h) = [shows |-> c, fit |-> c]
        BY <2>3, <3>1, <3>2, <3>3 DEF Drawn
      <3> QED BY <3>4 DEF UiDoes
    <2> QED BY <2>1, <2>2, <2>3 DEF LayoutOK
  <1> QED BY <1>5, <1>13, <1>14, <1>15, <1>16, <1>17, <1>18 DEF Ns, Np

LEMMA UiKeepsShown == ASSUME TypeInv, ShownInv, Step("ui") PROVE ShownInv'
  <1> USE DEF ShownInv
  <1> DEFINE i == todo["ipc"]
             u == todo["ui"]
  <1>1. /\ u # <<>> /\ queue' = queue /\ moves' = moves
        /\ engine' = engine /\ ctrlDown' = ctrlDown /\ wanted' = wanted
    BY UiStep
  <1>2. PICK h \in Ops : h = Head(u) /\ UiDoes(h) /\ UiGoes(h) /\ UiVisible(h)
    BY UiStep
  <1>3. PICK more \in {<<>>, DrawsModel, DrawsOwn} :
           /\ todo' = [todo EXCEPT !["ui"] = more \o Tail(u)]
           /\ more = DrawsModel => h[1] = "repaint"
           /\ more = DrawsOwn => h[1] = "paint"
    BY <1>2 DEF UiGoes
  <1> DEFINE n == more \o Tail(u)
  <1>4. u \in Seq(Ops) /\ todo'["ipc"] = i /\ todo'["ui"] = n
    BY <1>3 DEF TypeInv, Threads
  <1>5. Harmless(more) /\ more \in Seq(Ops) /\ Tail(u) \in Seq(Ops)
    BY <1>1, <1>4, NothingHarmless, BranchesHarmless, TailAt DEF Harmless
  <1>6. PartsInv'
    <2>1. Avoids(Tail(u), OpsOf({"post"})) /\ Avoids(more, OpsOf({"post"}))
      BY <1>1, <1>4, <1>5, TailAvoids DEF PartsInv, Harmless
    <2>2. Avoids(n, OpsOf({"post"}))
      BY <1>5, <2>1, JoinAvoids
    <2> QED BY <1>4, <2>2 DEF PartsInv
  <1>7. WantInv'
    BY <1>1 DEF WantInv
  <1>8. VisInv'
    <2>1. /\ h \in Shows => visible' \in Yes
          /\ h \in Hides => visible' \in No
          /\ h \notin Shows /\ h \notin Hides => visible' = visible
      BY <1>2, VisibleOps DEF UiVisible
    <2>2. Avoids(more, Shows) /\ Avoids(more, Hides)
      BY <1>5 DEF Harmless
    <2>3. ASSUME engine # Nothing
          PROVE  Settles(i, queue, n, ShowMessages, HideMessages, Shows, Hides, visible', Yes)
      <3>1. Settles(i, queue, u, ShowMessages, HideMessages, Shows, Hides, visible, Yes)
        BY <2>3 DEF VisInv
      <3>2. h \notin Hides => (visible \in Yes => visible' \in Yes)
        BY <2>1
      <3> QED BY <1>1, <1>2, <1>4, <1>5, <2>1, <2>2, <3>1, <3>2, SettlesStep
    <2>4. ASSUME engine = Nothing
          PROVE  Settles(i, queue, n, HideMessages, ShowMessages, Hides, Shows, visible', No)
      <3>1. Settles(i, queue, u, HideMessages, ShowMessages, Hides, Shows, visible, No)
        BY <2>4 DEF VisInv
      <3>2. h \notin Shows => (visible \in No => visible' \in No)
        BY <2>1
      <3> QED BY <1>1, <1>2, <1>4, <1>5, <2>1, <2>2, <3>1, <3>2, SettlesStep
    <2> HIDE DEF n
    <2> QED BY <1>1, <1>4, <2>3, <2>4 DEF VisInv
  <1>9. RootInv'
    <2>1. /\ h \in SetNone => rootModel' \in Gone
          /\ h \notin SetRoots => (rootModel \in Gone => rootModel' \in Gone)
      <3>1. h[1] = "setRoot" => h \in SetRoots \/ h[2] = Nothing
        BY DEF Ops, SetRoots
      <3>2. h \in SetNone => h[1] = "setRoot" /\ h[2] = Nothing
        BY DEF SetNone
      <3>3. rootModel' = IF h[1] = "setRoot" THEN h[2] ELSE rootModel
        BY <1>2 DEF UiDoes
      <3> QED BY <3>1, <3>2, <3>3 DEF Gone
    <2>2. ASSUME ~ctrlDown
          PROVE  /\ Avoids(i, SetRoots)
                 /\ Settles(i, queue, n, HideRoots, ShowRoots, SetNone, SetRoots, rootModel', Gone)
      <3>1. /\ Settles(i, queue, u, HideRoots, ShowRoots, SetNone, SetRoots, rootModel, Gone)
            /\ Avoids(i, SetRoots)
        BY <2>2 DEF RootInv
      <3>2. Avoids(more, SetRoots)
        BY <1>5 DEF Harmless
      <3> QED BY <1>1, <1>2, <1>4, <1>5, <2>1, <3>1, <3>2, SettlesStep
    <2> HIDE DEF n
    <2> QED BY <1>1, <1>4, <2>2 DEF RootInv
  <1>10. LayoutInv'
    <2> SUFFICES ASSUME ~ctrlDown, engine # Nothing PROVE LayoutInv'
      BY <1>1 DEF LayoutInv
    <2>1. CASE EndsWith(i, <<"update", engine>>)
      BY <1>1, <1>4, <2>1 DEF LayoutInv
    <2>2. CASE Over(i) /\ queue # <<>> /\ queue[Len(queue)] = <<"update", engine>>
      BY <1>1, <1>4, <2>2 DEF LayoutInv
    <2>3. CASE Over(i) /\ queue = <<>> /\ moves = <<>> /\ rootModel = Nothing /\ LayoutOK(u, engine)
      <3>1. engine \in Contexts
        BY DEF TypeInv, TypeOK
      <3>2. /\ rootModel' = Nothing
            /\ Avoids(n, OpsOf({"setRoot"})) /\ Avoids(n, OtherModels(engine))
            /\ Avoids(n, OtherDraws(engine))
            /\ model' = engine \/ First(n, Models, Reads)
            /\ seen'["ui"] = Nothing \/ First(n, OpsOf({"clone"}), OpsOf({"measure", "repaint"}))
            /\ metrics'["ui"] = engine
                 \/ First(n, OpsOf({"measure"}), OpsOf({"place", "draw", "repaint", "drawModel"}))
            /\ size' = engine \/ First(n, OpsOf({"place"}), {})
            /\ painted' = [shows |-> engine, fit |-> engine] \/ First(n, Draws, {})
        BY <1>1, <1>2, <1>3, <1>4, <2>3, <3>1, LayoutGoes
      <3> HIDE DEF n
      <3>3. LayoutOK(todo["ui"], engine)'
        BY <1>1, <1>4, <3>2 DEF LayoutOK
      <3> QED BY <1>1, <1>4, <2>3, <3>2, <3>3 DEF LayoutInv
    <2> QED BY <2>1, <2>2, <2>3 DEF LayoutInv
  <1> QED BY <1>6, <1>7, <1>8, <1>9, <1>10

LEMMA InitShown == ASSUME Init PROVE ShownInv
  <1>1. /\ engine = Nothing /\ wanted = Nothing /\ queue = <<>> /\ visible \in No
        /\ todo["ipc"] = <<>> /\ todo["ui"] = <<>> /\ rootModel \in Gone
    BY DEF Init, Threads, No, Gone
  <1>2. \A gm, bm, go, bo, v, V : v \in V => Settles(<<>>, <<>>, <<>>, gm, bm, go, bo, v, V)
    BY EmptyAvoids DEF Settles
  <1>3. PartsInv /\ WantInv /\ LayoutInv
    BY <1>1, EmptyAvoids DEF PartsInv, WantInv, LayoutInv
  <1>4. VisInv
    BY <1>1, <1>2 DEF VisInv
  <1>5. RootInv
    BY <1>1, <1>2, EmptyAvoids DEF RootInv
  <1> QED BY <1>3, <1>4, <1>5 DEF ShownInv

LEMMA NextKeepsShown == ASSUME TypeInv, ShownInv, [Next]_vars PROVE ShownInv'
  <1>1. CASE IpcCommand
    BY <1>1, CommandKeepsShown
  <1>2. CASE GetMessage \/ Move \/ Paint \/ DpiChanged
    BY <1>2, LoopKeepsShown
  <1>3. ASSUME NEW t \in Threads, Step(t) PROVE ShownInv'
    <2>1. CASE t = "ipc"
      BY <1>3, <2>1, IpcKeepsShown
    <2>2. CASE t = "ui"
      BY <1>3, <2>2, UiKeepsShown
    <2> QED BY <2>1, <2>2 DEF Threads
  <1>4. CASE UNCHANGED vars
    BY <1>4 DEF vars, ShownInv, PartsInv, WantInv, VisInv, RootInv, LayoutInv, LayoutOK
  <1> QED BY <1>1, <1>2, <1>3, <1>4 DEF Next, MessageLoop

LEMMA ShownMeans == ASSUME TypeInv, ShownInv PROVE LastCommandShown
  <1> SUFFICES ASSUME Quiescent, ~ctrlDown
               PROVE  IF wanted = Nothing THEN ~visible
                      ELSE visible /\ painted = [shows |-> wanted, fit |-> wanted] /\ size = wanted
    BY DEF LastCommandShown
  <1>1. todo["ipc"] = <<>> /\ todo["ui"] = <<>> /\ queue = <<>>
    BY DEF Quiescent, IdleThread, Threads
  <1>2. wanted = engine
    BY DEF ShownInv, WantInv
  <1>3. \A gm, bm, go, bo, v, V : Settles(<<>>, <<>>, <<>>, gm, bm, go, bo, v, V) => v \in V
    BY EmptyAvoids DEF Settles
  <1>4. CASE engine = Nothing
    <2>1. visible \in No
      BY <1>1, <1>3, <1>4 DEF ShownInv, VisInv
    <2> QED BY <1>2, <1>4, <2>1 DEF No
  <1>5. CASE engine # Nothing
    <2>1. visible \in Yes
      BY <1>1, <1>3, <1>5 DEF ShownInv, VisInv
    <2>2. ~EndsWith(<<>>, <<"update", engine>>)
      <3>1. Len(<<>>) = 0
        OBVIOUS
      <3> QED BY <3>1 DEF EndsWith
    <2>3. LayoutOK(<<>>, engine)
      BY <1>1, <1>5, <2>2 DEF ShownInv, LayoutInv
    <2>4. painted = [shows |-> engine, fit |-> engine] /\ size = engine
      BY <2>3, EmptyAvoids DEF LayoutOK
    <2> QED BY <1>2, <1>5, <2>1, <2>4 DEF Yes
  <1> QED BY <1>4, <1>5

LEMMA ShownAlways == Spec => [](TypeInv /\ ShownInv)
  <1>1. Init => TypeInv /\ ShownInv
    BY InitTypes, InitShown
  <1>2. TypeInv /\ ShownInv /\ [Next]_vars => (TypeInv /\ ShownInv)'
    BY NextKeepsTypes, NextKeepsShown
  <1> QED BY <1>1, <1>2, PTL DEF Spec

(* Whatever the two threads do between each other's steps, once every        *)
(* message is handled the screen shows what the last command asked for: the  *)
(* engine's list, in a window and a surface measured for that list, or no    *)
(* window at all; with any root overlays shown and hidden on the way and any *)
(* repaints Windows asked for.                                               *)
THEOREM LastCommandShownAlways == Spec => []LastCommandShown
  <1>1. TypeInv /\ ShownInv => LastCommandShown
    BY ShownMeans
  <1> QED BY <1>1, ShownAlways, PTL

=============================================================================
