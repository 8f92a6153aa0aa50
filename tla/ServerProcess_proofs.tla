------------------------ MODULE ServerProcess_proofs ------------------------
(***************************************************************************)
(* Proofs about the server as a process, for any number of processes,      *)
(* packages and files and any bound on what happens: the types, who serves *)
(* after starts that overtake each other (RaceInv), the files of a first   *)
(* start (DataInv), what the tray shows (TrayInv) and the market's         *)
(* registry against the files it lists (MarketInv).                        *)
(***************************************************************************)
EXTENDS ServerProcess, TLAPS

(* The request under way: what it is, who answers it, and for which package.     *)
JobStates ==
    [op : RequestNames \cup {"none"}, pkg : Packages \cup {None},
     at : {"set", "tray", "post", "run", "dir", "fetch", "written", "open", "copy",
           "load", "remove", "save", "saved", "end"},
     mode : BOOLEAN, todo : SUBSET Files, arch : SUBSET Files, reg : [Packages -> Entries]]

JobInv ==
    /\ job \in JobStates /\ job.todo \subseteq job.arch
    /\ job.op # "none" => pipe \in Procs
    /\ job.op \in {"download", "install", "uninstall"} => job.pkg \in Packages
    /\ job.at \in {"save", "saved"} => job.op \in {"install", "uninstall"}
    /\ job.op \notin {"install", "uninstall"} \/ job.at \in {"open", "load"} => job.arch = {}

(* TypeOK in parts, one per group of variables. *)
ProcTypes ==
    /\ at \in [Procs -> Past \cup {"off", "check", "wait", "recheck"}]
    /\ ipc \in [Procs -> {"none", "starting", "on", "deaf"}]
    /\ pipe \in Procs \cup {None} /\ raced \subseteq Procs
DataTypes ==
    user \in {"none", "part", "whole"} /\ dict \in {"none", "part", "whole"} /\ cut \in BOOLEAN
TrayTypes ==
    /\ ascii \in [Procs -> BOOLEAN] /\ static \in [Procs -> BOOLEAN]
    /\ icon \in [Procs -> BOOLEAN] /\ visible \in [Procs -> BOOLEAN]
    /\ missed \in [Procs -> BOOLEAN] /\ asked \in [Procs -> BOOLEAN]
    /\ posts \in [Procs -> Seq({"zh", "en", "show", "hide", "quit"})]
MarketTypes ==
    /\ store \in [Packages -> SUBSET Archives] /\ files \subseteq Files /\ mess \subseteq Files
    /\ reg \in [Packages -> Entries]

TypeInv == ProcTypes /\ DataTypes /\ TrayTypes /\ MarketTypes /\ JobInv /\ ops \in 0..MaxOps

LEMMA TypeInvIsTypeOK == TypeInv => TypeOK
  <1> SUFFICES ASSUME TypeInv PROVE TypeOK
    OBVIOUS
  <1>1. \A v \in {ascii, static, icon, visible, missed, asked} : v \in [Procs -> BOOLEAN]
    BY DEF TypeInv, TrayTypes
  <1>2. job \in JobStates /\ job.todo \subseteq job.arch
    BY DEF TypeInv, JobInv
  <1> QED BY <1>1, <1>2 DEF TypeInv, TypeOK, ProcTypes, DataTypes, TrayTypes, MarketTypes, JobStates

LEMMA NoJobIsIdle ==
    /\ NoJob \in JobStates /\ NoJob.op = "none" /\ NoJob.at = "end" /\ NoJob.pkg = None
    /\ NoJob.arch = {} /\ NoJob.todo = {}
  BY DEF NoJob, JobStates, NoRegistry, Entries

LEMMA InitTypes == Init => TypeInv
  <1> SUFFICES ASSUME Init PROVE TypeInv
    OBVIOUS
  <1>1. ProcTypes /\ DataTypes
    BY DEF Init, ProcTypes, DataTypes
  <1>2. TrayTypes
    BY DEF Init, TrayTypes
  <1>3. store \in [Packages -> SUBSET Archives]
    <2> DEFINE Given == {{}} \cup {{a} : a \in (SUBSET Files) \ {{}}}
    <2>1. Given \subseteq SUBSET Archives
      BY DEF Archives
    <2>2. store \in [Packages -> Given]
      BY DEF Init
    <2> HIDE DEF Given
    <2> QED BY <2>1, <2>2
  <1>4. MarketTypes
    BY <1>3 DEF Init, MarketTypes, NoRegistry, Entries
  <1>5. JobInv
    BY NoJobIsIdle DEF Init, JobInv
  <1> QED BY <1>1, <1>2, <1>4, <1>5, MaxOpsAssumption DEF Init, TypeInv

Messages == {"zh", "en", "show", "hide", "quit"}

(* A message to a process is posted to it alone. *)
LEMMA Appended ==
    ASSUME TrayTypes, NEW p \in Procs, NEW m \in Messages,
           posts' = [posts EXCEPT ![p] = Append(@, m)]
    PROVE  /\ posts' \in [Procs -> Seq(Messages)] /\ posts'[p] = Append(posts[p], m)
           /\ \A q \in Procs : q # p => posts'[q] = posts[q]
  <1>1. posts \in [Procs -> Seq(Messages)]
    BY DEF TrayTypes, Messages
  <1>2. Append(posts[p], m) \in Seq(Messages)
    BY <1>1
  <1> QED BY <1>1, <1>2

LEMMA ShutdownPosts ==
    ASSUME TrayTypes, pipe \in Procs, Shutdown
    PROVE  /\ posts' \in [Procs -> Seq(Messages)]
           /\ posts' = posts \/ posts' = [posts EXCEPT ![pipe] = Append(@, "quit")]
  <1>1. posts \in [Procs -> Seq(Messages)]
    BY DEF TrayTypes, Messages
  <1>2. CASE Free
    <2>1. posts' = [posts EXCEPT ![pipe] = Append(@, "quit")]
      BY <1>2 DEF Shutdown
    <2> QED BY <2>1, Appended DEF Messages
  <1>3. CASE ~Free
    BY <1>1, <1>3 DEF Shutdown
  <1> QED BY <1>2, <1>3

(* The steps of a start move the main thread and touch the files of the user. *)
LEMMA StartTypes ==
    ASSUME TypeInv, NEW p \in Procs, StartStep(p) PROVE TypeInv'
  <1> USE DEF TypeInv, ProcTypes, DataTypes
  <1>0. Past \subseteq Past \cup {"off", "check", "wait", "recheck"} /\ "dirs" \in Past
    BY DEF Past
  <1>1. ASSUME Check(p) PROVE TypeInv'
    <2>1. ProcTypes'
      BY <1>1 DEF Check, GoOn, Goto, Past
    <2>2. posts' = posts \/ (pipe \in Procs /\ Shutdown)
      BY <1>1 DEF Check
    <2>3. posts' \in [Procs -> Seq({"zh", "en", "show", "hide", "quit"})]
      BY <2>2, ShutdownPosts DEF TrayTypes, Messages
    <2> QED BY <1>1, <2>1, <2>3
            DEF Check, TrayTypes, MarketTypes, JobInv, dataVars, marketVars
  <1>2. ASSUME Poll(p) \/ Recheck(p) \/ RunServer(p) \/ CreatePipe(p) PROVE TypeInv'
    <2>1. ProcTypes'
      BY <1>2 DEF Poll, Recheck, RunServer, CreatePipe, GoOn, Goto, Past
    <2>2. pipe' = pipe \/ pipe' \in Procs
      BY <1>2 DEF Poll, Recheck, RunServer, CreatePipe
    <2>3. UNCHANGED <<dataVars, trayVars, job, marketVars, ops>>
      BY <1>2 DEF Poll, Recheck, RunServer, CreatePipe
    <2> QED BY <2>1, <2>2, <2>3 DEF TrayTypes, MarketTypes, JobInv, dataVars, trayVars, marketVars
  <1>3. ASSUME EnsureUserConfig(p) \/ CopyDirContents(p) \/ StartEngine(p) \/ CopyDict(p)
        PROVE  TypeInv'
    <2>1. ProcTypes' /\ DataTypes'
      BY <1>3 DEF EnsureUserConfig, CopyDirContents, StartEngine, CopyDict, Goto, Past
    <2>2. UNCHANGED <<pipe, trayVars, job, marketVars, ops>>
      BY <1>3 DEF EnsureUserConfig, CopyDirContents, StartEngine, CopyDict
    <2> QED BY <2>1, <2>2 DEF TrayTypes, MarketTypes, JobInv, trayVars, marketVars
  <1>4. ASSUME NewTrayIcon(p) PROVE TypeInv'
    <2>1. ProcTypes' /\ TrayTypes'
      BY <1>4 DEF NewTrayIcon, Goto, Past, TrayTypes
    <2> QED BY <1>4, <2>1 DEF NewTrayIcon, MarketTypes, JobInv, dataVars, marketVars
  <1> QED BY <1>1, <1>2, <1>3, <1>4 DEF StartStep

(* Ending, and the tray. *)
LEMMA GoneTypes ==
    ASSUME TypeInv, NEW p \in Procs, Gone(p), ops' \in 0..MaxOps PROVE TypeInv'
  <1>1. ProcTypes'
    BY DEF TypeInv, Gone, Goto, ProcTypes
  <1>2. DataTypes'
    BY DEF TypeInv, Gone, CutOff, DataTypes
  <1>3. TrayTypes'
    BY DEF TypeInv, Gone, TrayTypes
  <1>4. job' = job \/ job' = NoJob
    BY DEF Gone
  <1>5. job.op # "none" /\ job' = job => pipe' \in Procs
    <2>1. pipe' = pipe \/ (pipe' = None /\ job' = NoJob)
      BY DEF Gone
    <2> QED BY <2>1, NoJobIsIdle DEF TypeInv, JobInv
  <1>6. JobInv'
    BY <1>4, <1>5, NoJobIsIdle DEF TypeInv, JobInv
  <1>7. job.arch \subseteq Files /\ Listed(job.reg) \subseteq Files
    <2>1. job \in JobStates
      BY DEF TypeInv, JobInv
    <2>2. \A k \in Packages : job.reg[k] \in Entries
      BY <2>1 DEF JobStates
    <2> QED BY <2>1, <2>2 DEF JobStates, Listed, Entries
  <1>8. mess' \subseteq Files
    BY <1>7 DEF TypeInv, Gone, CutOff, MarketTypes
  <1>9. store' \in [Packages -> SUBSET Archives]
    <2>1. Bad \in Archives
      BY DEF Archives
    <2>2. store' = store \/ store' = [store EXCEPT ![job.pkg] = @ \cup {Bad}]
      BY DEF Gone, CutOff
    <2> QED BY <2>1, <2>2 DEF TypeInv, MarketTypes
  <1> QED BY <1>1, <1>2, <1>3, <1>6, <1>8, <1>9 DEF TypeInv, Gone, MarketTypes

LEMMA PostTypes ==
    ASSUME TrayTypes, NEW p \in Procs, NEW m \in Messages, Post(p, m)
    PROVE  /\ posts' \in [Procs -> Seq(Messages)]
           /\ HasWindow(p) => posts'[p] = Append(posts[p], m)
           /\ ~HasWindow(p) => posts' = posts
           /\ \A q \in Procs : q # p => posts'[q] = posts[q]
  <1>1. CASE HasWindow(p)
    BY <1>1, Appended DEF Post
  <1>2. CASE ~HasWindow(p)
    BY <1>2 DEF Post, TrayTypes, Messages
  <1> QED BY <1>1, <1>2

(* The next message, and those after it. *)
LEMMA TailTypes ==
    ASSUME TrayTypes, NEW p \in Procs, posts[p] # <<>>, posts' = [posts EXCEPT ![p] = Tail(@)]
    PROVE  /\ posts' \in [Procs -> Seq(Messages)] /\ posts'[p] = Tail(posts[p])
           /\ \A q \in Procs : q # p => posts'[q] = posts[q]
  <1>1. posts \in [Procs -> Seq(Messages)]
    BY DEF TrayTypes, Messages
  <1>2. Tail(posts[p]) \in Seq(Messages)
    BY <1>1
  <1> QED BY <1>1, <1>2

LEMMA MoreOps == ASSUME ops \in 0..MaxOps, Op PROVE ops' \in 0..MaxOps
  BY MaxOpsAssumption DEF Op

LEMMA LoopTypes ==
    ASSUME TypeInv, NEW p \in Procs, LoopStep(p) \/ Kill(p) \/ Launch(p) PROVE TypeInv'
  <1>1. ASSUME LeaveLoop(p) \/ Launch(p) PROVE TypeInv'
    <2>1. ProcTypes' /\ ops' \in 0..MaxOps
      BY <1>1, MoreOps DEF LeaveLoop, Launch, Goto, TypeInv, ProcTypes, Past
    <2> QED BY <1>1, <2>1 DEF LeaveLoop, Launch, TypeInv, DataTypes, TrayTypes, MarketTypes, JobInv,
                              dataVars, trayVars, marketVars
  <1>2. ASSUME Exit(p) \/ Kill(p) PROVE TypeInv'
    BY <1>2, GoneTypes, MoreOps DEF Exit, Kill, TypeInv
  <1>3. ASSUME WindowProc(p) PROVE TypeInv'
    <2>1. icon' \in [Procs -> BOOLEAN] /\ visible' \in [Procs -> BOOLEAN]
      <3>1. \/ \E b \in BOOLEAN : icon' = [icon EXCEPT ![p] = b] /\ visible' = visible
            \/ \E b \in BOOLEAN : visible' = [visible EXCEPT ![p] = b] /\ icon' = icon
        BY <1>3 DEF WindowProc, DoUpdateIcon, DoShowOrHide
      <3> QED BY <3>1 DEF TypeInv, TrayTypes
    <2>2. posts' \in [Procs -> Seq(Messages)]
      BY <1>3, TailTypes DEF WindowProc, TypeInv
    <2>3. TrayTypes'
      BY <1>3, <2>1, <2>2 DEF WindowProc, TypeInv, TrayTypes, Messages
    <2> QED BY <1>3, <2>3 DEF WindowProc, TypeInv, ProcTypes, DataTypes, MarketTypes, JobInv,
                              procVars, dataVars, marketVars
  <1>4. ASSUME RefreshIcon(p) PROVE TypeInv'
    BY <1>4 DEF RefreshIcon, TypeInv, ProcTypes, DataTypes, TrayTypes, MarketTypes, JobInv,
                procVars, dataVars, marketVars
  <1> QED BY <1>1, <1>2, <1>3, <1>4 DEF LoopStep

LEMMA TrayStepTypes ==
    ASSUME TypeInv, \/ QuitCommand
                    \/ \E p \in Procs : TrayToggle(p) \/ TrayQuit(p)
                    \/ \E m \in Requests : ShowTrayIcon(m)
    PROVE  TypeInv'
  <1>1. ASSUME NEW p \in Procs, TrayToggle(p) PROVE TypeInv'
    <2>1. (IF ascii[p] THEN "zh" ELSE "en") \in Messages
      BY DEF Messages
    <2>2. posts' \in [Procs -> Seq(Messages)]
      BY <1>1, <2>1, PostTypes DEF TrayToggle, TypeInv
    <2>3. /\ ascii' \in [Procs -> BOOLEAN] /\ static' \in [Procs -> BOOLEAN]
          /\ missed' \in [Procs -> BOOLEAN]
      BY <1>1 DEF TrayToggle, Told, TypeInv, TrayTypes
    <2>4. TrayTypes' /\ ops' \in 0..MaxOps
      BY <1>1, <2>2, <2>3, MoreOps DEF TrayToggle, Chosen, TypeInv, TrayTypes, Messages
    <2> QED BY <1>1, <2>4 DEF TrayToggle, TypeInv, ProcTypes, DataTypes, MarketTypes, JobInv,
                              procVars, dataVars, marketVars
  <1>2. ASSUME QuitCommand \/ \E p \in Procs : TrayQuit(p) PROVE TypeInv'
    <2>1. Op /\ pipe \in Procs /\ Shutdown
          /\ UNCHANGED <<procVars, dataVars, ascii, static, icon, visible, missed, asked, job,
                         marketVars>>
      BY <1>2 DEF QuitCommand, TrayQuit, Chosen, TypeInv, ProcTypes
    <2>2. posts' \in [Procs -> Seq(Messages)] /\ ops' \in 0..MaxOps
      BY <2>1, ShutdownPosts, MoreOps DEF TypeInv
    <2>3. TrayTypes'
      BY <2>1, <2>2 DEF TypeInv, TrayTypes, Messages
    <2> QED BY <2>1, <2>2, <2>3 DEF TypeInv, ProcTypes, DataTypes, MarketTypes, JobInv,
                                    procVars, dataVars, marketVars
  <1>3. ASSUME NEW m \in Requests, ShowTrayIcon(m) PROVE TypeInv'
    <2>1. /\ pipe \in Procs /\ m \in {"show", "hide"} /\ m \in Messages /\ Post(pipe, m) /\ Op
          /\ asked' = [asked EXCEPT ![pipe] = IF HasWindow(pipe) THEN m = "show" ELSE @]
      BY <1>3 DEF ShowTrayIcon, TypeInv, ProcTypes, Messages
    <2>2. asked' \in [Procs -> BOOLEAN]
      BY <2>1 DEF TypeInv, TrayTypes
    <2>3. posts' \in [Procs -> Seq(Messages)] /\ ops' \in 0..MaxOps
      BY <2>1, PostTypes, MoreOps DEF TypeInv
    <2>4. TrayTypes'
      BY <1>3, <2>2, <2>3 DEF ShowTrayIcon, TypeInv, TrayTypes, Messages
    <2> QED BY <1>3, <2>3, <2>4 DEF ShowTrayIcon, TypeInv, ProcTypes, DataTypes, MarketTypes, JobInv,
                                    procVars, dataVars, marketVars
  <1> QED BY <1>1, <1>2, <1>3

(* Requests and their steps. *)
LEMMA FirstTypes ==
    ASSUME NEW op \in RequestNames
    PROVE  First(op) \in {"set", "dir", "open", "load", "run"}
  BY DEF First

LEMMA RequestJob ==
    ASSUME TypeInv, NEW op \in Requests, NEW k \in Packages \cup {None}, Request(op, k)
    PROVE  JobInv' /\ job'.op = op /\ job'.arch = {} /\ job'.todo = {}
           /\ job'.at \in {"set", "dir", "open", "load", "run"}
  <1>1. op \in RequestNames
    BY RequestsAssumption
  <1>2. job' = [NoJob EXCEPT !.op = op, !.pkg = k, !.at = First(op)]
    BY DEF Request
  <1>3. /\ job' \in JobStates /\ job'.op = op /\ job'.pkg = k /\ job'.at = First(op)
        /\ job'.arch = {} /\ job'.todo = {}
    BY <1>1, <1>2, FirstTypes, NoJobIsIdle DEF JobStates
  <1>4. k = None => op \notin {"download", "install", "uninstall"}
    BY <1>1 DEF Request, RequestNames
  <1>5. pipe' \in Procs
    BY DEF Request, procVars, TypeInv, ProcTypes
  <1> QED BY <1>1, <1>3, <1>4, <1>5, FirstTypes DEF JobInv

LEMMA RequestTypes ==
    ASSUME TypeInv, NEW op \in Requests, NEW k \in Packages \cup {None}, Request(op, k)
    PROVE  TypeInv'
  <1>1. JobInv'
    BY RequestJob
  <1>2. ops' \in 0..MaxOps
    BY MoreOps DEF Request, TypeInv
  <1> QED BY <1>1, <1>2 DEF Request, TypeInv, ProcTypes, DataTypes, TrayTypes, MarketTypes,
                            procVars, dataVars, trayVars, marketVars

JobPlaces == {"set", "tray", "post", "run", "dir", "fetch", "written", "open", "copy",
              "load", "remove", "save", "saved", "end"}

(* A step that moves the request on. *)
LEMMA JobMoves ==
    ASSUME JobInv, NEW a \in JobPlaces, job' = [job EXCEPT !.at = a]
    PROVE  /\ job' \in JobStates /\ job'.at = a /\ job'.op = job.op /\ job'.pkg = job.pkg
           /\ job'.mode = job.mode /\ job'.todo = job.todo /\ job'.arch = job.arch
           /\ job'.reg = job.reg
  BY DEF JobInv, JobStates, JobPlaces

LEMMA DoneKeepsJob == ASSUME Done PROVE JobInv'
  BY NoJobIsIdle DEF Done, JobInv

LEMMA ToggleTypes == ASSUME TypeInv, ToggleStep PROVE TypeInv'
  <1>0. /\ UNCHANGED <<procVars, dataVars, icon, visible, asked, marketVars, ops>>
        /\ pipe \in Procs /\ job.op = "toggle" /\ JobInv /\ TrayTypes /\ job.arch = {}
    BY DEF ToggleStep, TypeInv, JobInv
  <1>1. CASE /\ job.at = "set" /\ job' = [job EXCEPT !.at = "tray", !.mode = ~ascii[pipe]]
             /\ ascii' = [ascii EXCEPT ![pipe] = ~@] /\ UNCHANGED <<static, posts, missed>>
    <2>1. /\ job' \in JobStates /\ job'.op = job.op /\ job'.at = "tray"
          /\ job'.arch = job.arch /\ job'.todo = job.todo /\ job'.pkg = job.pkg
      BY <1>0, <1>1 DEF JobInv, JobStates, TrayTypes
    <2>2. JobInv'
      BY <1>0, <2>1 DEF JobInv, procVars
    <2>3. TrayTypes'
      BY <1>0, <1>1 DEF TrayTypes
    <2> QED BY <1>0, <2>2, <2>3 DEF TypeInv, ProcTypes, DataTypes, MarketTypes, procVars, dataVars,
                                    marketVars
  <1>2. CASE /\ job.at = "tray" /\ Step("post") /\ static' = [static EXCEPT ![pipe] = job.mode]
             /\ UNCHANGED <<ascii, posts, missed>>
    <2>1. /\ job' \in JobStates /\ job'.op = job.op /\ job'.at = "post"
          /\ job'.arch = job.arch /\ job'.todo = job.todo /\ job'.pkg = job.pkg
      BY <1>0, <1>2, JobMoves DEF JobPlaces, Step
    <2>2. JobInv'
      BY <1>0, <2>1 DEF JobInv, procVars
    <2>3. job.mode \in BOOLEAN
      BY <1>0 DEF JobInv, JobStates
    <2>4. TrayTypes'
      BY <1>0, <1>2, <2>3 DEF TrayTypes
    <2> QED BY <1>0, <2>2, <2>4 DEF TypeInv, ProcTypes, DataTypes, MarketTypes, procVars, dataVars,
                                    marketVars
  <1>3. CASE /\ job.at = "post" /\ Done /\ Post(pipe, IF job.mode THEN "en" ELSE "zh") /\ Told(pipe)
             /\ UNCHANGED <<ascii, static>>
    <2>1. (IF job.mode THEN "en" ELSE "zh") \in Messages
      BY DEF Messages
    <2>2. posts' \in [Procs -> Seq(Messages)]
      BY <1>0, <1>3, <2>1, PostTypes
    <2>3. missed' \in [Procs -> BOOLEAN]
      BY <1>0, <1>3 DEF Told, TrayTypes
    <2>4. TrayTypes'
      BY <1>0, <1>3, <2>2, <2>3 DEF TrayTypes, Messages
    <2> QED BY <1>0, <1>3, <2>4, DoneKeepsJob DEF TypeInv, ProcTypes, DataTypes, MarketTypes, procVars,
                                    dataVars, marketVars
  <1> QED BY <1>1, <1>2, <1>3 DEF ToggleStep

Quiet == ReloadConfig \/ SelectSchema \/ ProcessKeyEvent

(* What the three requests do that change the mode in passing. *)
LEMMA QuietFacts ==
    ASSUME TypeInv, Quiet
    PROVE  /\ job.op \in {"reload", "select", "key"} /\ pipe \in Procs
           /\ \E mode \in BOOLEAN : Quietly(mode)
  <1>1. pipe \in Procs => ascii[pipe] \in BOOLEAN
    BY DEF TypeInv, TrayTypes
  <1>2. job.op \in {"reload", "select", "key"} /\ pipe \in Procs
    BY DEF Quiet, ReloadConfig, SelectSchema, ProcessKeyEvent, TypeInv, JobInv
  <1>3. ASSUME ReloadConfig PROVE \E mode \in BOOLEAN : Quietly(mode)
    BY <1>3 DEF ReloadConfig
  <1>4. ASSUME SelectSchema PROVE \E mode \in BOOLEAN : Quietly(mode)
    <2>1. \A mode \in {FALSE, ascii[pipe]} : mode \in BOOLEAN
      BY <1>1, <1>2
    <2> QED BY <1>4, <2>1, Zenon DEF SelectSchema
  <1>5. ASSUME ProcessKeyEvent PROVE \E mode \in BOOLEAN : Quietly(mode)
    BY <1>5 DEF ProcessKeyEvent
  <1> QED BY <1>2, <1>3, <1>4, <1>5 DEF Quiet

LEMMA SmallTypes == ASSUME TypeInv, Quiet \/ ListStep \/ FetchIndex PROVE TypeInv'
  <1>0. CASE Quiet
    <2>1. PICK mode \in BOOLEAN : Quietly(mode)
      BY <1>0, QuietFacts
    <2>2. ascii' \in [Procs -> BOOLEAN] /\ missed' \in [Procs -> BOOLEAN]
      BY <2>1 DEF Quietly, TypeInv, TrayTypes
    <2>3. TrayTypes'
      BY <2>1, <2>2 DEF Quietly, TypeInv, TrayTypes
    <2> QED BY <2>1, <2>3, DoneKeepsJob DEF Quietly, TypeInv, ProcTypes, DataTypes, MarketTypes,
                                            procVars, dataVars, marketVars
  <1>1. CASE ListStep \/ FetchIndex
    <2>1. Done /\ UNCHANGED <<procVars, dataVars, trayVars, marketVars, ops>>
      BY <1>1 DEF ListStep, FetchIndex
    <2> QED BY <2>1, DoneKeepsJob DEF TypeInv, ProcTypes, DataTypes, TrayTypes, MarketTypes,
                                      procVars, dataVars, trayVars, marketVars
  <1> QED BY <1>0, <1>1

LEMMA DownloadTypes == ASSUME TypeInv, DownloadSchema PROVE TypeInv'
  <1>0. UNCHANGED <<procVars, dataVars, trayVars, files, reg, mess, ops>> /\ JobInv
        /\ job.op = "download"
    BY DEF DownloadSchema, TypeInv
  <1>1. Done \/ \E a \in {"fetch", "written"} : Step(a)
    BY DEF DownloadSchema
  <1>2. ASSUME NEW a \in {"fetch", "written"}, Step(a) PROVE JobInv'
    <2>1. /\ job' \in JobStates /\ job'.op = job.op /\ job'.at = a
          /\ job'.arch = job.arch /\ job'.todo = job.todo /\ job'.pkg = job.pkg
      BY <1>0, <1>2, JobMoves DEF JobPlaces, Step
    <2> QED BY <1>0, <2>1 DEF JobInv, procVars
  <1>3. JobInv'
    BY <1>1, <1>2, DoneKeepsJob
  <1>4. store' \in [Packages -> SUBSET Archives]
    <2>1. \/ store' = store
          \/ \E old : store' = [store EXCEPT ![job.pkg] = @ \ old]
          \/ \E a \in Archives : store' = [store EXCEPT ![job.pkg] = @ \cup {a}]
      BY DEF DownloadSchema
    <2> QED BY <2>1 DEF TypeInv, MarketTypes
  <1> QED BY <1>0, <1>3, <1>4 DEF TypeInv, ProcTypes, DataTypes, TrayTypes, MarketTypes, procVars,
                                  dataVars, trayVars

-----------------------------------------------------------------------------
(* The market. *)

(* What a step on a package leaves of the rest. *)
MarketFrame == UNCHANGED <<procVars, dataVars, trayVars, store, ops>>

LEMMA MarketTypesSuffice ==
    ASSUME TypeInv, MarketFrame, JobInv', files' \subseteq Files, mess' \subseteq Files,
           reg' \in [Packages -> Entries]
    PROVE  TypeInv'
  BY DEF MarketFrame, TypeInv, ProcTypes, DataTypes, TrayTypes, MarketTypes, procVars, dataVars,
         trayVars

LEMMA ListedType == ASSUME NEW r \in [Packages -> Entries] PROVE Listed(r) \subseteq Files
  BY DEF Listed, Entries

(* The archive that is installed is a set of files: neither cut off nor empty. *)
LEMMA OpenArchiveFacts ==
    ASSUME TypeInv, OpenArchive
    PROVE  /\ JobInv' /\ UNCHANGED <<procVars, marketVars>> /\ MarketFrame
           /\ \/ Done
              \/ /\ job'.op = "install" /\ job'.at = "copy" /\ job'.todo = job'.arch
                 /\ job'.pkg = job.pkg
  <1>1. /\ job.op = "install" /\ JobInv /\ pipe \in Procs /\ job.pkg \in Packages
        /\ UNCHANGED <<procVars, marketVars>> /\ MarketFrame
    BY DEF OpenArchive, MarketFrame, marketVars, TypeInv, JobInv
  <1>2. ASSUME NEW a \in store[job.pkg] \ {Bad, {}},
               job' = [job EXCEPT !.at = "copy", !.todo = a, !.arch = a]
        PROVE  /\ JobInv' /\ job'.op = "install" /\ job'.at = "copy" /\ job'.todo = job'.arch
               /\ job'.pkg = job.pkg
    <2>1. a \in SUBSET Files
      BY <1>1 DEF TypeInv, MarketTypes, Archives
    <2>2. /\ job' \in JobStates /\ job'.op = "install" /\ job'.at = "copy" /\ job'.todo = a
          /\ job'.arch = a /\ job'.pkg = job.pkg
      BY <1>1, <1>2, <2>1 DEF JobInv, JobStates
    <2> QED BY <1>1, <2>2 DEF JobInv, procVars
  <1>3. Done \/ \E a \in store[job.pkg] \ {Bad, {}} :
                   job' = [job EXCEPT !.at = "copy", !.todo = a, !.arch = a]
    BY DEF OpenArchive
  <1> QED BY <1>1, <1>2, <1>3, DoneKeepsJob

(* One file of the archive is copied, or the installation ends. *)
CopiesOne(f) ==
    /\ files' = files \cup {f} /\ mess' = mess
    /\ job'.op = "install" /\ job'.pkg = job.pkg /\ job'.arch = job.arch
    /\ job'.todo = job.todo \ {f} /\ job'.at = (IF job.todo = {f} THEN "save" ELSE "copy")
    /\ job'.reg = [reg EXCEPT ![job.pkg] = job.arch]
CopyStops ==
    /\ Done /\ mess' = mess \cup job.arch
    /\ \E copied \in SUBSET job.arch : files' = files \cup copied

LEMMA CopyFileFacts ==
    ASSUME TypeInv, CopyFile
    PROVE  /\ JobInv' /\ MarketFrame /\ UNCHANGED <<procVars, reg>>
           /\ CopyStops \/ \E f \in job.todo : CopiesOne(f)
  <1>1. /\ job.op = "install" /\ JobInv /\ pipe \in Procs /\ job.pkg \in Packages
        /\ UNCHANGED <<procVars, reg>> /\ MarketFrame
        /\ job.arch \subseteq Files /\ job.todo \subseteq job.arch
    BY DEF CopyFile, MarketFrame, TypeInv, JobInv, JobStates
  <1>2. ASSUME NEW f \in job.todo, files' = files \cup {f}, mess' = mess,
               job' = [job EXCEPT !.todo = @ \ {f},
                                  !.at = IF job.todo = {f} THEN "save" ELSE "copy",
                                  !.reg = [reg EXCEPT ![job.pkg] = job.arch]]
        PROVE  JobInv' /\ CopiesOne(f)
    <2>1. [reg EXCEPT ![job.pkg] = job.arch] \in [Packages -> Entries]
      BY <1>1 DEF TypeInv, MarketTypes, Entries
    <2>2. /\ job' \in JobStates /\ job'.op = "install" /\ job'.pkg = job.pkg
          /\ job'.at = (IF job.todo = {f} THEN "save" ELSE "copy")
          /\ job'.todo = job.todo \ {f} /\ job'.arch = job.arch
          /\ job'.reg = [reg EXCEPT ![job.pkg] = job.arch]
      BY <1>1, <1>2, <2>1 DEF JobInv, JobStates
    <2>3. job'.at \notin {"open", "load"}
      BY <2>2
    <2> QED BY <1>1, <1>2, <2>2, <2>3 DEF JobInv, CopiesOne, procVars
  <1>3. ASSUME Done, mess' = mess \cup job.arch,
               files' \in {files} \cup {files \cup {f} : f \in job.todo}
        PROVE  JobInv' /\ CopyStops
    <2>1. CASE files' = files
      <3>1. files' = files \cup {}
        BY <2>1
      <3> QED BY <1>3, <3>1, DoneKeepsJob DEF CopyStops
    <2>2. ASSUME NEW f \in job.todo, files' = files \cup {f} PROVE JobInv' /\ CopyStops
      BY <1>1, <1>3, <2>2, DoneKeepsJob DEF CopyStops
    <2> QED BY <1>3, <2>1, <2>2
  <1>4. \/ /\ Done /\ mess' = mess \cup job.arch
           /\ files' \in {files} \cup {files \cup {f} : f \in job.todo}
        \/ \E f \in job.todo :
              /\ files' = files \cup {f} /\ mess' = mess
              /\ job' = [job EXCEPT !.todo = @ \ {f},
                                    !.at = IF job.todo = {f} THEN "save" ELSE "copy",
                                    !.reg = [reg EXCEPT ![job.pkg] = job.arch]]
    BY DEF CopyFile
  <1> QED BY <1>1, <1>2, <1>3, <1>4

(* An entry of the registry is taken out: its files are what is to be removed. *)
LEMMA LoadEntryFacts ==
    ASSUME TypeInv, LoadEntry
    PROVE  /\ JobInv' /\ UNCHANGED <<procVars, marketVars>> /\ MarketFrame
           /\ \/ Done
              \/ /\ job'.op = "uninstall" /\ job'.pkg = job.pkg /\ job.pkg \in Packages
                 /\ job'.at = (IF reg[job.pkg] = {} THEN "save" ELSE "remove")
                 /\ job'.todo = reg[job.pkg] /\ job'.arch = reg[job.pkg]
                 /\ job'.reg = [reg EXCEPT ![job.pkg] = None]
  <1>1. /\ job.op = "uninstall" /\ JobInv /\ pipe \in Procs /\ job.pkg \in Packages
        /\ UNCHANGED <<procVars, marketVars>> /\ MarketFrame
    BY DEF LoadEntry, MarketFrame, marketVars, TypeInv, JobInv
  <1>2. CASE reg[job.pkg] = None
    BY <1>1, <1>2, DoneKeepsJob DEF LoadEntry
  <1>3. CASE reg[job.pkg] # None
    <2>1. reg[job.pkg] \in SUBSET Files
      BY <1>1, <1>3 DEF TypeInv, MarketTypes, Entries
    <2>2. [reg EXCEPT ![job.pkg] = None] \in [Packages -> Entries]
      BY DEF TypeInv, MarketTypes, Entries
    <2>3. job' = [job EXCEPT !.at = IF reg[job.pkg] = {} THEN "save" ELSE "remove",
                             !.todo = reg[job.pkg], !.arch = reg[job.pkg],
                             !.reg = [reg EXCEPT ![job.pkg] = None]]
      BY <1>3 DEF LoadEntry
    <2>4. /\ job' \in JobStates /\ job'.op = "uninstall" /\ job'.pkg = job.pkg
          /\ job'.at = (IF reg[job.pkg] = {} THEN "save" ELSE "remove")
          /\ job'.todo = reg[job.pkg] /\ job'.arch = reg[job.pkg]
          /\ job'.reg = [reg EXCEPT ![job.pkg] = None]
      BY <1>1, <2>1, <2>2, <2>3 DEF JobInv, JobStates
    <2>5. job'.at \notin {"open", "load"}
      BY <2>4
    <2> QED BY <1>1, <2>4, <2>5 DEF JobInv, procVars
  <1> QED BY <1>2, <1>3

LEMMA RemoveFileFacts ==
    ASSUME TypeInv, RemoveFile
    PROVE  /\ JobInv' /\ UNCHANGED <<procVars, reg>> /\ MarketFrame
           /\ \E f \in job.todo :
                /\ \/ files' = files \ {f} /\ mess' = mess
                   \/ mess' = mess \cup {f} /\ files' = files
                /\ job'.op = "uninstall" /\ job'.pkg = job.pkg
                /\ job'.at = (IF job.todo = {f} THEN "save" ELSE "remove")
                /\ job'.todo = job.todo \ {f} /\ job'.arch = job.arch /\ job'.reg = job.reg
  <1>1. /\ job.op = "uninstall" /\ JobInv /\ pipe \in Procs /\ job.pkg \in Packages
        /\ UNCHANGED <<procVars, reg>> /\ MarketFrame
    BY DEF RemoveFile, MarketFrame, TypeInv, JobInv
  <1>2. PICK f \in job.todo :
           /\ \/ files' = files \ {f} /\ mess' = mess
              \/ mess' = mess \cup {f} /\ files' = files
           /\ job' = [job EXCEPT !.todo = @ \ {f},
                                 !.at = IF job.todo = {f} THEN "save" ELSE "remove"]
    BY DEF RemoveFile
  <1>3. /\ job' \in JobStates /\ job'.op = "uninstall" /\ job'.pkg = job.pkg
        /\ job'.at = (IF job.todo = {f} THEN "save" ELSE "remove")
        /\ job'.todo = job.todo \ {f} /\ job'.arch = job.arch /\ job'.reg = job.reg
    BY <1>1, <1>2 DEF JobInv, JobStates
  <1>4. job'.at \notin {"open", "load"}
    BY <1>3
  <1>5. JobInv'
    BY <1>1, <1>3, <1>4 DEF JobInv, procVars
  <1> QED BY <1>1, <1>2, <1>3, <1>5

(* The registry is emptied, and then written or not. *)
LEMMA SaveRegistryFacts ==
    ASSUME TypeInv, SaveRegistry
    PROVE  /\ JobInv' /\ UNCHANGED <<procVars, files>> /\ MarketFrame
           /\ job.op \in {"install", "uninstall"} /\ job.pkg \in Packages
           /\ \/ /\ job.at = "save" /\ reg' = NoRegistry /\ job'.at = "saved"
                 /\ job'.op = job.op /\ job'.pkg = job.pkg /\ job'.todo = job.todo
                 /\ job'.arch = job.arch /\ job'.reg = job.reg
                 /\ mess' = IF job.op = "install" /\ reg[job.pkg] # None
                            THEN mess \cup (reg[job.pkg] \ job.arch) ELSE mess
              \/ job.at = "save" /\ Done /\ mess' = mess \cup job.arch /\ UNCHANGED reg
              \/ /\ job.at = "saved" /\ Done /\ mess' = mess \cup job.arch \cup Listed(job.reg)
                 /\ UNCHANGED reg
              \/ /\ job.at = "saved" /\ Done /\ reg' = job.reg
                 /\ mess' = IF job.op = "install" THEN mess \ job.arch
                            ELSE mess \cup (job.arch \cap Listed(job.reg))
  <1>1. /\ JobInv /\ UNCHANGED <<procVars, files>> /\ MarketFrame
        /\ job.at \in {"save", "saved"}
    BY DEF SaveRegistry, MarketFrame, TypeInv
  <1>2. job.op \in {"install", "uninstall"} /\ job.pkg \in Packages /\ pipe \in Procs
    BY <1>1 DEF JobInv
  <1>3. ASSUME Step("saved")
        PROVE  /\ JobInv' /\ job'.at = "saved"
               /\ job'.op = job.op /\ job'.pkg = job.pkg /\ job'.todo = job.todo
               /\ job'.arch = job.arch /\ job'.reg = job.reg
    <2>1. /\ job' \in JobStates /\ job'.at = "saved" /\ job'.op = job.op /\ job'.pkg = job.pkg
          /\ job'.todo = job.todo /\ job'.arch = job.arch /\ job'.reg = job.reg
      BY <1>1, <1>3, JobMoves DEF Step, JobPlaces
    <2> QED BY <1>1, <1>2, <2>1 DEF JobInv, procVars
  <1> QED BY <1>1, <1>2, <1>3, DoneKeepsJob DEF SaveRegistry

LEMMA MarketStepTypes ==
    ASSUME TypeInv, OpenArchive \/ CopyFile \/ LoadEntry \/ RemoveFile \/ SaveRegistry
    PROVE  TypeInv'
  <1>0. /\ files \subseteq Files /\ mess \subseteq Files /\ reg \in [Packages -> Entries]
        /\ job.arch \subseteq Files /\ job.todo \subseteq job.arch
        /\ job.reg \in [Packages -> Entries]
    BY DEF TypeInv, MarketTypes, JobInv, JobStates
  <1>1. CASE OpenArchive
    BY <1>0, <1>1, OpenArchiveFacts, MarketTypesSuffice DEF marketVars
  <1>2. CASE CopyFile
    BY <1>0, <1>2, CopyFileFacts, MarketTypesSuffice DEF CopyStops, CopiesOne
  <1>3. CASE LoadEntry
    BY <1>0, <1>3, LoadEntryFacts, MarketTypesSuffice DEF marketVars
  <1>4. CASE RemoveFile
    <2>1. files' \subseteq Files /\ mess' \subseteq Files
      BY <1>0, <1>4, RemoveFileFacts
    <2> QED BY <1>0, <1>4, <2>1, RemoveFileFacts, MarketTypesSuffice
  <1>5. CASE SaveRegistry
    <2>1. reg' \in [Packages -> Entries]
      BY <1>0, <1>5, SaveRegistryFacts DEF NoRegistry, Entries
    <2>2. \A k \in Packages : reg[k] # None => reg[k] \subseteq Files
      BY <1>0 DEF Entries
    <2>3. mess' \subseteq Files
      BY <1>0, <1>5, <2>2, SaveRegistryFacts, ListedType
    <2> QED BY <1>5, <1>0, <2>1, <2>3, SaveRegistryFacts, MarketTypesSuffice
  <1> QED BY <1>1, <1>2, <1>3, <1>4, <1>5

LEMMA NextTypes == TypeInv /\ [Next]_vars => TypeInv'
  <1> SUFFICES ASSUME TypeInv, [Next]_vars PROVE TypeInv'
    OBVIOUS
  <1>1. ASSUME NEW p \in Procs, Launch(p) \/ StartStep(p) \/ LoopStep(p) \/ Kill(p) PROVE TypeInv'
    BY <1>1, StartTypes, LoopTypes
  <1>2. ASSUME \/ QuitCommand
               \/ \E p \in Procs : TrayToggle(p) \/ TrayQuit(p)
               \/ \E m \in Requests : ShowTrayIcon(m)
        PROVE  TypeInv'
    BY <1>2, TrayStepTypes
  <1>3. CASE HandlerStep
    BY <1>3, ToggleTypes, SmallTypes, DownloadTypes, MarketStepTypes DEF HandlerStep, Quiet
  <1>4. ASSUME NEW op \in Requests, NEW k \in Packages \cup {None}, Request(op, k) PROVE TypeInv'
    BY <1>4, RequestTypes
  <1>5. CASE UNCHANGED vars
    BY <1>5 DEF vars, TypeInv, ProcTypes, DataTypes, TrayTypes, MarketTypes, JobInv, procVars,
                dataVars, trayVars, marketVars
  <1> QED BY <1>1, <1>2, <1>3, <1>4, <1>5 DEF Next

LEMMA TypesAlways == Spec => []TypeInv
  BY InitTypes, NextTypes, PTL DEF Spec

(* Every variable of the process model holds a value of its type: the request    *)
(* under way, its archive and the registry it is about to write included.        *)
THEOREM TypeCorrect == Spec => []TypeOK
  BY TypesAlways, TypeInvIsTypeOK, PTL

-----------------------------------------------------------------------------
(* Who serves. *)

(* Two servers that are both past the look for a running one have missed each    *)
(* other; of a server's IPC thread.                                              *)
Serving == {"tray", "loop", "cleanup"}
RaceInv ==
    /\ \A p, q \in Procs : p # q /\ at[p] \in Past /\ at[q] \in Past => p \in raced
    /\ \A p \in Procs : /\ ipc[p] # "none" <=> at[p] \in Serving
                        /\ ipc[p] = "on" <=> pipe = p
                        /\ ipc[p] = "deaf" => p \in raced

(* No step but a start, an end and the making of the pipe moves a process. *)
LEMMA OthersStay ==
    ASSUME TypeInv, NEW a, NEW p \in Procs, Goto(p, a)
    PROVE  at'[p] = a /\ \A q \in Procs : q # p => at'[q] = at[q]
  BY DEF TypeInv, ProcTypes, Goto

LEMMA RaceInit == Init => RaceInv
  BY NoneAssumption DEF Init, RaceInv, Past, Serving

LEMMA RaceStart ==
    ASSUME TypeInv, RaceInv, NEW p \in Procs, StartStep(p) PROVE RaceInv'
  <1>0. /\ at \in [Procs -> Past \cup {"off", "check", "wait", "recheck"}]
        /\ ipc \in [Procs -> {"none", "starting", "on", "deaf"}]
    BY DEF TypeInv, ProcTypes
  <1>1. ASSUME GoOn(p), pipe = None, at[p] \in {"check", "recheck"}, UNCHANGED <<pipe, ipc>>
        PROVE  RaceInv'
    <2>1. at'[p] = "dirs" /\ \A q \in Procs : q # p => at'[q] = at[q]
      BY <1>1, OthersStay DEF GoOn
    <2> DEFINE unseen == {q \in Procs \ {p} : at[q] \in Past /\ pipe # q}
    <2>2. raced' = IF unseen = {} THEN raced ELSE raced \cup unseen \cup {p}
      BY <1>1 DEF GoOn
    <2>3. \A q \in Procs : q # p /\ at[q] \in Past => q \in unseen
      BY <1>1, NoneAssumption
    <2> HIDE DEF unseen
    <2>4. raced \subseteq raced'
      BY <2>2
    <2>5. \A q \in Procs : q # p /\ at[q] \in Past => q \in raced' /\ p \in raced'
      BY <2>2, <2>3
    <2>6. at[p] \notin Serving /\ at'[p] \notin Serving
      BY <1>1, <2>1 DEF Serving
    <2> QED BY <1>1, <2>1, <2>4, <2>5, <2>6 DEF RaceInv
  <1>2. ASSUME NEW a, Goto(p, a), at[p] \in Past <=> a \in Past, at[p] \in Serving <=> a \in Serving,
               UNCHANGED <<pipe, ipc, raced>>
        PROVE  RaceInv'
    <2>1. at'[p] = a /\ \A q \in Procs : q # p => at'[q] = at[q]
      BY <1>2, OthersStay
    <2> QED BY <1>2, <2>1 DEF RaceInv
  <1>3. ASSUME NEW a, Goto(p, a), a \notin Past, a \notin Serving, at[p] \notin Serving,
               UNCHANGED <<pipe, ipc, raced>>
        PROVE  RaceInv'
    <2>1. at'[p] = a /\ \A q \in Procs : q # p => at'[q] = at[q]
      BY <1>3, OthersStay
    <2> QED BY <1>3, <2>1 DEF RaceInv
  <1>4. CASE Check(p)
    <2>1. CASE pipe = None
      BY <1>1, <1>4, <2>1 DEF Check
    <2>2. CASE pipe # None
      BY <1>3, <1>4, <2>2 DEF Check, Past, Serving
    <2> QED BY <2>1, <2>2
  <1>5. CASE Poll(p)
    BY <1>3, <1>5 DEF Poll, Past, Serving
  <1>6. CASE Recheck(p)
    <2>1. CASE pipe = None
      BY <1>1, <1>6, <2>1 DEF Recheck
    <2>2. CASE pipe # None
      BY <1>3, <1>6, <2>2 DEF Recheck, Past, Serving
    <2> QED BY <2>1, <2>2
  <1>7. ASSUME EnsureUserConfig(p) \/ CopyDirContents(p) \/ StartEngine(p) \/ CopyDict(p)
        PROVE  RaceInv'
    <2>1. /\ at[p] \in {"dirs", "copy", "engine", "dict"} /\ UNCHANGED <<pipe, ipc, raced>>
          /\ \E a \in {"off", "engine", "copy", "dict", "serve"} : Goto(p, a)
      BY <1>7 DEF EnsureUserConfig, CopyDirContents, StartEngine, CopyDict
    <2>2. PICK a \in {"off", "engine", "copy", "dict", "serve"} : Goto(p, a)
      BY <2>1
    <2>3. at[p] \in Past /\ at[p] \notin Serving /\ a \notin Serving
      BY <2>1 DEF Past, Serving
    <2>4. a = "off" \/ a \in Past
      BY DEF Past
    <2>5. "off" \notin Past
      BY DEF Past
    <2> QED BY <1>2, <1>3, <2>1, <2>2, <2>3, <2>4, <2>5
  <1>8. CASE RunServer(p)
    <2>1. /\ at'[p] = "tray" /\ at[p] = "serve" /\ \A q \in Procs : q # p => at'[q] = at[q]
          /\ UNCHANGED <<pipe, raced>>
      BY <1>8, OthersStay DEF RunServer
    <2>2. ipc'[p] = "starting" /\ \A q \in Procs : q # p => ipc'[q] = ipc[q]
      BY <1>0, <1>8 DEF RunServer
    <2>3. /\ at[p] \in Past /\ at'[p] \in Past /\ at[p] \notin Serving /\ at'[p] \in Serving
      BY <2>1 DEF Past, Serving
    <2>4. pipe # p
      BY <2>3 DEF RaceInv
    <2> QED BY <2>1, <2>2, <2>3, <2>4 DEF RaceInv
  <1>9. CASE CreatePipe(p)
    <2>1. /\ ipc[p] = "starting" /\ UNCHANGED <<at, raced>> /\ at[p] \in Serving
          /\ \A q \in Procs : q # p => ipc'[q] = ipc[q]
      BY <1>0, <1>9 DEF CreatePipe, RaceInv
    <2>2. CASE pipe = None
      <3>1. pipe' = p /\ ipc'[p] = "on"
        BY <1>0, <1>9, <2>2 DEF CreatePipe
      <3> QED BY <2>1, <2>2, <3>1, NoneAssumption DEF RaceInv
    <2>3. CASE pipe # None
      <3>1. pipe' = pipe /\ ipc'[p] = "deaf"
        BY <1>0, <1>9, <2>3 DEF CreatePipe
      <3>2. PICK q \in Procs : pipe = q
        BY <2>3 DEF TypeInv, ProcTypes
      <3>3. q # p /\ at[q] \in Serving
        BY <2>1, <3>2 DEF RaceInv
      <3>4. at[p] \in Past /\ at[q] \in Past
        BY <2>1, <3>3 DEF Serving, Past
      <3>5. p \in raced
        BY <3>3, <3>4 DEF RaceInv
      <3> QED BY <2>1, <3>1, <3>2, <3>3, <3>5 DEF RaceInv
    <2> QED BY <2>2, <2>3
  <1>10. CASE NewTrayIcon(p)
    BY <1>2, <1>10 DEF NewTrayIcon, Past, Serving
  <1> QED BY <1>4, <1>5, <1>6, <1>7, <1>8, <1>9, <1>10 DEF StartStep

LEMMA RaceGone ==
    ASSUME TypeInv, RaceInv, NEW p \in Procs, Gone(p) PROVE RaceInv'
  <1>1. /\ at'[p] = "off" /\ ipc'[p] = "none" /\ raced' = raced \ {p}
        /\ pipe' = IF pipe = p THEN None ELSE pipe
        /\ \A q \in Procs : q # p => at'[q] = at[q] /\ ipc'[q] = ipc[q]
    BY OthersStay DEF Gone, TypeInv, ProcTypes
  <1>2. "off" \notin Past /\ "off" \notin Serving
    BY DEF Past, Serving
  <1> QED BY <1>1, <1>2, NoneAssumption DEF RaceInv

LEMMA RaceNext == ASSUME TypeInv, RaceInv, [Next]_vars PROVE RaceInv'
  <1>1. ASSUME UNCHANGED procVars PROVE RaceInv'
    BY <1>1 DEF procVars, RaceInv
  <1>2. ASSUME NEW p \in Procs, LoopStep(p) \/ Kill(p) \/ Launch(p) PROVE RaceInv'
    <2>1. CASE Exit(p) \/ Kill(p)
      BY <2>1, RaceGone DEF Exit, Kill
    <2>2. CASE WindowProc(p) \/ RefreshIcon(p)
      BY <1>1, <2>2 DEF WindowProc, RefreshIcon
    <2>3. CASE LeaveLoop(p) \/ Launch(p)
      <3>1. /\ UNCHANGED <<pipe, ipc, raced>>
            /\ \/ at[p] = "loop" /\ at'[p] = "cleanup"
               \/ at[p] = "off" /\ at'[p] = "check"
            /\ \A q \in Procs : q # p => at'[q] = at[q]
        BY <2>3, OthersStay DEF LeaveLoop, Launch
      <3>2. (at[p] \in Past <=> at'[p] \in Past) /\ (at[p] \in Serving <=> at'[p] \in Serving)
        BY <3>1 DEF Past, Serving
      <3> QED BY <3>1, <3>2 DEF RaceInv
    <2> QED BY <1>2, <2>1, <2>2, <2>3 DEF LoopStep
  <1>3. ASSUME NEW p \in Procs, TrayToggle(p) \/ TrayQuit(p) PROVE UNCHANGED procVars
    BY <1>3 DEF TrayToggle, TrayQuit
  <1>4. QuitCommand \/ HandlerStep => UNCHANGED procVars
    BY DEF QuitCommand, HandlerStep, ToggleStep, ReloadConfig, SelectSchema, ProcessKeyEvent, Quietly,
           ListStep, FetchIndex, DownloadSchema, OpenArchive, CopyFile, LoadEntry, RemoveFile, SaveRegistry
  <1>5. ASSUME NEW op \in Requests, NEW k \in Packages \cup {None}, ShowTrayIcon(op) \/ Request(op, k)
        PROVE  UNCHANGED procVars
    BY <1>5 DEF ShowTrayIcon, Request
  <1>6. UNCHANGED vars => UNCHANGED procVars
    BY DEF vars
  <1> QED BY <1>1, <1>2, <1>3, <1>4, <1>5, <1>6, RaceStart DEF Next

LEMMA RaceAlways == Spec => [](TypeInv /\ RaceInv)
  <1>1. TypeInv /\ RaceInv /\ [Next]_vars => RaceInv'
    BY RaceNext
  <1> QED BY <1>1, RaceInit, TypesAlways, PTL DEF Spec

(* However many servers are started, and however long the old one takes to go, a *)
(* server in its message loop has the pipe, unless it and another started before *)
(* either was listening.                                                         *)
THEOREM RunningServesAlways == Spec => []RunningServes
  <1>1. TypeInv /\ RaceInv => RunningServes
    <2> SUFFICES ASSUME TypeInv, RaceInv, NEW p \in Procs, at[p] = "loop", ipc[p] # "starting"
                 PROVE  pipe = p \/ p \in raced
      BY DEF RunningServes
    <2>1. ipc[p] \in {"on", "deaf"}
      BY DEF TypeInv, ProcTypes, RaceInv, Serving
    <2> QED BY <2>1 DEF RaceInv
  <1> QED BY <1>1, RaceAlways, PTL

-----------------------------------------------------------------------------
(* The files of a first start. *)

(* A part of a copy is there only while somebody copies, and who has got past    *)
(* the copies has found or made all of it.                                       *)
DataInv ==
    ~cut => /\ user = "part" => \E p \in Procs : at[p] = "copy"
            /\ dict = "part" => \E p \in Procs : at[p] = "dict"
            /\ \A p \in Procs :
                  /\ at[p] \in {"engine", "dict", "serve"} \cup Serving => user = "whole"
                  /\ at[p] \in {"serve"} \cup Serving => dict = "whole"

LEMMA DataInit == Init => DataInv
  BY DEF Init, DataInv, Serving

(* What moves the main thread without a copy leaves the files as they are. *)
LEMMA DataFrame ==
    ASSUME TypeInv, DataInv, NEW p \in Procs, NEW a, Goto(p, a), UNCHANGED dataVars,
           at[p] \notin {"copy", "dict"},
           a \in {"engine", "dict", "serve"} \cup Serving => at[p] \in {"serve"} \cup Serving
    PROVE  DataInv'
  <1>1. at'[p] = a /\ \A q \in Procs : q # p => at'[q] = at[q]
    BY OthersStay
  <1>2. UNCHANGED <<user, dict, cut>>
    BY DEF dataVars
  <1>3. \A q \in Procs : (at[q] = "copy" => at'[q] = "copy") /\ (at[q] = "dict" => at'[q] = "dict")
    BY <1>1
  <1> QED BY <1>1, <1>2, <1>3 DEF DataInv, Serving

LEMMA DataStart ==
    ASSUME TypeInv, DataInv, NEW p \in Procs, StartStep(p) PROVE DataInv'
  <1>1. ASSUME Check(p) \/ Poll(p) \/ Recheck(p) PROVE DataInv'
    <2>1. /\ at[p] \in {"check", "wait", "recheck"} /\ UNCHANGED dataVars
          /\ \E a \in {"dirs", "wait", "recheck", "off"} : Goto(p, a)
      BY <1>1 DEF Check, Poll, Recheck, GoOn
    <2> QED BY <2>1, DataFrame DEF Serving
  <1>2. ASSUME RunServer(p) \/ NewTrayIcon(p) PROVE DataInv'
    <2>1. /\ at[p] \in {"serve", "tray"} /\ UNCHANGED dataVars
          /\ \E a \in {"tray", "loop"} : Goto(p, a)
      BY <1>2 DEF RunServer, NewTrayIcon
    <2> QED BY <2>1, DataFrame DEF Serving
  <1>3. CASE CreatePipe(p)
    BY <1>3 DEF CreatePipe, DataInv, dataVars
  <1>4. CASE EnsureUserConfig(p)
    <2>1. /\ cut' = (cut \/ \E q \in Procs \ {p} : at[q] = "copy") /\ dict' = dict
          /\ at[p] = "dirs"
      BY <1>4 DEF EnsureUserConfig
    <2>2. CASE \/ Goto(p, "off") /\ user' = user
               \/ user # "none" /\ Goto(p, "engine") /\ user' = user
      <3>1. /\ at'[p] \in {"off", "engine"} /\ \A q \in Procs : q # p => at'[q] = at[q]
            /\ user' = user
            /\ at'[p] = "engine" => user # "none"
        BY <2>2, OthersStay
      <3>2. ~cut' => user' # "part"
        BY <2>1, <3>1 DEF DataInv
      <3>3. ~cut' /\ at'[p] = "engine" => user' = "whole"
        BY <3>1, <3>2 DEF TypeInv, DataTypes
      <3> QED BY <2>1, <3>1, <3>2, <3>3 DEF DataInv, Serving
    <2>3. CASE user # "whole" /\ Goto(p, "copy") /\ user' = "part"
      <3>1. at'[p] = "copy" /\ \A q \in Procs : q # p => at'[q] = at[q]
        BY <2>3, OthersStay
      <3> QED BY <2>1, <2>3, <3>1 DEF DataInv, Serving
    <2> QED BY <1>4, <2>2, <2>3 DEF EnsureUserConfig
  <1>5. CASE CopyDirContents(p)
    <2>1. /\ at'[p] = "engine" /\ at[p] = "copy" /\ \A q \in Procs : q # p => at'[q] = at[q]
          /\ dict' = dict /\ ((cut' = cut /\ user' = "whole") \/ cut' = TRUE)
      BY <1>5, OthersStay DEF CopyDirContents
    <2> QED BY <2>1 DEF DataInv, Serving
  <1>6. CASE StartEngine(p)
    <2>1. at[p] = "engine" /\ user' = user
      BY <1>6 DEF StartEngine
    <2>2. CASE Goto(p, "off") /\ UNCHANGED <<dict, cut>>
      BY <2>1, <2>2, DataFrame DEF dataVars, Serving
    <2>3. CASE /\ IF dict = "none" THEN Goto(p, "dict") /\ dict' = "part"
                  ELSE Goto(p, "serve") /\ UNCHANGED dict
               /\ cut' = (cut \/ \E q \in Procs \ {p} : at[q] = "dict")
      <3>1. CASE dict = "none"
        <4>1. at'[p] = "dict" /\ dict' = "part" /\ \A q \in Procs : q # p => at'[q] = at[q]
          BY <2>3, <3>1, OthersStay
        <4> QED BY <2>1, <2>3, <3>1, <4>1 DEF DataInv, Serving
      <3>2. CASE dict # "none"
        <4>1. at'[p] = "serve" /\ dict' = dict /\ \A q \in Procs : q # p => at'[q] = at[q]
          BY <2>3, <3>2, OthersStay
        <4>2. ~cut' => dict # "part"
          BY <2>1, <2>3 DEF DataInv
        <4>3. ~cut' => dict = "whole"
          BY <3>2, <4>2 DEF TypeInv, DataTypes
        <4> QED BY <2>1, <2>3, <4>1, <4>3 DEF DataInv, Serving
      <3> QED BY <3>1, <3>2
    <2> QED BY <1>6, <2>2, <2>3 DEF StartEngine
  <1>7. CASE CopyDict(p)
    <2>1. /\ at'[p] = "serve" /\ at[p] = "dict" /\ \A q \in Procs : q # p => at'[q] = at[q]
          /\ user' = user /\ ((cut' = cut /\ dict' = "whole") \/ cut' = TRUE)
      BY <1>7, OthersStay DEF CopyDict
    <2> QED BY <2>1 DEF DataInv, Serving
  <1> QED BY <1>1, <1>2, <1>3, <1>4, <1>5, <1>6, <1>7 DEF StartStep

LEMMA DataNext == ASSUME TypeInv, DataInv, [Next]_vars PROVE DataInv'
  <1>1. ASSUME UNCHANGED procVars, UNCHANGED dataVars PROVE DataInv'
    BY <1>1 DEF procVars, dataVars, DataInv
  <1>2. ASSUME NEW p \in Procs, Gone(p) PROVE DataInv'
    <2>1. /\ at'[p] = "off" /\ \A q \in Procs : q # p => at'[q] = at[q]
          /\ cut' = (cut \/ at[p] \in {"copy", "dict"}) /\ UNCHANGED <<user, dict>>
      BY <1>2, OthersStay DEF Gone, CutOff
    <2> QED BY <2>1 DEF DataInv, Serving
  <1>3. ASSUME NEW p \in Procs, LeaveLoop(p) \/ Launch(p) PROVE DataInv'
    <2>1. /\ at[p] \in {"loop", "off"} /\ UNCHANGED dataVars
          /\ \E a \in {"cleanup", "check"} : Goto(p, a) /\ (a = "cleanup" => at[p] = "loop")
      BY <1>3 DEF LeaveLoop, Launch
    <2> QED BY <2>1, DataFrame DEF Serving
  <1>4. ASSUME NEW p \in Procs, WindowProc(p) \/ RefreshIcon(p) \/ TrayToggle(p) \/ TrayQuit(p)
        PROVE  UNCHANGED procVars /\ UNCHANGED dataVars
    BY <1>4 DEF WindowProc, RefreshIcon, TrayToggle, TrayQuit
  <1>5. QuitCommand \/ HandlerStep => UNCHANGED procVars /\ UNCHANGED dataVars
    BY DEF QuitCommand, HandlerStep, ToggleStep, ReloadConfig, SelectSchema, ProcessKeyEvent, Quietly,
           ListStep, FetchIndex, DownloadSchema, OpenArchive, CopyFile, LoadEntry, RemoveFile, SaveRegistry
  <1>6. ASSUME NEW op \in Requests, NEW k \in Packages \cup {None}, ShowTrayIcon(op) \/ Request(op, k)
        PROVE  UNCHANGED procVars /\ UNCHANGED dataVars
    BY <1>6 DEF ShowTrayIcon, Request
  <1>7. UNCHANGED vars => UNCHANGED procVars /\ UNCHANGED dataVars
    BY DEF vars
  <1> QED BY <1>1, <1>2, <1>3, <1>4, <1>5, <1>6, <1>7, DataStart
          DEF Next, LoopStep, Exit, Kill

(* A server that serves has all of the user's files and of the dictionary, unless*)
(* a copy failed, was cut off or met another start: for any number of starts and *)
(* kills, the looks at the directory never take a part for the whole otherwise.  *)
THEOREM DataWholeAlways == Spec => []DataWhole
  <1>1. TypeInv /\ DataInv /\ [Next]_vars => DataInv'
    BY DataNext
  <1>2. DataInv => DataWhole
    BY DEF DataInv, DataWhole, Serving
  <1> QED BY <1>1, <1>2, DataInit, TypesAlways, PTL DEF Spec

-----------------------------------------------------------------------------

(* The tray. *)

(* After the messages s, which say on or off or something else, what is now      *)
(* shown will be what is wanted.                                                 *)
WillShow(s, on, off, now, want) ==
    \/ now = want /\ \A i \in DOMAIN s : s[i] \notin {on, off}
    \/ \E i \in DOMAIN s : /\ s[i] = IF want THEN on ELSE off
                           /\ \A j \in DOMAIN s : i < j => s[j] \notin {on, off}

LEMMA ShownAtLast ==
    ASSUME NEW on, NEW off, NEW now, NEW want, WillShow(<<>>, on, off, now, want)
    PROVE  now = want
  BY DEF WillShow

LEMMA AppendedParts ==
    ASSUME NEW s \in Seq(Messages), NEW m \in Messages
    PROVE  /\ Len(s) \in Nat /\ DOMAIN s = 1..Len(s) /\ DOMAIN Append(s, m) = 1..Len(s) + 1
           /\ Append(s, m)[Len(s) + 1] = m /\ Len(s) + 1 \in 1..Len(s) + 1
           /\ \A i \in 1..Len(s) : i \in 1..Len(s) + 1 /\ Append(s, m)[i] = s[i]
           /\ \A i \in 1..Len(s) + 1 : i \in 1..Len(s) \/ i = Len(s) + 1
           /\ \A i \in 1..Len(s) + 1 : ~(Len(s) + 1 < i)
  OBVIOUS

(* A message about something else changes nothing, and one about this has the    *)
(* last word.                                                                    *)
LEMMA OtherMessage ==
    ASSUME NEW s \in Seq(Messages), NEW m \in Messages, NEW on, NEW off, NEW now, NEW want,
           m \notin {on, off}, WillShow(s, on, off, now, want)
    PROVE  WillShow(Append(s, m), on, off, now, want)
  <1>1. CASE now = want /\ \A i \in DOMAIN s : s[i] \notin {on, off}
    BY <1>1, AppendedParts DEF WillShow
  <1>2. CASE \E i \in DOMAIN s : /\ s[i] = IF want THEN on ELSE off
                                 /\ \A j \in DOMAIN s : i < j => s[j] \notin {on, off}
    <2>1. PICK i \in DOMAIN s : /\ s[i] = IF want THEN on ELSE off
                                /\ \A j \in DOMAIN s : i < j => s[j] \notin {on, off}
      BY <1>2
    <2>2. i \in DOMAIN Append(s, m) /\ Append(s, m)[i] = IF want THEN on ELSE off
      BY <2>1, AppendedParts
    <2>3. \A j \in DOMAIN Append(s, m) : i < j => Append(s, m)[j] \notin {on, off}
      BY <2>1, AppendedParts
    <2> QED BY <2>2, <2>3 DEF WillShow
  <1> QED BY <1>1, <1>2 DEF WillShow

LEMMA LastWord ==
    ASSUME NEW s \in Seq(Messages), NEW m \in Messages, NEW on, NEW off, NEW now, NEW want,
           m = IF want THEN on ELSE off
    PROVE  WillShow(Append(s, m), on, off, now, want)
  <1> DEFINE n == Len(s) + 1
  <1>1. n \in DOMAIN Append(s, m) /\ Append(s, m)[n] = IF want THEN on ELSE off
    BY AppendedParts
  <1>2. \A j \in DOMAIN Append(s, m) : ~(n < j)
    BY AppendedParts
  <1> HIDE DEF n
  <1> QED BY <1>1, <1>2 DEF WillShow

(* The first message is carried out. *)
LEMMA FirstMessage ==
    ASSUME NEW s \in Seq(Messages), s # <<>>, NEW on, NEW off, on # off, NEW now, NEW then,
           NEW want \in BOOLEAN, WillShow(s, on, off, now, want),
           \/ Head(s) \notin {on, off} /\ then = now
           \/ Head(s) \in {on, off} /\ then = (Head(s) = on)
    PROVE  WillShow(Tail(s), on, off, then, want)
  <1>1. /\ Len(s) \in Nat /\ DOMAIN s = 1..Len(s) /\ DOMAIN Tail(s) = 1..Len(s) - 1 /\ Head(s) = s[1]
        /\ 1 \in 1..Len(s)
        /\ \A i \in 1..Len(s) - 1 : i + 1 \in 1..Len(s) /\ 1 < i + 1 /\ Tail(s)[i] = s[i + 1]
    OBVIOUS
  <1>2. CASE now = want /\ \A i \in DOMAIN s : s[i] \notin {on, off}
    BY <1>1, <1>2 DEF WillShow
  <1>3. CASE \E i \in DOMAIN s : /\ s[i] = IF want THEN on ELSE off
                                 /\ \A j \in DOMAIN s : i < j => s[j] \notin {on, off}
    <2>1. PICK i \in DOMAIN s : /\ s[i] = IF want THEN on ELSE off
                                /\ \A j \in DOMAIN s : i < j => s[j] \notin {on, off}
      BY <1>3
    <2>2. CASE i = 1
      <3>1. then = want
        BY <1>1, <2>1, <2>2
      <3>2. \A j \in DOMAIN Tail(s) : Tail(s)[j] \notin {on, off}
        BY <1>1, <2>1, <2>2
      <3> QED BY <3>1, <3>2 DEF WillShow
    <2>3. CASE i # 1
      <3> DEFINE k == i - 1
      <3>1. k \in 1..Len(s) - 1 /\ k + 1 = i
        BY <1>1, <2>3
      <3>2. Tail(s)[k] = IF want THEN on ELSE off
        BY <1>1, <2>1, <3>1
      <3>3. \A j \in 1..Len(s) - 1 : k < j => i < j + 1
        BY <3>1
      <3> HIDE DEF k
      <3>4. \A j \in DOMAIN Tail(s) : k < j => Tail(s)[j] \notin {on, off}
        BY <1>1, <2>1, <3>3
      <3> QED BY <1>1, <3>1, <3>2, <3>4 DEF WillShow
    <2> QED BY <2>2, <2>3
  <1> QED BY <1>2, <1>3 DEF WillShow

(* A ToggleAsciiMode request of p has changed the engine and not yet posted.     *)
Toggling(p) == pipe = p /\ job.op = "toggle" /\ job.at \in {"tray", "post"}

(* Before there is a window, nothing but the end of the process is posted.       *)
BeforeTray(p) ==
    at[p] \notin {"loop", "cleanup"} =>
        /\ asked[p] /\ \A i \in DOMAIN posts[p] : posts[p][i] = "quit"
        /\ ~missed[p] /\ ~Toggling(p) => ~ascii[p] /\ ~static[p]

(* In the message loop, what is posted leads to what was asked and to the mode.  *)
LoopTray(p) ==
    at[p] = "loop" =>
        /\ WillShow(posts[p], "show", "hide", visible[p], asked[p])
        /\ ~missed[p] /\ ~Toggling(p) =>
              /\ static[p] = ascii[p]
              /\ WillShow(posts[p], "en", "zh", icon[p], ascii[p])

ModeInv ==
    /\ job.op = "toggle" /\ job.at \in {"tray", "post"} => job.mode = ascii[pipe]
    /\ job.op = "toggle" /\ job.at = "post" => job.mode = static[pipe]

TrayOf(p) == BeforeTray(p) /\ LoopTray(p)
TrayInv == ModeInv /\ \A p \in Procs : TrayOf(p)

LEMMA TrayInit == Init => TrayInv
  <1> SUFFICES ASSUME Init PROVE TrayInv
    OBVIOUS
  <1>1. ModeInv
    BY NoJobIsIdle DEF Init, ModeInv
  <1>2. ASSUME NEW p \in Procs PROVE TrayOf(p)
    <2>1. at[p] = "off" /\ asked[p] /\ posts[p] = <<>> /\ ~ascii[p] /\ ~static[p]
      BY DEF Init
    <2>2. DOMAIN posts[p] = {}
      BY <2>1
    <2> QED BY <2>1, <2>2 DEF TrayOf, BeforeTray, LoopTray
  <1> QED BY <1>1, <1>2 DEF TrayInv

(* What a step must leave alone for the tray of p to be as it was. *)
SamePlace(p) == at'[p] = at[p] \/ ({at[p], at'[p]} \cap {"loop", "cleanup"} = {})
SameShown(p) ==
    /\ ascii'[p] = ascii[p] /\ static'[p] = static[p] /\ icon'[p] = icon[p]
    /\ visible'[p] = visible[p] /\ missed'[p] = missed[p] /\ asked'[p] = asked[p]
SameToggle(p) == Toggling(p)' <=> Toggling(p)

LEMMA TrayFrame ==
    ASSUME NEW p \in Procs, TrayOf(p), SamePlace(p), SameShown(p), SameToggle(p),
           posts'[p] = posts[p]
    PROVE  TrayOf(p)'
  <1>1. BeforeTray(p)'
    BY DEF TrayOf, BeforeTray, SamePlace, SameShown, SameToggle
  <1>2. LoopTray(p)'
    BY DEF TrayOf, LoopTray, SamePlace, SameShown, SameToggle
  <1> QED BY <1>1, <1>2 DEF TrayOf

(* A step that leaves the tray and the request alone. *)
LEMMA TrayUntouched ==
    ASSUME TrayInv, UNCHANGED <<trayVars, job, pipe>>, \A p \in Procs : SamePlace(p)
    PROVE  TrayInv'
  <1>1. ModeInv'
    BY DEF TrayInv, ModeInv, trayVars
  <1>2. \A p \in Procs : SameShown(p) /\ SameToggle(p) /\ posts'[p] = posts[p]
    BY DEF SameShown, SameToggle, Toggling, trayVars
  <1> QED BY <1>1, <1>2, TrayFrame DEF TrayInv

(* The message that ends a process says nothing of its tray. *)
LEMMA QuitKeeps ==
    ASSUME TypeInv, TrayInv, pipe \in Procs, Shutdown, \A p \in Procs : SamePlace(p),
           UNCHANGED <<ascii, static, icon, visible, missed, asked, job, pipe>>
    PROVE  TrayInv'
  <1>0. posts \in [Procs -> Seq(Messages)] /\ TrayTypes
    BY DEF TypeInv, TrayTypes, Messages
  <1>1. ModeInv'
    BY DEF TrayInv, ModeInv
  <1>2. \A p \in Procs : SameShown(p) /\ SameToggle(p)
    BY DEF SameShown, SameToggle, Toggling
  <1>3. CASE posts' = posts
    BY <1>1, <1>2, <1>3, TrayFrame DEF TrayInv
  <1>4. CASE posts' = [posts EXCEPT ![pipe] = Append(@, "quit")]
    <2>1. /\ posts'[pipe] = Append(posts[pipe], "quit")
          /\ \A q \in Procs : q # pipe => posts'[q] = posts[q]
      BY <1>0, <1>4
    <2>2. \A q \in Procs : q # pipe => TrayOf(q)'
      BY <1>2, <2>1, TrayFrame DEF TrayInv
    <2>3. BeforeTray(pipe)'
      <3>1. "quit" \in Messages /\ posts[pipe] \in Seq(Messages)
        BY <1>0 DEF Messages
      <3>2. (\A i \in DOMAIN posts[pipe] : posts[pipe][i] = "quit")
                => \A i \in DOMAIN posts'[pipe] : posts'[pipe][i] = "quit"
        BY <2>1, <3>1, AppendedParts
      <3> QED BY <1>2, <3>2 DEF TrayInv, TrayOf, BeforeTray, SamePlace, SameShown, SameToggle
    <2>4. LoopTray(pipe)'
      <3> SUFFICES ASSUME at'[pipe] = "loop" PROVE LoopTray(pipe)'
        BY DEF LoopTray
      <3>1. "quit" \in Messages /\ posts[pipe] \in Seq(Messages) /\ "quit" \notin {"show", "hide"}
            /\ "quit" \notin {"en", "zh"}
        BY <1>0 DEF Messages
      <3>2. at[pipe] = "loop"
        BY DEF SamePlace
      <3>3. WillShow(posts[pipe], "show", "hide", visible[pipe], asked[pipe])
        BY <3>2 DEF TrayInv, TrayOf, LoopTray
      <3>4. WillShow(posts'[pipe], "show", "hide", visible[pipe], asked[pipe])
        BY <2>1, <3>1, <3>3, OtherMessage
      <3>5. ~missed[pipe] /\ ~Toggling(pipe) =>
               /\ static[pipe] = ascii[pipe]
               /\ WillShow(posts[pipe], "en", "zh", icon[pipe], ascii[pipe])
        BY <3>2 DEF TrayInv, TrayOf, LoopTray
      <3>6. ~missed[pipe] /\ ~Toggling(pipe) =>
               WillShow(posts'[pipe], "en", "zh", icon[pipe], ascii[pipe])
        BY <2>1, <3>1, <3>5, OtherMessage
      <3> QED BY <1>2, <3>4, <3>5, <3>6 DEF LoopTray, SameShown, SameToggle
    <2> QED BY <1>1, <2>2, <2>3, <2>4 DEF TrayInv, TrayOf
  <1> QED BY <1>0, <1>3, <1>4, ShutdownPosts

(* A process that has come to its window shows it, and Chinese. *)
LEMMA NewTrayKeeps ==
    ASSUME TypeInv, TrayInv, NEW p \in Procs, NewTrayIcon(p) PROVE TrayInv'
  <1>1. /\ at[p] = "tray" /\ at'[p] = "loop" /\ icon'[p] = FALSE /\ visible'[p] = TRUE
        /\ UNCHANGED <<ascii, static, posts, missed, asked, job, pipe>>
        /\ \A q \in Procs : q # p => /\ at'[q] = at[q] /\ icon'[q] = icon[q]
                                     /\ visible'[q] = visible[q]
    BY OthersStay DEF NewTrayIcon, TypeInv, TrayTypes
  <1>2. ModeInv'
    BY <1>1 DEF TrayInv, ModeInv
  <1>3. \A q \in Procs : q # p => TrayOf(q)'
    BY <1>1, TrayFrame DEF TrayInv, SamePlace, SameShown, SameToggle, Toggling
  <1>4. /\ asked[p] /\ \A i \in DOMAIN posts[p] : posts[p][i] = "quit"
        /\ ~missed[p] /\ ~Toggling(p) => ~ascii[p] /\ ~static[p]
    BY <1>1 DEF TrayInv, TrayOf, BeforeTray
  <1>5. /\ asked[p] = TRUE
        /\ ~missed[p] /\ ~Toggling(p) => ascii[p] = FALSE /\ static[p] = FALSE
    BY <1>4 DEF TypeInv, TrayTypes
  <1>6. LoopTray(p)'
    BY <1>1, <1>4, <1>5 DEF LoopTray, WillShow, Toggling
  <1> QED BY <1>1, <1>2, <1>3, <1>6 DEF TrayInv, TrayOf, BeforeTray

LEMMA TrayStart ==
    ASSUME TypeInv, TrayInv, NEW p \in Procs, StartStep(p) PROVE TrayInv'
  <1>1. ASSUME NEW a, Goto(p, a), at[p] \notin {"loop", "cleanup"}, a \notin {"loop", "cleanup"},
               NEW q \in Procs
        PROVE  SamePlace(q)
    <2>1. at'[p] = a /\ (q # p => at'[q] = at[q])
      BY <1>1, OthersStay
    <2> QED BY <1>1, <2>1 DEF SamePlace
  <1>2. CASE Check(p)
    <2>1. \E a \in {"dirs", "wait"} : Goto(p, a)
      BY <1>2 DEF Check, GoOn
    <2>2. \A q \in Procs : SamePlace(q)
      BY <1>1, <1>2, <2>1 DEF Check
    <2>3. CASE pipe = None
      BY <1>2, <2>2, <2>3, TrayUntouched DEF Check, trayVars
    <2>4. CASE pipe # None
      <3>1. pipe \in Procs /\ Shutdown /\ UNCHANGED <<ascii, static, icon, visible, missed, asked, job, pipe>>
        BY <1>2, <2>4 DEF Check, TypeInv, ProcTypes
      <3> QED BY <2>2, <3>1, QuitKeeps
    <2> QED BY <2>3, <2>4
  <1>3. ASSUME \/ Poll(p) \/ Recheck(p) \/ EnsureUserConfig(p) \/ CopyDirContents(p) \/ StartEngine(p)
               \/ CopyDict(p) \/ RunServer(p)
        PROVE  TrayInv'
    <2>1. /\ UNCHANGED <<trayVars, job, pipe>> /\ at[p] \notin {"loop", "cleanup"}
          /\ \E a \in {"recheck", "dirs", "off", "engine", "copy", "serve", "dict", "tray"} : Goto(p, a)
      BY <1>3 DEF Poll, Recheck, EnsureUserConfig, CopyDirContents, StartEngine, CopyDict, RunServer,
                  GoOn
    <2>2. \A q \in Procs : SamePlace(q)
      BY <1>1, <2>1
    <2> QED BY <2>1, <2>2, TrayUntouched
  <1>4. CASE CreatePipe(p)
    <2>1. /\ UNCHANGED <<at, trayVars, job>>
          /\ \/ pipe' = pipe
             \/ pipe = None
      BY <1>4 DEF CreatePipe
    <2>2. CASE pipe' = pipe
      BY <2>1, <2>2, TrayUntouched DEF SamePlace
    <2>3. CASE pipe = None
      <3>1. job.op = "none"
        BY <2>3, NoneAssumption DEF TypeInv, JobInv
      <3>2. ModeInv'
        BY <2>1, <3>1 DEF ModeInv
      <3>3. \A q \in Procs : SamePlace(q) /\ SameShown(q) /\ SameToggle(q) /\ posts'[q] = posts[q]
        BY <2>1, <3>1 DEF SamePlace, SameShown, SameToggle, Toggling, trayVars
      <3> QED BY <3>2, <3>3, TrayFrame DEF TrayInv
    <2> QED BY <2>1, <2>2, <2>3
  <1>5. CASE NewTrayIcon(p)
    BY <1>5, NewTrayKeeps
  <1> QED BY <1>2, <1>3, <1>4, <1>5 DEF StartStep

LEMMA TrayGone ==
    ASSUME TypeInv, TrayInv, NEW p \in Procs, Gone(p) PROVE TrayInv'
  <1>1. /\ at'[p] = "off" /\ ~ascii'[p] /\ ~static'[p] /\ posts'[p] = <<>> /\ asked'[p]
        /\ \A q \in Procs : q # p => at'[q] = at[q] /\ SameShown(q) /\ posts'[q] = posts[q]
    BY OthersStay DEF Gone, TypeInv, TrayTypes, SameShown
  <1>2. \/ pipe = p /\ pipe' = None /\ job' = NoJob
        \/ pipe # p /\ pipe' = pipe /\ job' = job
    BY DEF Gone
  <1>3. \A q \in Procs : q # p => SameToggle(q)
    BY <1>2, NoJobIsIdle DEF SameToggle, Toggling
  <1>4. \A q \in Procs : q # p => TrayOf(q)'
    BY <1>1, <1>3, TrayFrame DEF TrayInv, SamePlace
  <1>5. DOMAIN posts'[p] = {}
    BY <1>1
  <1>6. TrayOf(p)'
    BY <1>1, <1>5 DEF TrayOf, BeforeTray, LoopTray
  <1>7. ModeInv'
    <2>1. CASE job' = NoJob
      BY <2>1, NoJobIsIdle DEF ModeInv
    <2>2. CASE pipe # p /\ pipe' = pipe /\ job' = job
      <3>1. job.op = "toggle" => pipe \in Procs
        BY DEF TypeInv, JobInv
      <3>2. job.op = "toggle" => ascii'[pipe] = ascii[pipe] /\ static'[pipe] = static[pipe]
        BY <1>1, <2>2, <3>1 DEF SameShown
      <3> QED BY <2>2, <3>2 DEF TrayInv, ModeInv
    <2> QED BY <1>2, <2>1, <2>2
  <1> QED BY <1>4, <1>6, <1>7 DEF TrayInv

(* A message about the visibility leaves the mode's messages as they were, and   *)
(* the other way round.                                                          *)
LEMMA WordsApart ==
    /\ {"show", "hide"} \subseteq Messages /\ {"en", "zh"} \subseteq Messages
    /\ \A m \in {"show", "hide"} : m \notin {"en", "zh"}
    /\ \A m \in {"en", "zh"} : m \notin {"show", "hide"}
    /\ "show" # "hide" /\ "en" # "zh"
  BY DEF Messages

(* The mode of p was changed and its window told: whatever was under way before. *)
LEMMA ToldOfMode ==
    ASSUME TypeInv, NEW p \in Procs, TrayOf(p), NEW m \in BOOLEAN,
           at[p] = "loop", at'[p] = at[p], ascii'[p] = m, static'[p] = m,
           posts'[p] = Append(posts[p], IF m THEN "en" ELSE "zh"),
           visible'[p] = visible[p], asked'[p] = asked[p]
    PROVE  TrayOf(p)'
  <1> DEFINE w == IF m THEN "en" ELSE "zh"
  <1>1. posts[p] \in Seq(Messages) /\ w \in Messages /\ w \notin {"show", "hide"}
    BY WordsApart DEF TypeInv, TrayTypes, Messages
  <1>2. WillShow(posts[p], "show", "hide", visible[p], asked[p])
    BY DEF TrayOf, LoopTray
  <1>3. WillShow(Append(posts[p], w), "show", "hide", visible[p], asked[p])
    <2> HIDE DEF w
    <2> QED BY <1>1, <1>2, OtherMessage
  <1>4. WillShow(Append(posts[p], w), "en", "zh", icon'[p], m)
    BY <1>1, LastWord
  <1> QED BY <1>3, <1>4 DEF TrayOf, BeforeTray, LoopTray

LEMMA TrayToggleKeeps ==
    ASSUME TypeInv, TrayInv, NEW p \in Procs, TrayToggle(p) PROVE TrayInv'
  <1>1. /\ at[p] = "loop" /\ UNCHANGED <<at, pipe, icon, visible, asked, job>>
        /\ (pipe = p => job = NoJob)
    BY DEF TrayToggle, Chosen, HasWindow, LockOf, Free, procVars
  <1>2. ascii[p] \in BOOLEAN
    BY DEF TypeInv, TrayTypes
  <1> DEFINE m == ~ascii[p]
  <1>3. /\ ascii'[p] = m /\ static'[p] = m /\ m \in BOOLEAN
        /\ \A q \in Procs : q # p => ascii'[q] = ascii[q] /\ static'[q] = static[q]
                                     /\ missed'[q] = missed[q]
    BY <1>2 DEF TrayToggle, Told, TypeInv, TrayTypes
  <1>4. posts'[p] = Append(posts[p], IF m THEN "en" ELSE "zh")
        /\ \A q \in Procs : q # p => posts'[q] = posts[q]
    <2>1. (IF ascii[p] THEN "zh" ELSE "en") = (IF m THEN "en" ELSE "zh")
      BY <1>2
    <2>2. (IF ascii[p] THEN "zh" ELSE "en") \in Messages
      BY DEF Messages
    <2> QED BY <1>1, <2>1, <2>2, PostTypes DEF TrayToggle, HasWindow, TypeInv
  <1> HIDE DEF m
  <1>5. TrayOf(p)'
    BY <1>1, <1>3, <1>4, ToldOfMode DEF TrayInv
  <1>6. \A q \in Procs : q # p => TrayOf(q)'
    BY <1>1, <1>3, <1>4, TrayFrame DEF TrayInv, SamePlace, SameShown, SameToggle, Toggling
  <1>7. ModeInv'
    <2>1. job.op = "toggle" => pipe \in Procs /\ pipe # p
      BY <1>1, NoJobIsIdle DEF TypeInv, JobInv
    <2> QED BY <1>1, <1>3, <2>1 DEF TrayInv, ModeInv
  <1> QED BY <1>5, <1>6, <1>7 DEF TrayInv

LEMMA WindowKeeps ==
    ASSUME TypeInv, TrayInv, NEW p \in Procs, WindowProc(p) PROVE TrayInv'
  <1>1. /\ at[p] = "loop" /\ UNCHANGED <<at, pipe, ascii, static, missed, asked, job>>
        /\ posts[p] # <<>> /\ posts[p] \in Seq(Messages)
    BY DEF WindowProc, HasWindow, procVars, TypeInv, TrayTypes, Messages
  <1>2. posts'[p] = Tail(posts[p]) /\ \A q \in Procs : q # p => posts'[q] = posts[q]
    BY TailTypes DEF WindowProc, TypeInv
  <1>3. \A q \in Procs : q # p => icon'[q] = icon[q] /\ visible'[q] = visible[q]
    BY DEF WindowProc, DoUpdateIcon, DoShowOrHide, TypeInv, TrayTypes
  <1> DEFINE h == Head(posts[p])
  <1>4. \/ h \in {"zh", "en"} /\ icon'[p] = (h = "en") /\ visible'[p] = visible[p]
        \/ h \in {"show", "hide"} /\ visible'[p] = (h = "show") /\ icon'[p] = icon[p]
    BY DEF WindowProc, DoUpdateIcon, DoShowOrHide, TypeInv, TrayTypes
  <1> HIDE DEF h
  <1>5. /\ \/ h \notin {"en", "zh"} /\ icon'[p] = icon[p]
           \/ h \in {"en", "zh"} /\ icon'[p] = (h = "en")
        /\ \/ h \notin {"show", "hide"} /\ visible'[p] = visible[p]
           \/ h \in {"show", "hide"} /\ visible'[p] = (h = "show")
    BY <1>4, WordsApart
  <1>6. asked[p] \in BOOLEAN /\ ascii[p] \in BOOLEAN
    BY DEF TypeInv, TrayTypes
  <1>7. WillShow(Tail(posts[p]), "show", "hide", visible'[p], asked[p])
    <2>1. WillShow(posts[p], "show", "hide", visible[p], asked[p])
      BY <1>1 DEF TrayInv, TrayOf, LoopTray
    <2> QED BY <1>1, <1>5, <1>6, <2>1, FirstMessage, WordsApart DEF h
  <1>8. ~missed[p] /\ ~Toggling(p) =>
           static[p] = ascii[p] /\ WillShow(Tail(posts[p]), "en", "zh", icon'[p], ascii[p])
    <2>1. ~missed[p] /\ ~Toggling(p) =>
             static[p] = ascii[p] /\ WillShow(posts[p], "en", "zh", icon[p], ascii[p])
      BY <1>1 DEF TrayInv, TrayOf, LoopTray
    <2> QED BY <1>1, <1>5, <1>6, <2>1, FirstMessage, WordsApart DEF h
  <1>9. LoopTray(p)'
    BY <1>1, <1>2, <1>7, <1>8 DEF LoopTray, Toggling
  <1>10. BeforeTray(p)'
    BY <1>1 DEF BeforeTray
  <1>11. \A q \in Procs : q # p => TrayOf(q)'
    BY <1>1, <1>2, <1>3, TrayFrame DEF TrayInv, SamePlace, SameShown, SameToggle, Toggling
  <1>12. ModeInv'
    BY <1>1 DEF TrayInv, ModeInv
  <1> QED BY <1>9, <1>10, <1>11, <1>12 DEF TrayInv, TrayOf

(* A change of the theme draws what the static says, which is the mode or is     *)
(* about to be posted.                                                           *)
LEMMA RefreshKeeps ==
    ASSUME TypeInv, TrayInv, NEW p \in Procs, RefreshIcon(p) PROVE TrayInv'
  <1>1. /\ at[p] = "loop" /\ UNCHANGED <<at, pipe, ascii, static, visible, posts, missed, asked, job>>
        /\ icon'[p] = static[p] /\ \A q \in Procs : q # p => icon'[q] = icon[q]
    BY DEF RefreshIcon, HasWindow, procVars, TypeInv, TrayTypes
  <1>2. \A q \in Procs : q # p => TrayOf(q)'
    BY <1>1, TrayFrame DEF TrayInv, SamePlace, SameShown, SameToggle, Toggling
  <1>3. TrayOf(p)'
    BY <1>1 DEF TrayInv, TrayOf, BeforeTray, LoopTray, WillShow, Toggling
  <1>4. ModeInv'
    BY <1>1 DEF TrayInv, ModeInv
  <1> QED BY <1>2, <1>3, <1>4 DEF TrayInv

LEMMA ShowTrayKeeps ==
    ASSUME TypeInv, TrayInv, NEW m \in Requests, ShowTrayIcon(m) PROVE TrayInv'
  <1>1. /\ UNCHANGED <<at, pipe, ascii, static, icon, visible, missed, job>>
        /\ pipe \in Procs /\ m \in {"show", "hide"} /\ m \in Messages /\ Post(pipe, m)
        /\ asked' = [asked EXCEPT ![pipe] = IF HasWindow(pipe) THEN m = "show" ELSE @]
    BY WordsApart DEF ShowTrayIcon, procVars, TypeInv, ProcTypes
  <1>2. \A q \in Procs : q # pipe => posts'[q] = posts[q] /\ asked'[q] = asked[q]
    BY <1>1, PostTypes DEF TypeInv, TrayTypes
  <1>3. \A q \in Procs : q # pipe => TrayOf(q)'
    BY <1>1, <1>2, TrayFrame DEF TrayInv, SamePlace, SameShown, SameToggle, Toggling
  <1>4. ModeInv'
    BY <1>1 DEF TrayInv, ModeInv
  <1>5. CASE ~HasWindow(pipe)
    <2>1. posts'[pipe] = posts[pipe] /\ asked'[pipe] = asked[pipe]
      BY <1>1, <1>5, PostTypes DEF TypeInv, TrayTypes
    <2>2. TrayOf(pipe)'
      BY <1>1, <2>1, TrayFrame DEF TrayInv, SamePlace, SameShown, SameToggle, Toggling
    <2> QED BY <1>1, <1>3, <1>4, <2>2 DEF TrayInv
  <1>6. CASE HasWindow(pipe)
    <2>1. posts'[pipe] = Append(posts[pipe], m) /\ asked'[pipe] = (m = "show")
          /\ at[pipe] = "loop" /\ posts[pipe] \in Seq(Messages)
      BY <1>1, <1>6, PostTypes DEF TypeInv, TrayTypes, HasWindow, Messages
    <2>2. m = IF asked'[pipe] THEN "show" ELSE "hide"
      BY <1>1, <2>1
    <2>3. WillShow(Append(posts[pipe], m), "show", "hide", visible[pipe], asked'[pipe])
      BY <1>1, <2>1, <2>2, LastWord
    <2>4. ~missed[pipe] /\ ~Toggling(pipe) =>
             /\ static[pipe] = ascii[pipe]
             /\ WillShow(Append(posts[pipe], m), "en", "zh", icon[pipe], ascii[pipe])
      BY <1>1, <2>1, OtherMessage, WordsApart DEF TrayInv, TrayOf, LoopTray
    <2>5. TrayOf(pipe)'
      BY <1>1, <2>1, <2>3, <2>4 DEF TrayOf, BeforeTray, LoopTray, Toggling
    <2> QED BY <1>1, <1>3, <1>4, <2>5 DEF TrayInv
  <1> QED BY <1>5, <1>6

(* A request that is no toggle, before or after the step, leaves the tray alone. *)
LEMMA NoToggleKeeps ==
    ASSUME TypeInv, TrayInv, UNCHANGED <<procVars, trayVars>>, job.op # "toggle",
           job'.op # "toggle" \/ job'.at \notin {"tray", "post"}
    PROVE  TrayInv'
  <1>1. ModeInv'
    BY DEF ModeInv
  <1>2. \A p \in Procs : SamePlace(p) /\ SameShown(p) /\ SameToggle(p) /\ posts'[p] = posts[p]
    BY DEF SamePlace, SameShown, SameToggle, Toggling, procVars, trayVars
  <1> QED BY <1>1, <1>2, TrayFrame DEF TrayInv

LEMMA QuietKeeps == ASSUME TypeInv, TrayInv, Quiet PROVE TrayInv'
  <1>0. PICK mode \in BOOLEAN : Quietly(mode)
    BY QuietFacts
  <1>1. /\ UNCHANGED <<at, pipe, static, icon, visible, posts, asked>> /\ pipe \in Procs
        /\ job.op # "toggle" /\ job'.op = "none"
        /\ ascii' = [ascii EXCEPT ![pipe] = mode]
        /\ missed' = [missed EXCEPT ![pipe] = @ \/ ascii[pipe] # mode]
    BY <1>0, QuietFacts, NoJobIsIdle DEF Quietly, Done, procVars
  <1>2. /\ ascii'[pipe] = mode /\ missed'[pipe] = (missed[pipe] \/ ascii[pipe] # mode)
        /\ \A q \in Procs : q # pipe => ascii'[q] = ascii[q] /\ missed'[q] = missed[q]
    BY <1>1 DEF TypeInv, TrayTypes
  <1>3. \A q \in Procs : ~Toggling(q) /\ ~Toggling(q)'
    BY <1>1 DEF Toggling
  <1>4. \A q \in Procs : q # pipe => TrayOf(q)'
    BY <1>1, <1>2, <1>3, TrayFrame DEF TrayInv, SamePlace, SameShown, SameToggle
  <1>5. ~missed'[pipe] => ~missed[pipe] /\ ascii'[pipe] = ascii[pipe]
    BY <1>2
  <1>6. /\ BeforeTray(pipe) /\ LoopTray(pipe) /\ ~Toggling(pipe)
    BY <1>1, <1>3 DEF TrayInv, TrayOf
  <1>7. BeforeTray(pipe)'
    BY <1>1, <1>5, <1>6 DEF BeforeTray
  <1>8. LoopTray(pipe)'
    BY <1>1, <1>5, <1>6 DEF LoopTray
  <1>9. ModeInv'
    BY <1>1 DEF ModeInv
  <1> QED BY <1>1, <1>4, <1>7, <1>8, <1>9 DEF TrayInv, TrayOf

(* The engine, the static and the message of ToggleAsciiMode: however far it has *)
(* come, its own mode is what the engine is in.                                  *)
LEMMA ToggleKeeps == ASSUME TypeInv, TrayInv, ToggleStep PROVE TrayInv'
  <1>0. /\ UNCHANGED <<at, pipe, icon, visible, asked>> /\ pipe \in Procs /\ job.op = "toggle"
        /\ TrayOf(pipe) /\ ascii[pipe] \in BOOLEAN /\ JobInv /\ TrayTypes
    BY DEF ToggleStep, procVars, TypeInv, JobInv, TrayInv, TrayTypes
  <1>1. CASE /\ job.at = "set" /\ job' = [job EXCEPT !.at = "tray", !.mode = ~ascii[pipe]]
             /\ ascii' = [ascii EXCEPT ![pipe] = ~@] /\ UNCHANGED <<static, posts, missed>>
    <2>1. job'.op = "toggle" /\ job'.at = "tray" /\ job'.mode = ~ascii[pipe]
      BY <1>0, <1>1 DEF JobInv, JobStates
    <2>2. ascii'[pipe] = ~ascii[pipe] /\ \A q \in Procs : q # pipe => ascii'[q] = ascii[q]
      BY <1>0, <1>1 DEF TrayTypes
    <2>3. Toggling(pipe)'
      BY <1>0, <2>1 DEF Toggling
    <2>4. BeforeTray(pipe)'
      BY <1>0, <1>1, <2>3 DEF TrayOf, BeforeTray
    <2>5. LoopTray(pipe)'
      BY <1>0, <1>1, <2>3 DEF TrayOf, LoopTray
    <2>6. \A q \in Procs : q # pipe => TrayOf(q)'
      BY <1>0, <1>1, <2>2, TrayFrame DEF TrayInv, SamePlace, SameShown, SameToggle, Toggling
    <2>7. ModeInv'
      BY <1>0, <2>1, <2>2 DEF ModeInv
    <2> QED BY <1>0, <2>4, <2>5, <2>6, <2>7 DEF TrayInv, TrayOf
  <1>2. CASE /\ job.at = "tray" /\ Step("post") /\ static' = [static EXCEPT ![pipe] = job.mode]
             /\ UNCHANGED <<ascii, posts, missed>>
    <2>1. job'.op = "toggle" /\ job'.at = "post" /\ job'.mode = job.mode
      BY <1>0, <1>2, JobMoves DEF Step, JobPlaces
    <2>2. static'[pipe] = job.mode /\ \A q \in Procs : q # pipe => static'[q] = static[q]
      BY <1>0, <1>2 DEF TrayTypes
    <2>3. Toggling(pipe)'
      BY <1>0, <2>1 DEF Toggling
    <2>4. BeforeTray(pipe)'
      BY <1>0, <1>2, <2>3 DEF TrayOf, BeforeTray
    <2>5. LoopTray(pipe)'
      BY <1>0, <1>2, <2>3 DEF TrayOf, LoopTray
    <2>6. \A q \in Procs : q # pipe => TrayOf(q)'
      BY <1>0, <1>2, <2>2, TrayFrame DEF TrayInv, SamePlace, SameShown, SameToggle, Toggling
    <2>7. job.mode = ascii[pipe]
      BY <1>0, <1>2 DEF TrayInv, ModeInv
    <2>8. ModeInv'
      BY <1>0, <1>2, <2>1, <2>2, <2>7 DEF ModeInv
    <2> QED BY <1>0, <2>4, <2>5, <2>6, <2>8 DEF TrayInv, TrayOf
  <1>3. CASE /\ job.at = "post" /\ Done /\ Post(pipe, IF job.mode THEN "en" ELSE "zh") /\ Told(pipe)
             /\ UNCHANGED <<ascii, static>>
    <2> DEFINE w == IF job.mode THEN "en" ELSE "zh"
    <2>1. job.mode = ascii[pipe] /\ job.mode = static[pipe] /\ job.mode \in BOOLEAN /\ job'.op = "none"
      BY <1>0, <1>3, NoJobIsIdle DEF TrayInv, ModeInv, Done
    <2>2. w \in Messages
      BY DEF Messages
    <2>3. missed'[pipe] = ~HasWindow(pipe) /\ \A q \in Procs : q # pipe => missed'[q] = missed[q]
      BY <1>0, <1>3 DEF Told, TrayTypes
    <2>4. /\ \A q \in Procs : q # pipe => posts'[q] = posts[q]
          /\ HasWindow(pipe) => posts'[pipe] = Append(posts[pipe], w)
          /\ ~HasWindow(pipe) => posts' = posts
      BY <1>0, <1>3, <2>2, PostTypes
    <2>5. ASSUME HasWindow(pipe) PROVE TrayOf(pipe)'
      <3>1. at[pipe] = "loop"
        BY <2>5 DEF HasWindow
      <3> QED BY <1>0, <1>3, <2>1, <2>4, <2>5, <3>1, ToldOfMode
    <2>6. ASSUME ~HasWindow(pipe) PROVE TrayOf(pipe)'
      <3>1. at[pipe] # "loop" /\ missed'[pipe] = TRUE /\ posts' = posts
        BY <2>3, <2>4, <2>6 DEF HasWindow
      <3> QED BY <1>0, <1>3, <3>1 DEF TrayOf, BeforeTray, LoopTray
    <2>7. TrayOf(pipe)'
      BY <1>0, <2>5, <2>6
    <2>8. \A q \in Procs : q # pipe => TrayOf(q)'
      BY <1>0, <1>3, <2>1, <2>3, <2>4, TrayFrame
         DEF TrayInv, SamePlace, SameShown, SameToggle, Toggling
    <2>9. ModeInv'
      BY <2>1 DEF ModeInv
    <2> QED BY <1>0, <2>7, <2>8, <2>9 DEF TrayInv
  <1> QED BY <1>1, <1>2, <1>3 DEF ToggleStep

LEMMA TrayNext == ASSUME TypeInv, TrayInv, [Next]_vars PROVE TrayInv'
  <1>1. ASSUME NEW p \in Procs, Exit(p) \/ Kill(p) PROVE TrayInv'
    BY <1>1, TrayGone DEF Exit, Kill
  <1>2. ASSUME NEW p \in Procs, LeaveLoop(p) PROVE TrayInv'
    <2>1. /\ UNCHANGED <<pipe, trayVars, job>> /\ at[p] = "loop" /\ at'[p] = "cleanup"
          /\ \A q \in Procs : q # p => at'[q] = at[q]
      BY <1>2, OthersStay DEF LeaveLoop
    <2>2. ModeInv'
      BY <2>1 DEF TrayInv, ModeInv, trayVars
    <2>3. \A q \in Procs : q # p => TrayOf(q)'
      BY <2>1, TrayFrame DEF TrayInv, SamePlace, SameShown, SameToggle, Toggling, trayVars
    <2> QED BY <2>1, <2>2, <2>3 DEF TrayInv, TrayOf, BeforeTray, LoopTray
  <1>3. ASSUME NEW p \in Procs, Launch(p) PROVE TrayInv'
    <2>1. /\ UNCHANGED <<pipe, trayVars, job>> /\ at[p] = "off" /\ at'[p] = "check"
          /\ \A q \in Procs : q # p => at'[q] = at[q]
      BY <1>3, OthersStay DEF Launch
    <2> QED BY <2>1, TrayUntouched DEF SamePlace
  <1>4. ASSUME QuitCommand \/ \E p \in Procs : TrayQuit(p) PROVE TrayInv'
    <2>1. /\ pipe \in Procs /\ Shutdown
          /\ UNCHANGED <<at, pipe, ascii, static, icon, visible, missed, asked, job>>
      BY <1>4 DEF QuitCommand, TrayQuit, procVars, TypeInv, ProcTypes
    <2> QED BY <2>1, QuitKeeps DEF SamePlace
  <1>5. CASE HandlerStep
    <2>1. ASSUME \/ ListStep \/ FetchIndex \/ DownloadSchema \/ OpenArchive \/ CopyFile \/ LoadEntry
                 \/ RemoveFile \/ SaveRegistry
          PROVE  TrayInv'
      <3>1. UNCHANGED <<procVars, trayVars>>
        BY <2>1 DEF ListStep, FetchIndex, DownloadSchema, OpenArchive, CopyFile, LoadEntry,
                    RemoveFile, SaveRegistry
      <3>2. job.op # "toggle"
        BY <2>1 DEF ListStep, FetchIndex, DownloadSchema, OpenArchive, CopyFile, LoadEntry,
                    RemoveFile, SaveRegistry, TypeInv, JobInv
      <3>3. job'.op # "toggle" \/ job'.at \notin {"tray", "post"}
        <4>1. CASE ListStep \/ FetchIndex
          BY <4>1, NoJobIsIdle DEF ListStep, FetchIndex, Done
        <4>2. CASE DownloadSchema
          <5>1. Done \/ Step("fetch") \/ Step("written")
            BY <4>2 DEF DownloadSchema
          <5>2. Step("fetch") \/ Step("written") => job'.op = job.op
            BY JobMoves DEF Step, JobPlaces, TypeInv
          <5> QED BY <3>2, <5>1, <5>2, NoJobIsIdle DEF Done
        <4>3. CASE OpenArchive \/ CopyFile \/ LoadEntry
          BY <4>3, OpenArchiveFacts, CopyFileFacts, LoadEntryFacts, NoJobIsIdle
             DEF Done, CopyStops, CopiesOne
        <4>4. CASE RemoveFile
          BY <4>4, RemoveFileFacts
        <4>5. CASE SaveRegistry
          BY <3>2, <4>5, SaveRegistryFacts, NoJobIsIdle DEF Done
        <4> QED BY <2>1, <4>1, <4>2, <4>3, <4>4, <4>5
      <3> QED BY <3>1, <3>2, <3>3, NoToggleKeeps
    <2> QED BY <1>5, <2>1, ToggleKeeps, QuietKeeps DEF HandlerStep, Quiet
  <1>6. ASSUME NEW op \in Requests, NEW k \in Packages \cup {None}, Request(op, k) PROVE TrayInv'
    <2>1. job'.at \notin {"tray", "post"}
      BY <1>6, RequestJob
    <2>2. job.op # "toggle" /\ UNCHANGED <<procVars, trayVars>>
      BY <1>6, NoJobIsIdle DEF Request, Free
    <2> QED BY <2>1, <2>2, NoToggleKeeps
  <1>7. CASE UNCHANGED vars
    BY <1>7, TrayUntouched DEF vars, procVars, SamePlace
  <1> QED BY <1>1, <1>2, <1>3, <1>4, <1>5, <1>6, <1>7, TrayStart, WindowKeeps, RefreshKeeps,
             TrayToggleKeeps, ShowTrayKeeps DEF Next, LoopStep

(* Once everything posted is handled, the tray shows the mode of the engine and  *)
(* is as visible as was last asked, in whatever order clicks, requests, changes  *)
(* of the theme and the ends of processes come, for any number of each.          *)
THEOREM TrayShowsModeAlways == Spec => []TrayShowsMode
  <1>1. TypeInv /\ TrayInv => TrayShowsMode
    <2> SUFFICES ASSUME TypeInv, TrayInv, NEW p \in Procs, at[p] = "loop", posts[p] = <<>>,
                        ~(pipe = p /\ job.op = "toggle")
                 PROVE  visible[p] = asked[p] /\ (missed[p] \/ icon[p] = ascii[p])
      BY DEF TrayShowsMode
    <2>1. ~Toggling(p) /\ LoopTray(p)
      BY DEF Toggling, TrayInv, TrayOf
    <2>2. visible[p] = asked[p]
      BY <2>1, ShownAtLast DEF LoopTray
    <2>3. ~missed[p] => icon[p] = ascii[p]
      BY <2>1, ShownAtLast DEF LoopTray
    <2> QED BY <2>2, <2>3
  <1>2. TypeInv /\ TrayInv /\ [Next]_vars => TrayInv'
    BY TrayNext
  <1> QED BY <1>1, <1>2, TrayInit, TypesAlways, PTL DEF Spec

-----------------------------------------------------------------------------
(* The registry and the files. *)

(* The registry the market works towards, and what is known of the files.        *)
Goal == IF job.at = "saved" THEN job.reg ELSE reg
MarketInv ==
    /\ \A f \in Files \ (mess \cup job.arch) : f \in files <=> f \in Listed(Goal)
    /\ job.op = "install" => job.arch \ job.todo \subseteq files
    /\ job.op = "uninstall" => files \cap (job.arch \ (job.todo \cup mess)) = {}
    /\ job.at \in {"save", "saved"} => job.todo = {}
    /\ job.at = "save" /\ job.op = "install" => job.reg = [reg EXCEPT ![job.pkg] = job.arch]
    /\ job.at \in {"remove", "save"} /\ job.op = "uninstall" =>
          job.reg = [reg EXCEPT ![job.pkg] = None] /\ reg[job.pkg] = job.arch
    /\ job.at = "saved" => reg = NoRegistry
    /\ job.at = "saved" /\ job.op = "install" => job.arch \subseteq Listed(job.reg)

LEMMA MarketInit == Init => MarketInv
  BY NoJobIsIdle DEF Init, MarketInv, Goal, Listed, NoRegistry

(* What a registry lists after one entry of it was replaced. *)
LEMMA ListedAfter ==
    ASSUME NEW r \in [Packages -> Entries], NEW k \in Packages, NEW e \in Entries
    PROVE  /\ \A f : (r[k] = None \/ f \notin r[k]) /\ (e = None \/ f \notin e)
                        => (f \in Listed([r EXCEPT ![k] = e]) <=> f \in Listed(r))
           /\ e # None => e \subseteq Listed([r EXCEPT ![k] = e])
  <1> DEFINE s == [r EXCEPT ![k] = e]
  <1>1. s[k] = e /\ \A j \in Packages : j # k => s[j] = r[j]
    OBVIOUS
  <1> HIDE DEF s
  <1>2. \A f : /\ f \in Listed(r) <=> \E j \in Packages : r[j] # None /\ f \in r[j]
               /\ f \in Listed(s) <=> \E j \in Packages : s[j] # None /\ f \in s[j]
    BY DEF Listed
  <1>3. ASSUME NEW f, r[k] = None \/ f \notin r[k], e = None \/ f \notin e
        PROVE  f \in Listed(s) <=> f \in Listed(r)
    <2>1. f \in Listed(s) => f \in Listed(r)
      BY <1>1, <1>2, <1>3
    <2>2. f \in Listed(r) => f \in Listed(s)
      BY <1>1, <1>2, <1>3
    <2> QED BY <2>1, <2>2
  <1>4. e # None => e \subseteq Listed(s)
    BY <1>1, <1>2
  <1> QED BY <1>3, <1>4 DEF s

LEMMA NothingListed == Listed(NoRegistry) = {}
  BY DEF Listed, NoRegistry

(* Nothing is under way before and after, or something begins that has done      *)
(* nothing yet.                                                                  *)
LEMMA IdleKeeps ==
    ASSUME MarketInv, UNCHANGED <<files, reg, mess>>, job.arch = {}, job.at # "saved",
           job'.arch = {}, job'.at \notin {"remove", "save", "saved"}
    PROVE  MarketInv'
  BY DEF MarketInv, Goal

LEMMA OpenKeeps == ASSUME TypeInv, MarketInv, OpenArchive PROVE MarketInv'
  <1>1. /\ job.arch = {} /\ job.at = "open" /\ UNCHANGED <<files, reg, mess>>
    BY DEF OpenArchive, marketVars, TypeInv, JobInv
  <1>2. CASE Done
    BY <1>1, <1>2, NoJobIsIdle, IdleKeeps DEF Done
  <1>3. CASE job'.op = "install" /\ job'.at = "copy" /\ job'.todo = job'.arch
    BY <1>1, <1>3 DEF MarketInv, Goal
  <1> QED BY <1>2, <1>3, OpenArchiveFacts

LEMMA CopyKeeps == ASSUME TypeInv, MarketInv, CopyFile PROVE MarketInv'
  <1>1. /\ job.at = "copy" /\ job.op = "install" /\ reg' = reg
        /\ job.todo \subseteq job.arch /\ job.arch \subseteq Files
    BY CopyFileFacts DEF CopyFile, TypeInv, JobInv, JobStates
  <1>2. /\ \A f \in Files \ (mess \cup job.arch) : f \in files <=> f \in Listed(reg)
        /\ job.arch \ job.todo \subseteq files
    BY <1>1 DEF MarketInv, Goal
  <1>3. CASE CopyStops
    <2>1. PICK copied \in SUBSET job.arch : files' = files \cup copied
      BY <1>3 DEF CopyStops
    <2>2. \A f \in Files \ mess' : f \in files' <=> f \in Listed(reg)
      BY <1>2, <1>3, <2>1 DEF CopyStops
    <2> QED BY <1>1, <1>3, <2>2, NoJobIsIdle DEF CopyStops, Done, MarketInv, Goal
  <1>4. ASSUME NEW f \in job.todo, CopiesOne(f) PROVE MarketInv'
    <2>1. /\ files' = files \cup {f} /\ mess' = mess /\ job'.op = "install" /\ job'.arch = job.arch
          /\ job'.todo = job.todo \ {f} /\ job'.pkg = job.pkg
          /\ job'.reg = [reg EXCEPT ![job.pkg] = job.arch]
          /\ job'.at = (IF job.todo = {f} THEN "save" ELSE "copy")
      BY <1>4 DEF CopiesOne
    <2>2. job'.at # "saved" /\ (job'.at = "save" => job'.todo = {})
      BY <2>1
    <2>3. \A g \in Files \ (mess' \cup job'.arch) : g \in files' <=> g \in Listed(reg')
      BY <1>1, <1>2, <1>4, <2>1
    <2>4. job'.arch \ job'.todo \subseteq files'
      BY <1>2, <2>1
    <2> QED BY <1>1, <2>1, <2>2, <2>3, <2>4 DEF MarketInv, Goal
  <1> QED BY <1>3, <1>4, CopyFileFacts

LEMMA EntryKeeps == ASSUME TypeInv, MarketInv, LoadEntry PROVE MarketInv'
  <1>1. /\ job.arch = {} /\ job.at = "load" /\ UNCHANGED <<files, reg, mess>>
    BY DEF LoadEntry, marketVars, TypeInv, JobInv
  <1>2. CASE Done
    BY <1>1, <1>2, NoJobIsIdle, IdleKeeps DEF Done
  <1>3. CASE /\ job'.op = "uninstall" /\ job'.pkg = job.pkg /\ job.pkg \in Packages
             /\ job'.at = (IF reg[job.pkg] = {} THEN "save" ELSE "remove")
             /\ job'.todo = reg[job.pkg] /\ job'.arch = reg[job.pkg]
             /\ job'.reg = [reg EXCEPT ![job.pkg] = None]
    <2>1. job'.at # "saved" /\ (job'.at = "save" => job'.todo = {})
      BY <1>3
    <2>2. \A f \in Files \ (mess' \cup job'.arch) : f \in files' <=> f \in Listed(reg')
      BY <1>1 DEF MarketInv, Goal
    <2> QED BY <1>1, <1>3, <2>1, <2>2 DEF MarketInv, Goal
  <1> QED BY <1>2, <1>3, LoadEntryFacts

LEMMA RemoveKeeps == ASSUME TypeInv, MarketInv, RemoveFile PROVE MarketInv'
  <1>1. job.at = "remove" /\ job.op = "uninstall" /\ job.todo \subseteq job.arch /\ reg' = reg
    BY RemoveFileFacts DEF RemoveFile, TypeInv, JobInv
  <1>2. /\ \A f \in Files \ (mess \cup job.arch) : f \in files <=> f \in Listed(reg)
        /\ files \cap (job.arch \ (job.todo \cup mess)) = {}
        /\ job.reg = [reg EXCEPT ![job.pkg] = None] /\ reg[job.pkg] = job.arch
    BY <1>1 DEF MarketInv, Goal
  <1>3. PICK f \in job.todo :
           /\ \/ files' = files \ {f} /\ mess' = mess
              \/ mess' = mess \cup {f} /\ files' = files
           /\ job'.op = "uninstall" /\ job'.pkg = job.pkg
           /\ job'.at = (IF job.todo = {f} THEN "save" ELSE "remove")
           /\ job'.todo = job.todo \ {f} /\ job'.arch = job.arch /\ job'.reg = job.reg
    BY RemoveFileFacts
  <1>4. \A g \in Files \ (mess' \cup job'.arch) : g \in files' <=> g \in Listed(reg')
    BY <1>1, <1>2, <1>3
  <1>5. files' \cap (job'.arch \ (job'.todo \cup mess')) = {}
    BY <1>2, <1>3
  <1>6. job'.at # "saved" /\ (job'.at = "save" => job'.todo = {})
    BY <1>3
  <1> QED BY <1>1, <1>2, <1>3, <1>4, <1>5, <1>6 DEF MarketInv, Goal

LEMMA SaveKeeps == ASSUME TypeInv, MarketInv, SaveRegistry PROVE MarketInv'
  <1>1. /\ job.op \in {"install", "uninstall"} /\ job.pkg \in Packages /\ files' = files
        /\ job.at \in {"save", "saved"}
        /\ job.arch \subseteq Files /\ job.arch \in Entries /\ job.arch # None
        /\ reg \in [Packages -> Entries] /\ None \in Entries
    BY SaveRegistryFacts, NoneAssumption
       DEF SaveRegistry, TypeInv, JobInv, JobStates, MarketTypes, Entries
  <1>2. /\ \A f \in Files \ (mess \cup job.arch) : f \in files <=> f \in Listed(Goal)
        /\ job.todo = {}
        /\ job.op = "install" => job.arch \subseteq files
        /\ job.op = "uninstall" => files \cap (job.arch \ mess) = {}
    BY <1>1 DEF MarketInv
  <1>3. CASE /\ job.at = "save" /\ reg' = NoRegistry /\ job'.at = "saved"
             /\ job'.op = job.op /\ job'.pkg = job.pkg /\ job'.todo = job.todo
             /\ job'.arch = job.arch /\ job'.reg = job.reg
             /\ mess' = IF job.op = "install" /\ reg[job.pkg] # None
                        THEN mess \cup (reg[job.pkg] \ job.arch) ELSE mess
    <2>1. \A f \in Files \ (mess \cup job.arch) : f \in files <=> f \in Listed(reg)
      BY <1>2, <1>3 DEF Goal
    <2>2. CASE job.op = "install"
      <3> DEFINE after == [reg EXCEPT ![job.pkg] = job.arch]
      <3>0. /\ \A f : (reg[job.pkg] = None \/ f \notin reg[job.pkg]) /\ f \notin job.arch
                       => (f \in Listed(after) <=> f \in Listed(reg))
            /\ job.arch \subseteq Listed(after)
        BY <1>1, ListedAfter
      <3>1. job.reg = after
        BY <1>3, <2>2 DEF MarketInv
      <3> HIDE DEF after
      <3>2. job.arch \subseteq Listed(job.reg)
        BY <3>0, <3>1
      <3>3. \A f \in Files \ (mess' \cup job.arch) : reg[job.pkg] = None \/ f \notin reg[job.pkg]
        BY <1>3, <2>2
      <3>4. \A f \in Files \ (mess' \cup job.arch) : f \in Listed(job.reg) <=> f \in Listed(reg)
        BY <3>0, <3>1, <3>3
      <3>5. mess \subseteq mess'
        BY <1>3
      <3>6. \A f \in Files \ (mess' \cup job.arch) : f \in files <=> f \in Listed(job.reg)
        BY <2>1, <3>4, <3>5
      <3> QED BY <1>1, <1>2, <1>3, <2>2, <3>2, <3>6 DEF MarketInv, Goal
    <2>3. CASE job.op = "uninstall"
      <3> DEFINE after == [reg EXCEPT ![job.pkg] = None]
      <3>0. \A f : f \notin reg[job.pkg] => (f \in Listed(after) <=> f \in Listed(reg))
        BY <1>1, ListedAfter
      <3>1. job.reg = after /\ reg[job.pkg] = job.arch
        BY <1>3, <2>3 DEF MarketInv
      <3> HIDE DEF after
      <3>2. \A f \in Files \ (mess \cup job.arch) : f \in Listed(job.reg) <=> f \in Listed(reg)
        BY <3>0, <3>1
      <3>3. mess' = mess
        BY <1>3, <2>3
      <3> QED BY <1>1, <1>2, <1>3, <2>1, <2>3, <3>2, <3>3 DEF MarketInv, Goal
    <2> QED BY <1>1, <2>2, <2>3
  <1>4. ASSUME Done, \A f \in Files \ mess' : f \in files <=> f \in Listed(reg')
        PROVE  MarketInv'
    BY <1>1, <1>4, NoJobIsIdle DEF Done, MarketInv, Goal
  <1>5. CASE job.at = "save" /\ Done /\ mess' = mess \cup job.arch /\ UNCHANGED reg
    <2>1. \A f \in Files \ mess' : f \in files <=> f \in Listed(reg')
      BY <1>2, <1>5 DEF Goal
    <2> QED BY <1>4, <1>5, <2>1
  <1>6. CASE /\ job.at = "saved" /\ Done /\ mess' = mess \cup job.arch \cup Listed(job.reg)
             /\ UNCHANGED reg
    <2>1. Listed(reg') = {}
      BY <1>6, NothingListed DEF MarketInv
    <2>2. \A f \in Files \ mess' : f \notin files
      BY <1>2, <1>6 DEF Goal
    <2> QED BY <1>4, <1>6, <2>1, <2>2
  <1>7. CASE /\ job.at = "saved" /\ Done /\ reg' = job.reg
             /\ mess' = IF job.op = "install" THEN mess \ job.arch
                        ELSE mess \cup (job.arch \cap Listed(job.reg))
    <2>1. \A f \in Files \ (mess \cup job.arch) : f \in files <=> f \in Listed(reg')
      BY <1>2, <1>7 DEF Goal
    <2>2. CASE job.op = "install"
      <3>1. job.arch \subseteq Listed(reg')
        BY <1>7, <2>2 DEF MarketInv
      <3>2. \A f \in Files \ mess' : f \in files <=> f \in Listed(reg')
        BY <1>2, <1>7, <2>1, <2>2, <3>1
      <3> QED BY <1>4, <1>7, <3>2
    <2>3. CASE job.op = "uninstall"
      <3>1. mess' = mess \cup (job.arch \cap Listed(reg'))
        BY <1>7, <2>3
      <3>2. \A f \in Files \ mess' : f \in files <=> f \in Listed(reg')
        BY <1>2, <2>1, <2>3, <3>1
      <3> QED BY <1>4, <1>7, <3>2
    <2> QED BY <1>1, <2>2, <2>3
  <1> QED BY <1>3, <1>5, <1>6, <1>7, SaveRegistryFacts

(* The end of the process cuts an operation off; its files are a mess then. *)
LEMMA GoneKeeps == ASSUME TypeInv, MarketInv, NEW p \in Procs, Gone(p) PROVE MarketInv'
  <1>1. UNCHANGED <<files, reg>>
    BY DEF Gone
  <1>2. CASE pipe # p
    <2>1. mess' = mess /\ job' = job
      BY <1>2 DEF Gone, CutOff
    <2> QED BY <1>1, <2>1 DEF MarketInv, Goal
  <1>3. CASE pipe = p
    <2>1. job' = NoJob /\ mess' = IF job.op \notin {"install", "uninstall"} THEN mess
                                  ELSE IF job.at = "saved"
                                       THEN mess \cup Listed(job.reg) \cup job.arch
                                       ELSE mess \cup job.arch
      BY <1>3 DEF Gone, CutOff
    <2>2. \A f \in Files \ (mess \cup job.arch) : f \in files <=> f \in Listed(Goal)
      BY DEF MarketInv
    <2>3. \A f \in Files \ mess' : f \in files <=> f \in Listed(reg)
      <3>1. CASE job.op \notin {"install", "uninstall"}
        <4>1. job.arch = {} /\ job.at # "saved"
          BY <3>1 DEF TypeInv, JobInv
        <4>2. mess' = mess
          BY <2>1, <3>1
        <4> QED BY <2>2, <4>1, <4>2 DEF Goal
      <3>2. CASE job.op \in {"install", "uninstall"} /\ job.at = "saved"
        <4>1. Listed(reg) = {}
          BY <3>2, NothingListed DEF MarketInv
        <4>2. mess' = mess \cup Listed(job.reg) \cup job.arch
          BY <2>1, <3>2
        <4> QED BY <2>2, <3>2, <4>1, <4>2 DEF Goal
      <3>3. CASE job.op \in {"install", "uninstall"} /\ job.at # "saved"
        <4>1. mess' = mess \cup job.arch
          BY <2>1, <3>3
        <4> QED BY <2>2, <3>3, <4>1 DEF Goal
      <3> QED BY <3>1, <3>2, <3>3
    <2> QED BY <1>1, <2>1, <2>3, NoJobIsIdle DEF MarketInv, Goal
  <1> QED BY <1>2, <1>3

LEMMA MarketNext == ASSUME TypeInv, MarketInv, [Next]_vars PROVE MarketInv'
  <1>1. ASSUME UNCHANGED <<files, reg, mess, job>> PROVE MarketInv'
    BY <1>1 DEF MarketInv, Goal
  <1>2. ASSUME NEW p \in Procs,
               \/ StartStep(p) \/ LeaveLoop(p) \/ Launch(p) \/ WindowProc(p) \/ RefreshIcon(p)
               \/ TrayToggle(p) \/ TrayQuit(p)
        PROVE  MarketInv'
    <2>1. UNCHANGED <<files, reg, mess, job>>
      BY <1>2 DEF StartStep, Check, Poll, Recheck, EnsureUserConfig, CopyDirContents, StartEngine,
                  CopyDict, RunServer, CreatePipe, NewTrayIcon, LeaveLoop, Launch, WindowProc,
                  RefreshIcon, TrayToggle, TrayQuit, marketVars
    <2> QED BY <1>1, <2>1
  <1>3. ASSUME NEW p \in Procs, Exit(p) \/ Kill(p) PROVE MarketInv'
    BY <1>3, GoneKeeps DEF Exit, Kill
  <1>4. CASE HandlerStep
    <2>2. CASE Quiet
      <3>1. PICK mode \in BOOLEAN : Quietly(mode)
        BY <2>2, QuietFacts
      <3>2. /\ job.op \in {"reload", "select", "key"}
            /\ UNCHANGED <<files, reg, mess>> /\ job.arch = {} /\ job.at # "saved"
        BY <2>2, <3>1, QuietFacts DEF Quietly, marketVars, TypeInv, JobInv
      <3>3. job'.arch = {} /\ job'.at \notin {"remove", "save", "saved"}
        BY <3>1, NoJobIsIdle DEF Quietly, Done
      <3> QED BY <3>2, <3>3, IdleKeeps
    <2>1. CASE ToggleStep \/ ListStep \/ FetchIndex \/ DownloadSchema
      <3>1. /\ job.op \in {"toggle", "list", "index", "download"}
            /\ UNCHANGED <<files, reg, mess>> /\ job.arch = {} /\ job.at # "saved"
        BY <2>1 DEF ToggleStep, ListStep, FetchIndex, DownloadSchema, marketVars,
                    TypeInv, JobInv
      <3>2. job'.arch = {} /\ job'.at \notin {"remove", "save", "saved"}
        <4>1. CASE Done
          BY <4>1, NoJobIsIdle DEF Done
        <4>2. ASSUME NEW a \in {"post", "fetch", "written"}, Step(a)
              PROVE  job'.arch = {} /\ job'.at \notin {"remove", "save", "saved"}
          <5>1. job'.arch = job.arch /\ job'.at = a
            BY <4>2, JobMoves DEF Step, JobPlaces, TypeInv
          <5> QED BY <3>1, <5>1
        <4>3. CASE job' = [job EXCEPT !.at = "tray", !.mode = ~ascii[pipe]]
          BY <3>1, <4>3 DEF TypeInv, JobInv, JobStates
        <4>4. \/ Done \/ \E a \in {"post", "fetch", "written"} : Step(a)
              \/ job' = [job EXCEPT !.at = "tray", !.mode = ~ascii[pipe]]
          BY <2>1 DEF ToggleStep, ListStep, FetchIndex, DownloadSchema
        <4> QED BY <4>1, <4>2, <4>3, <4>4
      <3> QED BY <3>1, <3>2, IdleKeeps
    <2> QED BY <1>4, <2>1, <2>2, OpenKeeps, CopyKeeps, EntryKeeps, RemoveKeeps, SaveKeeps
           DEF HandlerStep, Quiet
  <1>5. ASSUME NEW op \in Requests, NEW k \in Packages \cup {None}, Request(op, k) PROVE MarketInv'
    <2>1. job = NoJob /\ UNCHANGED <<files, reg, mess>>
      BY <1>5 DEF Request, Free, marketVars
    <2>2. job'.arch = {} /\ job'.at \notin {"remove", "save", "saved"}
      BY <1>5, RequestJob
    <2> QED BY <2>1, <2>2, NoJobIsIdle, IdleKeeps
  <1>6. ASSUME QuitCommand \/ (\E m \in Requests : ShowTrayIcon(m)) \/ UNCHANGED vars PROVE MarketInv'
    <2>1. UNCHANGED <<files, reg, mess, job>>
      BY <1>6 DEF QuitCommand, ShowTrayIcon, vars, marketVars
    <2> QED BY <1>1, <2>1
  <1> QED BY <1>2, <1>3, <1>4, <1>5, <1>6 DEF Next, LoopStep

(* Between installations the schema files present are those the registry lists,  *)
(* for any number of packages that share files, except for those an operation on *)
(* which failed or was cut off, or that two packages share or a version dropped. *)
THEOREM MarketConsistentAlways == Spec => []MarketConsistent
  <1>1. TypeInv /\ MarketInv => MarketConsistent
    <2> SUFFICES ASSUME TypeInv, MarketInv, job.op \notin {"install", "uninstall"},
                        NEW f \in Files \ mess
                 PROVE  f \in files <=> f \in Listed(reg)
      BY DEF MarketConsistent
    <2>1. job.arch = {} /\ job.at # "saved"
      BY DEF TypeInv, JobInv
    <2> QED BY <2>1 DEF MarketInv, Goal
  <1>2. TypeInv /\ MarketInv /\ [Next]_vars => MarketInv'
    BY MarketNext
  <1> QED BY <1>1, <1>2, MarketInit, TypesAlways, PTL DEF Spec

=============================================================================
