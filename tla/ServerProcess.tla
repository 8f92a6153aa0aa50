--------------------------- MODULE ServerProcess ---------------------------
(***************************************************************************)
(* The server as a process: how a start replaces the server before it, the *)
(* files a first start copies, the tray icon, and the schema market the    *)
(* server offers over the pipe, whose handlers run under the engine lock   *)
(* for as long as a download takes.  The main thread starts the process,   *)
(* owns the tray window and ends the process; the IPC thread opens the     *)
(* pipe; each request has a thread, and the engine lock lets one work.     *)
(*                                                                         *)
(* Sources: winxime-server/src/main.rs, tray.rs, schema_manager.rs,        *)
(* ipc_server.rs, winxime-ipc/src/pipe.rs.                                 *)
(***************************************************************************)
EXTENDS FiniteSets, SequencesExt

CONSTANTS
    Procs,     \* the processes there may be
    Packages,  \* what the market offers
    Files,     \* names of schema files, in the archives and in the user's directory
    Requests,  \* the requests clients make
    MaxOps,    \* bound on starts, requests, tray events and kills together
    None

RequestNames == {"toggle", "show", "hide", "reload", "select", "key", "list", "index",
                 "download", "install", "uninstall"}
ASSUME NoneAssumption == /\ None \notin Procs \cup Packages \cup Files
                         /\ \A S \in SUBSET Files : None # S   \* no set of files is None
ASSUME RequestsAssumption == Requests \subseteq RequestNames
ASSUME MaxOpsAssumption == MaxOps \in Nat

VARIABLES
    at,        \* where the main thread of a process is
    pipe,      \* the process whose pipe it is, or None
    ipc,       \* the IPC thread: "none", "starting", "on", "deaf"
    raced,     \* processes that started while another was not listening yet
    user,      \* the user's configuration files: "none", "part", "whole"
    dict,      \* the compiled dictionary in the user's directory, likewise
    cut,       \* a copy of either failed or was cut off, or two starts met over it
    ascii,     \* the engine's option, per process
    static,    \* TRAY_IS_ASCII
    icon,      \* what the tray shows
    visible,   \* whether it does
    posts,     \* the messages posted to the main thread
    missed,    \* the tray was not told of the last change of the mode
    asked,     \* what was last asked of the visibility
    job,       \* the request that has the engine lock of the pipe's owner
    store,     \* the archives in each package's market directory
    files,     \* the schema files in the user's directory
    reg,       \* the registry of installed packages on the disk
    mess,      \* files an operation on which failed, was cut off or met another package
    ops

procVars == <<at, pipe, ipc, raced>>
dataVars == <<user, dict, cut>>
trayVars == <<ascii, static, icon, visible, posts, missed, asked>>
marketVars == <<store, files, reg, mess>>
vars == <<procVars, dataVars, trayVars, job, marketVars, ops>>

Bad == {None}          \* an archive cut off while it was written: nothing comes out of it
Archives == (SUBSET Files) \cup {Bad}
Entries == (SUBSET Files) \cup {None}
NoRegistry == [k \in Packages |-> None]
NoJob == [op |-> "none", pkg |-> None, at |-> "end", mode |-> FALSE, todo |-> {}, arch |-> {},
          reg |-> NoRegistry]
Listed(r) == UNION {r[k] : k \in {k \in Packages : r[k] # None}}

Init ==
    /\ at = [p \in Procs |-> "off"] /\ ipc = [p \in Procs |-> "none"]
    /\ pipe = None /\ raced = {}
    /\ user \in {"none", "whole"} /\ dict \in {"none", "whole"} /\ cut = FALSE
    /\ ascii = [p \in Procs |-> FALSE] /\ static = ascii /\ icon = ascii
    /\ visible = ascii /\ missed = ascii /\ asked = [p \in Procs |-> TRUE]
    /\ posts = [p \in Procs |-> <<>>]
    /\ job = NoJob
    /\ store \in [Packages -> {{}} \cup {{a} : a \in (SUBSET Files) \ {{}}}]
    /\ files = {} /\ reg = NoRegistry /\ mess = {}
    /\ ops = 0

Op == ops < MaxOps /\ ops' = ops + 1
Free == job = NoJob                    \* the lock of the pipe's owner
LockOf(p) == pipe = p => Free          \* a deaf server's engine has no other user
Past == {"dirs", "copy", "engine", "dict", "serve", "tray", "loop", "cleanup"}
HasWindow(p) == at[p] = "loop"
Goto(p, a) == at' = [at EXCEPT ![p] = a]
----------------------------------------------------------------------------
(* Starting. *)

Launch(p) ==
    /\ Op /\ at[p] = "off" /\ Goto(p, "check")
    /\ UNCHANGED <<pipe, ipc, raced, dataVars, trayVars, job, marketVars>>

\* ShutdownServer waits for the engine lock like any request: while that is taken it is
\* answered "busy", which shutdown_server takes for success.
Shutdown == posts' = [posts EXCEPT ![pipe] = IF Free THEN Append(@, "quit") ELSE @]

\* The start goes on; a server that is not listening yet is not seen.
GoOn(p) ==
    LET unseen == {q \in Procs \ {p} : at[q] \in Past /\ pipe # q}
    IN  /\ Goto(p, "dirs")
        /\ raced' = IF unseen = {} THEN raced ELSE raced \cup unseen \cup {p}

Check(p) ==
    /\ at[p] = "check"
    /\ IF pipe = None THEN GoOn(p) /\ UNCHANGED posts
       ELSE Goto(p, "wait") /\ Shutdown /\ UNCHANGED raced
    /\ UNCHANGED <<pipe, ipc, dataVars, ascii, static, icon, visible, missed, asked, job,
                   marketVars, ops>>

\* Ten looks, 50 ms apart, then the last.
Poll(p) ==
    /\ at[p] = "wait" /\ Goto(p, "recheck")
    /\ UNCHANGED <<pipe, ipc, raced, dataVars, trayVars, job, marketVars, ops>>
\* Mutant of Recheck: the last look is left out.
RecheckNever(p) ==
    /\ at[p] = "recheck" /\ GoOn(p)
    /\ UNCHANGED <<pipe, ipc, dataVars, trayVars, job, marketVars, ops>>

Recheck(p) ==
    /\ at[p] = "recheck"
    /\ IF pipe = None THEN GoOn(p) ELSE Goto(p, "off") /\ UNCHANGED raced
    /\ UNCHANGED <<pipe, ipc, dataVars, trayVars, job, marketVars, ops>>

\* Mutant of EnsureUserConfig: any directory will do.
EnsureUserConfigDir(p) ==
    /\ at[p] = "dirs" /\ Goto(p, "engine")
    /\ UNCHANGED <<pipe, ipc, raced, dataVars, trayVars, job, marketVars, ops>>

\* Without the shared data the process exits.  Any YAML file in the user's directory
\* means that an earlier start has copied the files; a copy cut off may have got as far
\* as the first of them, or not.
EnsureUserConfig(p) ==
    /\ at[p] = "dirs"
    /\ \/ Goto(p, "off") /\ UNCHANGED user
       \/ user # "none" /\ Goto(p, "engine") /\ UNCHANGED user
       \/ user # "whole" /\ Goto(p, "copy") /\ user' = "part"
    /\ cut' = (cut \/ \E q \in Procs \ {p} : at[q] = "copy")
    /\ UNCHANGED <<pipe, ipc, raced, dict, trayVars, job, marketVars, ops>>

\* Errors of single files are ignored.
CopyDirContents(p) ==
    /\ at[p] = "copy" /\ Goto(p, "engine")
    /\ \/ user' = "whole" /\ UNCHANGED cut
       \/ user' \in {"none", "part"} /\ cut' = TRUE
    /\ UNCHANGED <<pipe, ipc, raced, dict, trayVars, job, marketVars, ops>>

\* Rime starts and deploys, or the process exits; then missing dictionaries are copied.
StartEngine(p) ==
    /\ at[p] = "engine"
    /\ \/ Goto(p, "off") /\ UNCHANGED <<dict, cut>>
       \/ /\ IF dict = "none" THEN Goto(p, "dict") /\ dict' = "part"
             ELSE Goto(p, "serve") /\ UNCHANGED dict
          /\ cut' = (cut \/ \E q \in Procs \ {p} : at[q] = "dict")
    /\ UNCHANGED <<pipe, ipc, raced, user, trayVars, job, marketVars, ops>>
CopyDict(p) ==
    /\ at[p] = "dict" /\ Goto(p, "serve")
    /\ \/ dict' = "whole" /\ UNCHANGED cut
       \/ dict' \in {"none", "part"} /\ cut' = TRUE
    /\ UNCHANGED <<pipe, ipc, raced, user, trayVars, job, marketVars, ops>>

\* run_server: the IPC thread is started, and only then is the tray icon made.
RunServer(p) ==
    /\ at[p] = "serve" /\ Goto(p, "tray")
    /\ ipc' = [ipc EXCEPT ![p] = "starting"]
    /\ UNCHANGED <<pipe, raced, dataVars, trayVars, job, marketVars, ops>>

\* Of two, the second cannot create the pipe: its thread ends, the process stays.
CreatePipe(p) ==
    /\ ipc[p] = "starting"
    /\ IF pipe = None THEN pipe' = p /\ ipc' = [ipc EXCEPT ![p] = "on"]
       ELSE ipc' = [ipc EXCEPT ![p] = "deaf"] /\ UNCHANGED pipe
    /\ UNCHANGED <<at, raced, dataVars, trayVars, job, marketVars, ops>>

\* The icon starts out as Chinese, whatever the engine is in by now.
NewTrayIcon(p) ==
    /\ at[p] = "tray" /\ Goto(p, "loop")
    /\ icon' = [icon EXCEPT ![p] = FALSE] /\ visible' = [visible EXCEPT ![p] = TRUE]
    /\ UNCHANGED <<pipe, ipc, raced, dataVars, ascii, static, posts, missed, asked,
                   job, marketVars, ops>>
----------------------------------------------------------------------------
(* Ending.  What was being written stays as it is. *)

CutOff(p) ==
    /\ cut' = (cut \/ at[p] \in {"copy", "dict"})
    /\ mess' = IF pipe # p \/ job.op \notin {"install", "uninstall"} THEN mess
               ELSE IF job.at = "saved" THEN mess \cup Listed(job.reg) \cup job.arch
               ELSE mess \cup job.arch
    /\ store' = IF pipe = p /\ job.at = "written"
                THEN [store EXCEPT ![job.pkg] = @ \cup {Bad}] ELSE store
Gone(p) ==
    /\ Goto(p, "off") /\ ipc' = [ipc EXCEPT ![p] = "none"]
    /\ pipe' = IF pipe = p THEN None ELSE pipe
    /\ job' = IF pipe = p THEN NoJob ELSE job
    /\ raced' = raced \ {p}
    /\ ascii' = [ascii EXCEPT ![p] = FALSE] /\ static' = [static EXCEPT ![p] = FALSE]
    /\ icon' = [icon EXCEPT ![p] = FALSE] /\ visible' = [visible EXCEPT ![p] = FALSE]
    /\ posts' = [posts EXCEPT ![p] = <<>>] /\ missed' = [missed EXCEPT ![p] = FALSE]
    /\ asked' = [asked EXCEPT ![p] = TRUE]
    /\ CutOff(p)
    /\ UNCHANGED <<user, dict, files, reg>>

\* WM_QUIT ends the loop; the tray is cleaned up; requests still run meanwhile.
LeaveLoop(p) ==
    /\ at[p] = "loop" /\ posts[p] # <<>> /\ Head(posts[p]) = "quit" /\ Goto(p, "cleanup")
    /\ UNCHANGED <<pipe, ipc, raced, dataVars, trayVars, job, marketVars, ops>>
Exit(p) == at[p] = "cleanup" /\ Gone(p) /\ UNCHANGED ops
Kill(p) == Op /\ at[p] # "off" /\ Gone(p)
----------------------------------------------------------------------------
(* The tray.  Whoever changes the mode holds the engine lock until the message *)
(* is posted, so that the messages come in the order of the changes.           *)

\* Without a window there is nobody to post to.
Post(p, m) == posts' = IF HasWindow(p) THEN [posts EXCEPT ![p] = Append(@, m)] ELSE posts
Told(p) == missed' = [missed EXCEPT ![p] = ~HasWindow(p)]

DoUpdateIcon(p, m) == /\ m \in {"zh", "en"} /\ icon' = [icon EXCEPT ![p] = (m = "en")]
                      /\ UNCHANGED visible
DoShowOrHide(p, m) == /\ m \in {"show", "hide"} /\ visible' = [visible EXCEPT ![p] = (m = "show")]
                      /\ UNCHANGED icon
WindowProc(p) ==
    /\ HasWindow(p) /\ posts[p] # <<>>
    /\ DoUpdateIcon(p, Head(posts[p])) \/ DoShowOrHide(p, Head(posts[p]))
    /\ posts' = [posts EXCEPT ![p] = Tail(@)]
    /\ UNCHANGED <<procVars, dataVars, ascii, static, missed, asked, job, marketVars, ops>>

RefreshIcon(p) ==
    /\ HasWindow(p) /\ icon' = [icon EXCEPT ![p] = static[p]]
    /\ UNCHANGED <<procVars, dataVars, ascii, static, visible, posts, missed, asked, job,
                   marketVars, ops>>

\* A click on the icon or on its menu.
Chosen(p) == Op /\ HasWindow(p)

\* Mutant of TrayToggle: the icon is set without the engine.
TrayToggleForced(p) ==
    /\ Chosen(p)
    /\ ascii' = [ascii EXCEPT ![p] = ~@] /\ static' = [static EXCEPT ![p] = ~ascii[p]]
    /\ Post(p, IF ascii[p] THEN "zh" ELSE "en") /\ Told(p)
    /\ UNCHANGED <<procVars, dataVars, icon, visible, asked, job, marketVars>>

TrayToggle(p) ==
    /\ Chosen(p) /\ LockOf(p)
    /\ ascii' = [ascii EXCEPT ![p] = ~@] /\ static' = [static EXCEPT ![p] = ~ascii[p]]
    /\ Post(p, IF ascii[p] THEN "zh" ELSE "en") /\ Told(p)
    /\ UNCHANGED <<procVars, dataVars, icon, visible, asked, job, marketVars>>

\* Quit on the menu tells the server that listens, be it the one whose menu it is or
\* not; so does a process started with /q.
TrayQuit(p) ==
    /\ Chosen(p) /\ pipe # None /\ Shutdown
    /\ UNCHANGED <<procVars, dataVars, ascii, static, icon, visible, missed, asked, job, marketVars>>
QuitCommand ==
    /\ Op /\ pipe # None /\ Shutdown
    /\ UNCHANGED <<procVars, dataVars, ascii, static, icon, visible, missed, asked, job, marketVars>>
----------------------------------------------------------------------------
(* Requests.  One that finds the lock taken is answered at once and does nothing. *)

First(op) ==
    CASE op = "toggle" -> "set" [] op = "download" -> "dir" [] op = "install" -> "open"
      [] op = "uninstall" -> "load" [] OTHER -> "run"

Request(op, k) ==
    /\ Op /\ pipe # None /\ Free
    /\ op \notin {"show", "hide"} /\ (k # None) = (op \in {"download", "install", "uninstall"})
    /\ job' = [NoJob EXCEPT !.op = op, !.pkg = k, !.at = First(op)]
    /\ UNCHANGED <<procVars, dataVars, trayVars, marketVars>>

\* ShowTrayIcon and HideTrayIcon of the text services.
ShowTrayIcon(m) ==
    /\ Op /\ pipe # None /\ Free
    /\ m \in {"show", "hide"} /\ Post(pipe, m)
    /\ asked' = [asked EXCEPT ![pipe] = IF HasWindow(pipe) THEN m = "show" ELSE @]
    /\ UNCHANGED <<procVars, dataVars, ascii, static, icon, visible, missed, job, marketVars>>

Step(a) == job' = [job EXCEPT !.at = a]
Done == job' = NoJob

\* ToggleAsciiMode: the engine, the static, the message.
ToggleStep ==
    /\ job.op = "toggle"
    /\ \/ /\ job.at = "set" /\ job' = [job EXCEPT !.at = "tray", !.mode = ~ascii[pipe]]
          /\ ascii' = [ascii EXCEPT ![pipe] = ~@]
          /\ UNCHANGED <<static, posts, missed>>
       \/ /\ job.at = "tray" /\ Step("post")
          /\ static' = [static EXCEPT ![pipe] = job.mode]
          /\ UNCHANGED <<ascii, posts, missed>>
       \/ /\ job.at = "post" /\ Done
          /\ Post(pipe, IF job.mode THEN "en" ELSE "zh") /\ Told(pipe)
          /\ UNCHANGED <<ascii, static>>
    /\ UNCHANGED <<procVars, dataVars, icon, visible, asked, marketVars, ops>>

\* Requests in which the engine itself changes its option; nobody tells the tray.
Quietly(mode) ==
    /\ Done
    /\ ascii' = [ascii EXCEPT ![pipe] = mode]
    /\ missed' = [missed EXCEPT ![pipe] = @ \/ ascii[pipe] # mode]
    /\ UNCHANGED <<procVars, dataVars, static, icon, visible, posts, asked, marketVars, ops>>

\* A new session is back in Chinese mode; so is a session whose schema was selected
\* anew and says so, as the shipped ones do; a key may switch (Caps Lock, the switcher).
ReloadConfig == job.op = "reload" /\ Quietly(FALSE)
SelectSchema == job.op = "select" /\ \E mode \in {FALSE, ascii[pipe]} : Quietly(mode)
ProcessKeyEvent == job.op = "key" /\ \E mode \in BOOLEAN : Quietly(mode)

\* The lists are read from the engine, the market directory and the registry; the index
\* from one of three sites, with the lock held for as long as they take to answer.
ListStep == job.op = "list" /\ Done /\ UNCHANGED <<procVars, dataVars, trayVars, marketVars, ops>>
FetchIndex == job.op = "index" /\ Done /\ UNCHANGED <<procVars, dataVars, trayVars, marketVars, ops>>

\* The body is read and its checksum compared before anything is written.  The file may
\* have the name of one that is there already.
DownloadSchema ==
    /\ job.op = "download"
    /\ \/ job.at = "dir" /\ Step("fetch") /\ UNCHANGED store
       \/ job.at = "fetch" /\ Done /\ UNCHANGED store
       \/ /\ job.at = "fetch" /\ Step("written")
          /\ \E old \in {{}} \cup {{a} : a \in store[job.pkg]} :
                store' = [store EXCEPT ![job.pkg] = @ \ old]
       \/ /\ job.at = "written" /\ Done
          /\ \E a \in Archives : store' = [store EXCEPT ![job.pkg] = @ \cup {a}]
    /\ UNCHANGED <<procVars, dataVars, trayVars, files, reg, mess, ops>>

\* Mutant of OpenArchive: an archive that cannot be unpacked is gone on with.
OpenArchiveUnchecked ==
    /\ job.op = "install" /\ job.at = "open"
    /\ \/ Done
       \/ \E a \in store[job.pkg] \ {{}} :
             job' = [job EXCEPT !.at = "copy", !.todo = a, !.arch = a]
    /\ UNCHANGED <<procVars, dataVars, trayVars, marketVars, ops>>

\* Mutant of OpenArchive: the entry is made before the files are copied.
OpenArchiveRegisters ==
    /\ job.op = "install" /\ job.at = "open"
    /\ \/ Done /\ UNCHANGED reg
       \/ \E a \in store[job.pkg] \ {Bad, {}} :
             /\ job' = [job EXCEPT !.at = "copy", !.todo = a, !.arch = a]
             /\ reg' = [reg EXCEPT ![job.pkg] = a]
    /\ UNCHANGED <<procVars, dataVars, trayVars, store, files, mess, ops>>

\* Whichever archive the directory lists first is unpacked to a temporary directory,
\* its schema files are copied one by one and then entered in the registry.
OpenArchive ==
    /\ job.op = "install" /\ job.at = "open"
    /\ \/ Done
       \/ \E a \in store[job.pkg] \ {Bad, {}} :
             job' = [job EXCEPT !.at = "copy", !.todo = a, !.arch = a]
    /\ UNCHANGED <<procVars, dataVars, trayVars, marketVars, ops>>
CopyFile ==
    /\ job.op = "install" /\ job.at = "copy"
    /\ \/ /\ Done /\ mess' = mess \cup job.arch
          /\ files' \in {files} \cup {files \cup {f} : f \in job.todo}
       \/ \E f \in job.todo :
            /\ files' = files \cup {f}
            /\ job' = [job EXCEPT !.todo = @ \ {f},
                                  !.at = IF job.todo = {f} THEN "save" ELSE "copy",
                                  !.reg = [reg EXCEPT ![job.pkg] = job.arch]]
            /\ UNCHANGED mess
    /\ UNCHANGED <<procVars, dataVars, trayVars, store, reg, ops>>

\* An entry there is needed; its files are removed, errors ignored, and then it goes.
LoadEntry ==
    /\ job.op = "uninstall" /\ job.at = "load"
    /\ IF reg[job.pkg] = None THEN Done
       ELSE job' = [job EXCEPT !.at = IF reg[job.pkg] = {} THEN "save" ELSE "remove",
                               !.todo = reg[job.pkg], !.arch = reg[job.pkg],
                               !.reg = [reg EXCEPT ![job.pkg] = None]]
    /\ UNCHANGED <<procVars, dataVars, trayVars, marketVars, ops>>
RemoveFile ==
    /\ job.op = "uninstall" /\ job.at = "remove"
    /\ \E f \in job.todo :
        /\ \/ files' = files \ {f} /\ UNCHANGED mess
           \/ mess' = mess \cup {f} /\ UNCHANGED files
        /\ job' = [job EXCEPT !.todo = @ \ {f}, !.at = IF job.todo = {f} THEN "save" ELSE "remove"]
    /\ UNCHANGED <<procVars, dataVars, trayVars, store, reg, ops>>

\* fs::write truncates the registry and writes it anew; an error is ignored, an empty
\* file reads as an empty registry.
SaveRegistry ==
    /\ \/ /\ job.at = "save" /\ Step("saved") /\ reg' = NoRegistry
          /\ mess' = IF job.op = "install" /\ reg[job.pkg] # None
                     THEN mess \cup (reg[job.pkg] \ job.arch) ELSE mess
       \/ job.at = "save" /\ Done /\ mess' = mess \cup job.arch /\ UNCHANGED reg
       \/ job.at = "saved" /\ Done /\ mess' = mess \cup job.arch \cup Listed(job.reg) /\ UNCHANGED reg
       \/ /\ job.at = "saved" /\ Done /\ reg' = job.reg
          /\ mess' = IF job.op = "install" THEN mess \ job.arch
                     ELSE mess \cup (job.arch \cap Listed(job.reg))
    /\ UNCHANGED <<procVars, dataVars, trayVars, store, files, ops>>
----------------------------------------------------------------------------
StartStep(p) == \/ Check(p) \/ Poll(p) \/ Recheck(p) \/ EnsureUserConfig(p)
                \/ CopyDirContents(p) \/ StartEngine(p) \/ CopyDict(p) \/ RunServer(p)
                \/ CreatePipe(p) \/ NewTrayIcon(p)
LoopStep(p) == LeaveLoop(p) \/ WindowProc(p) \/ RefreshIcon(p) \/ Exit(p)
HandlerStep == \/ ToggleStep \/ ReloadConfig \/ SelectSchema \/ ProcessKeyEvent \/ ListStep
               \/ FetchIndex \/ DownloadSchema \/ OpenArchive \/ CopyFile
               \/ LoadEntry \/ RemoveFile \/ SaveRegistry

Next == \/ \E p \in Procs : \/ Launch(p) \/ StartStep(p) \/ LoopStep(p) \/ Kill(p)
                            \/ TrayToggle(p) \/ TrayQuit(p)
        \/ QuitCommand \/ HandlerStep
        \/ \E op \in Requests : ShowTrayIcon(op) \/ \E k \in Packages \cup {None} : Request(op, k)

Spec == Init /\ [][Next]_vars
----------------------------------------------------------------------------
\* Every variable holds what its declaration says.
TypeOK ==
    /\ at \in [Procs -> Past \cup {"off", "check", "wait", "recheck"}]
    /\ ipc \in [Procs -> {"none", "starting", "on", "deaf"}]
    /\ pipe \in Procs \cup {None} /\ raced \subseteq Procs
    /\ user \in {"none", "part", "whole"} /\ dict \in {"none", "part", "whole"} /\ cut \in BOOLEAN
    /\ \A v \in {ascii, static, icon, visible, missed, asked} : v \in [Procs -> BOOLEAN]
    /\ posts \in [Procs -> Seq({"zh", "en", "show", "hide", "quit"})]
    /\ job.op \in RequestNames \cup {"none"} /\ job.pkg \in Packages \cup {None}
    /\ job.at \in {"set", "tray", "post", "run", "dir", "fetch", "written", "open", "copy",
                   "load", "remove", "save", "saved", "end"}
    /\ job.mode \in BOOLEAN /\ job.todo \subseteq job.arch /\ job.arch \subseteq Files
    /\ job.reg \in [Packages -> Entries]
    /\ store \in [Packages -> SUBSET Archives] /\ files \subseteq Files /\ mess \subseteq Files
    /\ reg \in [Packages -> Entries] /\ ops \in 0..MaxOps

\* A server in its message loop has the pipe, or its thread is about to ask for it; the
\* exception are servers one of which started while the other was not listening, which
\* check_server_running cannot see.  A start that waits for the one before it never
\* ends with two, however long the old one takes.
RunningServes ==
    \A p \in Procs : at[p] = "loop" /\ ipc[p] # "starting" => pipe = p \/ p \in raced

\* A server that serves has the user's files and the dictionary in full, unless a copy
\* failed, was cut off or met another start: then nothing ever completes it.
DataWhole == \A p \in Procs : at[p] = "loop" /\ ~cut => user = "whole" /\ dict = "whole"

\* Once the main thread has handled what was posted, the tray shows the mode the engine
\* is in and is as visible as was last asked, in whatever order clicks on it, requests of
\* several clients and changes of the theme came.  The exceptions are a change of the mode
\* before there was a window and one that the engine makes in the course of another
\* request, ReloadConfig, SelectSchema or a key, until the mode is next toggled.
TrayShowsMode ==
    \A p \in Procs :
        at[p] = "loop" /\ posts[p] = <<>> /\ ~(pipe = p /\ job.op = "toggle")
            => visible[p] = asked[p] /\ (missed[p] \/ icon[p] = ascii[p])

\* With no installation under way, the schema files present are those the registry
\* lists, except for files an operation on which failed or was cut off by the end of the
\* process, or that two packages share or a new version has dropped.
MarketConsistent ==
    job.op \notin {"install", "uninstall"}
        => \A f \in Files \ mess : f \in files <=> f \in Listed(reg)

=============================================================================
