----------------------------- MODULE PluginTasks -----------------------------
(***************************************************************************)
(* The plugin pages of the settings application and the plugin manager.     *)
(*                                                                         *)
(* The page starts every operation in a thread of its own.  The threads     *)
(* share the plugin directories and registry.yaml, and leave their results  *)
(* in one slot, which the page empties four times a second.  Any step on    *)
(* the disk may fail, and closing the window ends all threads where they    *)
(* are.                                                                    *)
(*                                                                         *)
(* Names, versions, dates and the temporary package are left out, and so is *)
(* the plugin's own configuration file, which nothing here reads.  Of the   *)
(* index only its arrival is modelled, at which the page reads the registry *)
(* again: a plugin that is not installed can be got at any time.  The       *)
(* pages never have a package to install that is not being downloaded: no   *)
(* code fills downloaded_ids, so "installing" stays None.                   *)
(***************************************************************************)
EXTENDS Naturals

CONSTANTS
  Plugins,  \* what the index lists
  Workers,  \* threads that may exist at once (bound)
  MaxTasks, \* threads started altogether (bound)
  NoPlugin

ASSUME PluginAssumption == MaxTasks \in Nat /\ NoPlugin \notin Plugins

VARIABLES
  registry,     \* registry.yaml: the record of each plugin ("none", "off", "on")
  dirs,         \* the plugin's directory: "none", "partial" or "whole"
  task,         \* the threads
  slot,         \* PLUGIN_TASK_RESULT
  downloading,  \* market_plugin.downloading
  installed,    \* market_plugin.installed, the page's copy of the registry
  excused,      \* history: plugins whose files and record may disagree
  started,      \* how many threads there have been, for the bound only
  missed        \* history: the page may not have seen the last change

vars == <<registry, dirs, task, slot, downloading, installed, excused, started,
          missed>>

Records == {"none", "off", "on"}
NoRecords == [p \in Plugins |-> "none"]

\* PluginTaskResult; the message of an error is left out.
NoResult == [kind |-> "none", plugin |-> NoPlugin, on |-> "none"]

Free == [kind |-> "none", plugin |-> NoPlugin, pc |-> "free", on |-> "none",
         old |-> "none", read |-> NoRecords, ok |-> TRUE, alone |-> TRUE]

Busy(w) == task[w].pc # "free"
At(w, pc) == task[w].pc = pc

\* Between reading registry.yaml and having written it back.
Rewriting(w) == task[w].pc \in {"truncate", "write"}

-----------------------------------------------------------------------------
(* The page *)

\* A new thread.  Two threads that work on one plugin do not wait for each
\* other; from then on neither is "alone".
Start(w, kind, p, pc, on) ==
  LET others == {v \in Workers : Busy(v) /\ task[v].plugin = p}
  IN  /\ ~Busy(w)
      /\ started < MaxTasks
      /\ started' = started + 1
      /\ task' = [v \in Workers |->
           IF v = w
           THEN [Free EXCEPT !.kind = kind, !.plugin = p, !.pc = pc, !.on = on,
                             !.alone = others = {}]
           ELSE IF v \in others THEN [task[v] EXCEPT !.alone = FALSE]
           ELSE task[v]]
      /\ excused' = IF others = {} THEN excused ELSE excused \cup {p}

\* The card's button "Get" and download_market_plugin.
Get(w, p) ==
  /\ installed[p] = "none"
  /\ downloading = NoPlugin
  /\ downloading' = p
  /\ Start(w, "get", p, "fetch", "none")
  /\ UNCHANGED <<registry, dirs, slot, installed, missed>>

\* Mutant of Uninstall: the record goes, the directory stays.
UninstallRecordOnly(w, p) ==
  /\ installed[p] # "none"
  /\ Start(w, "uninstall", p, "read", "none")
  /\ UNCHANGED <<registry, dirs, slot, downloading, installed, missed>>

\* uninstall_market_plugin looks at nothing.
Uninstall(w, p) ==
  /\ installed[p] # "none"
  /\ Start(w, "uninstall", p, "remove", "none")
  /\ UNCHANGED <<registry, dirs, slot, downloading, installed, missed>>

\* toggle_market_plugin with the opposite of what the page shows.
Toggle(w, p) ==
  /\ installed[p] # "none"
  /\ Start(w, "toggle", p, "read", IF installed[p] = "on" THEN "off" ELSE "on")
  /\ UNCHANGED <<registry, dirs, slot, downloading, installed, missed>>

\* PluginManager::list; a file that cannot be read counts as an empty list.
Listed == {registry, NoRecords}

\* refresh_installed_plugins.  What the page missed it has seen now, unless the
\* file could not be read, or a thread has it half-written or will write what it
\* read before.
Relist ==
  /\ installed' \in Listed
  /\ missed' = \/ installed' # registry
               \/ \E w \in Workers : At(w, "write")
               \/ missed /\ (\E w \in Workers : Rewriting(w))

\* The button "refresh", and poll_plugin_yaml when an index has arrived.
RefreshPlugins ==
  /\ Relist
  /\ UNCHANGED <<registry, dirs, task, slot, downloading, excused, started>>

\* Mutant of Relisted: only an installation is looked up.
RelistedAfterGet == slot.kind = "get"

Relisted == slot.kind \in {"get", "uninstall"}

\* Mutant of Switched: the wrong field of the result.
SwitchedToKind ==
  IF slot.kind = "toggle" /\ installed[slot.plugin] # "none"
  THEN [installed EXCEPT ![slot.plugin] = slot.kind]
  ELSE installed

\* A switched plugin is not looked up: the page's own record changes.
Switched ==
  IF slot.kind = "toggle" /\ installed[slot.plugin] # "none"
  THEN [installed EXCEPT ![slot.plugin] = slot.on]
  ELSE installed

\* Mutant of DownloadingAfterPoll: an error leaves the mark.
DownloadingAfterError == IF slot.kind = "error" THEN downloading ELSE NoPlugin

\* Any result ends what the page calls its download.
DownloadingAfterPoll == NoPlugin

\* poll_plugin_task.
Poll ==
  /\ slot # NoResult
  /\ slot' = NoResult
  /\ \/ Relisted /\ Relist
     \/ ~Relisted /\ installed' = Switched /\ UNCHANGED missed
  /\ downloading' = DownloadingAfterPoll
  /\ UNCHANGED <<registry, dirs, task, excused, started>>

-----------------------------------------------------------------------------
(* The threads *)

Goto(w, pc) == task' = [task EXCEPT ![w].pc = pc]

\* What a thread knew is of no use to it any more.
Ended(thread, ok) ==
  [thread EXCEPT !.pc = "report", !.ok = ok, !.old = "none", !.read = NoRecords]

\* An error ends the operation; "spoilt" are the plugins it may leave half done.
Fails(w, spoilt) ==
  /\ task' = [task EXCEPT ![w] = Ended(@, FALSE)]
  /\ excused' = excused \cup spoilt

OnDisk == <<slot, downloading, installed, started>>

\* do_download_plugin: the network may take any time, and may fail.
Fetch(w) ==
  /\ At(w, "fetch")
  /\ \/ Goto(w, "open") /\ UNCHANGED excused
     \/ Fails(w, {})
  /\ UNCHANGED <<OnDisk, registry, dirs, missed>>

\* install_from_zip looks into the package and for an existing record.
Open(w) ==
  /\ At(w, "open")
  /\ \/ /\ \E found \in Listed :
             task' = [task EXCEPT ![w] = [@ EXCEPT !.pc = "clear",
                                                   !.old = found[task[w].plugin]]]
        /\ UNCHANGED excused
     \/ Fails(w, {})
  /\ UNCHANGED <<OnDisk, registry, dirs, missed>>

\* The old directory goes, an empty one is made.
Clear(w) ==
  LET p == task[w].plugin
  IN  /\ At(w, "clear")
      /\ \/ /\ dirs' = [dirs EXCEPT ![p] = "partial"]
            /\ Goto(w, "extract") /\ UNCHANGED excused
         \/ /\ \E left \in {dirs[p], "partial"} :
                 dirs' = [dirs EXCEPT ![p] = left]
            /\ Fails(w, {p})
      /\ UNCHANGED <<OnDisk, registry, missed>>

\* Another thread on the same plugin may have taken files away.
Extract(w) ==
  LET p == task[w].plugin
  IN  /\ At(w, "extract")
      /\ \/ /\ \E d \in IF task[w].alone THEN {"whole"} ELSE {"partial", "whole"} :
                 dirs' = [dirs EXCEPT ![p] = d]
            /\ Goto(w, "read") /\ UNCHANGED excused
         \/ UNCHANGED dirs /\ Fails(w, {p})
      /\ UNCHANGED <<OnDisk, registry, missed>>

\* uninstall: remove_dir_all, if there is a directory.
Remove(w) ==
  LET p == task[w].plugin
  IN  /\ At(w, "remove")
      /\ \/ /\ dirs' = [dirs EXCEPT ![p] = "none"]
            /\ Goto(w, "read") /\ UNCHANGED excused
         \/ /\ dirs[p] # "none"
            /\ \E left \in {dirs[p], "partial"} :
                 dirs' = [dirs EXCEPT ![p] = left]
            /\ Fails(w, {p})
      /\ UNCHANGED <<OnDisk, registry, missed>>

\* Anything in the registry may be lost: nothing is vouched for until a thread
\* that starts later has done its work.
Lossy(tasks) ==
  /\ task' = [w \in Workers |-> [tasks[w] EXCEPT !.alone = FALSE]]
  /\ excused' = Plugins
  /\ missed' = TRUE

\* read_registry.  Two threads between reading and writing lose each other's
\* changes, of any plugin; a thread that finds an empty list loses all records.
Read(w) ==
  /\ At(w, "read")
  /\ \E found \in Listed :
       IF task[w].kind = "toggle" /\ found[task[w].plugin] = "none"
       THEN Fails(w, {}) /\ UNCHANGED missed
       ELSE LET next == [task EXCEPT ![w] = [@ EXCEPT !.pc = "truncate",
                                                      !.read = found]]
            IN  IF found # registry \/ \E v \in Workers \ {w} : Rewriting(v)
                THEN Lossy(next)
                ELSE task' = next /\ UNCHANGED <<excused, missed>>
  /\ UNCHANGED <<OnDisk, registry, dirs>>

\* write_registry: fs::write empties the file first.
Truncate(w) ==
  /\ At(w, "truncate")
  /\ \/ registry' = NoRecords /\ Goto(w, "write") /\ UNCHANGED excused
     \/ UNCHANGED registry /\ Fails(w, {task[w].plugin})
  /\ UNCHANGED <<OnDisk, dirs, missed>>

\* A plugin installed over an old record keeps the record's switch.
NewRecord(w) ==
  CASE task[w].kind = "get" -> IF task[w].old = "none" THEN "on" ELSE task[w].old
    [] task[w].kind = "toggle" -> task[w].on
    [] OTHER -> "none"

Write(w) ==
  /\ At(w, "write")
  /\ \/ /\ registry' = [task[w].read EXCEPT ![task[w].plugin] = NewRecord(w)]
        /\ task' = [task EXCEPT ![w] = Ended(@, TRUE)]
        /\ UNCHANGED <<excused, missed>>
     \/ Lossy([task EXCEPT ![w] = Ended(@, FALSE)]) /\ UNCHANGED registry
  /\ UNCHANGED <<OnDisk, dirs>>

\* The result replaces one that the page has not taken yet.  An installation or
\* removal that nothing disturbed leaves the plugin in order.
Result(w) ==
  IF task[w].ok
  THEN [kind |-> task[w].kind, plugin |-> task[w].plugin, on |-> task[w].on]
  ELSE [NoResult EXCEPT !.kind = "error"]

Report(w) ==
  /\ At(w, "report")
  /\ slot' = Result(w)
  /\ task' = [task EXCEPT ![w] = Free]
  /\ excused' = IF task[w].ok /\ task[w].alone /\ task[w].kind # "toggle"
                THEN excused \ {task[w].plugin} ELSE excused
  /\ missed' = (missed \/ slot # NoResult)
  /\ UNCHANGED <<registry, dirs, downloading, installed, started>>

\* The window is closed and the application started again: threads and memory
\* are gone, SettingsState::new reads the registry.
Spoilt ==
  IF \E w \in Workers : At(w, "write") THEN Plugins
  ELSE {task[w].plugin : w \in {v \in Workers :
                                  task[v].pc \in {"extract", "read", "truncate"}}}

Reopen ==
  /\ task' = [w \in Workers |-> Free]
  /\ slot' = NoResult
  /\ downloading' = NoPlugin
  /\ installed' \in Listed
  /\ excused' = excused \cup Spoilt
  /\ missed' = (installed' # registry)
  /\ UNCHANGED <<registry, dirs, started>>

-----------------------------------------------------------------------------
Init ==
  /\ registry \in [Plugins -> Records]
  /\ dirs = [p \in Plugins |-> IF registry[p] = "none" THEN "none" ELSE "whole"]
  /\ task = [w \in Workers |-> Free]
  /\ slot = NoResult
  /\ downloading = NoPlugin
  /\ installed = registry
  /\ excused = {}
  /\ started = 0
  /\ missed = FALSE

Step(w) ==
  \/ Fetch(w) \/ Open(w) \/ Clear(w) \/ Extract(w) \/ Remove(w) \/ Read(w)
  \/ Truncate(w) \/ Write(w) \/ Report(w)

Next ==
  \/ \E w \in Workers, p \in Plugins : Get(w, p) \/ Uninstall(w, p) \/ Toggle(w, p)
  \/ \E w \in Workers : Step(w)
  \/ RefreshPlugins \/ Poll \/ Reopen

Spec == Init /\ [][Next]_vars

-----------------------------------------------------------------------------
(* Properties *)

Phases == {"free", "fetch", "open", "clear", "extract", "remove", "read", "truncate",
           "write", "report"}
Kinds == {"none", "get", "uninstall", "toggle"}

TaskStates ==
  [kind : Kinds, plugin : Plugins \cup {NoPlugin}, pc : Phases, on : Records,
   old : Records, read : [Plugins -> Records], ok : BOOLEAN, alone : BOOLEAN]

Results == [kind : Kinds \cup {"error"}, plugin : Plugins \cup {NoPlugin}, on : Records]

\* The type invariant: states of the page, the disk and the threads.
TypeOK ==
  /\ registry \in [Plugins -> Records]
  /\ installed \in [Plugins -> Records]
  /\ dirs \in [Plugins -> {"none", "partial", "whole"}]
  /\ task \in [Workers -> TaskStates]
  /\ slot \in Results
  /\ downloading \in Plugins \cup {NoPlugin}
  /\ excused \subseteq Plugins
  /\ started \in 0 .. MaxTasks
  /\ missed \in BOOLEAN

\* A plugin on which no thread works has a record exactly if its directory is
\* there and complete, unless its last change failed half-way, was cut off by
\* closing the window, met another thread on the same plugin, or two threads
\* rewrote the registry at once.  There is no other way into disagreement, and
\* an undisturbed installation or removal leads out of it.
RegistryMatchesDisk ==
  (\A w \in Workers : ~At(w, "write")) =>
    \A p \in Plugins \ excused :
      (\A w \in Workers : task[w].plugin # p) =>
        dirs[p] = IF registry[p] = "none" THEN "none" ELSE "whole"

\* When all threads have ended and the page has taken the last result, it shows
\* the plugins and switches the registry holds, unless a result was replaced in
\* the slot before it was taken or the registry was rewritten by two threads.
PageMatchesRegistry ==
  (\A w \in Workers : ~Busy(w)) /\ slot = NoResult /\ ~missed =>
    \A p \in Plugins \ excused : installed[p] = registry[p]

\* The page calls a plugin "downloading" only while a thread gets it or a result
\* waits to be taken, so that the state ends with the thread even if its own
\* result is lost in the slot: no plugin stays blocked by a download that is over.
DownloadIsAlive ==
  downloading # NoPlugin =>
    \/ slot # NoResult
    \/ \E w \in Workers : task[w].kind = "get" /\ task[w].plugin = downloading

=============================================================================
