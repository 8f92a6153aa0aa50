---------------------------- MODULE SchemaStore ----------------------------
(***************************************************************************)
(* The extension store of the settings program, as far as schemas and      *)
(* models go (plugins: PluginTasks), and the schema list behind the        *)
(* settings page.  The UI thread handles a click or, every quarter of a    *)
(* second, a poll; what takes long runs in a thread of its own and leaves  *)
(* its result in a one-place slot for the next poll.  The pages of the two *)
(* kinds have slots of their own and share nothing but the button that     *)
(* refreshes both, so that a behaviour here is about one of them.          *)
(*                                                                         *)
(* Sources: xime-setup/src/state.rs, app.rs, pages/store.rs,               *)
(* pages/input_schema.rs, xime-config/src/schema_manager.rs,               *)
(* rime_deploy.rs.                                                         *)
(***************************************************************************)
EXTENDS Naturals, SequencesExt

CONSTANTS
    Schemas, Models,   \* what the site offers, by kind
    Shipped,           \* the schemas with a package beside the executable
    Base,              \* a schema of the shared data directory
    MaxLoads,          \* bound on the loads of the indexes
    MaxTasks,          \* bound on the tasks, the selections and the server's deployments
    None

VARIABLES
    kind,      \* the kind of extension this behaviour is about
    page,      \* what the store page shows
    have,      \* the schemas the page takes for installed
    installing,\* the schema being installed or uninstalled, or None
    choice,    \* the schemas of the settings page, read once at the start
    ui,        \* the selection the UI thread is in the middle of
    fetch,     \* the numbers of the requests under way
    index,     \* the slot of index results
    slot,      \* the slot of task results
    deploySlot,\* DEPLOY_RESULT is not empty
    task,      \* the threads
    started,   \* how many threads, selections and deployments of the server there have been
    loads,     \* how often the indexes have been asked for: the newest request's number
    disk,      \* per item: its directory in markets or models
    last,      \* per item: the thread that created its file last, or 0
    files,     \* the schemas whose files are in the user's directory
    list,      \* schema_list in default.custom.yaml
    deployed,  \* the list in build/default.yaml
    doubt,     \* that list need not be the current one, for a reason DeployedIsCurrent names
    reload,    \* the deployment a server is in the middle of
    taint,     \* items an operation of which failed, was cut off or met another
    crossed    \* the newest request met an earlier one or its answer

pageVars == <<kind, page, have, installing, choice>>
slotVars == <<index, slot, deploySlot>>
loadVars == <<fetch, loads, crossed>>
diskVars == <<disk, last, taint>>
listVars == <<files, list, deployed, doubt, reload>>
vars == <<pageVars, ui, slotVars, task, started, loadVars, diskVars, listVars>>

Kinds == {"schema", "model"}
Empty == 0             \* no index in the slot
Bad == MaxLoads + 1    \* a failed request, or an index that cannot be parsed
Items == IF kind = "schema" THEN Schemas ELSE Models
Ids == Schemas \cup {Base}
Threads == 1..MaxTasks

ASSUME KindsAssumption == Base \notin Schemas /\ None \notin Schemas \cup Models \cup {Base}
ASSUME ShippedAssumption == Shipped \subseteq Schemas
ASSUME FiniteAssumption == IsFiniteSet(Schemas)
ASSUME BoundsAssumption == MaxLoads \in Nat \ {0} /\ MaxTasks \in Nat

Alive(t) == task[t].at # "end"
Working(i) == {t \in Threads : Alive(t) /\ task[t].id = i}
NoTask == [op |-> "none", id |-> None, at |-> "end", ok |-> TRUE, ids |-> <<>>]
NoUi == [at |-> "idle", id |-> None, ids |-> <<>>]
NoResult == [op |-> "none", id |-> None, ok |-> TRUE]
NoReload == [busy |-> FALSE, ids |-> <<>>]
Idle == ui.at = "idle"

\* A new page, its index asked for.  The constructor of the page starts Rime, which
\* deploys once and is waited for (load_schemas, init_rime_deployer).
Loading == [loading |-> TRUE, loaded |-> FALSE, shown |-> 0, got |-> {}, busy |-> None]
StartLoad == fetch' = {loads'} \cup fetch
Opened ==
    /\ page' = Loading /\ have' = {} /\ installing' = None
    /\ choice' = files \cup {Base} /\ ui' = NoUi
    /\ fetch' = {loads'} /\ index' = Empty /\ slot' = NoResult /\ deploySlot' = FALSE
    /\ crossed' = FALSE
    /\ \/ deployed' = list /\ doubt' = reload.busy
       \/ doubt' = TRUE /\ UNCHANGED deployed

\* What earlier sessions have left is whole; what this one leaves may not be.
Init ==
    /\ kind \in Kinds /\ loads = 1 /\ started = 0
    /\ files \in SUBSET Schemas /\ list \in {<<>>, <<Base>>} /\ deployed = list
    /\ doubt = FALSE /\ reload = NoReload
    /\ page = Loading /\ have = {} /\ installing = None
    /\ choice = files \cup {Base} /\ ui = NoUi
    /\ fetch = {1} /\ index = Empty /\ slot = NoResult /\ deploySlot = FALSE
    /\ task = [t \in Threads |-> NoTask]
    /\ disk \in [Items -> {"none", "whole"}] /\ last = [i \in Items |-> 0]
    /\ taint = {} /\ crossed = FALSE
----------------------------------------------------------------------------
(* The index. *)

\* The site answers, or not; the answer replaces one the page has not taken.
Answer(n) ==
    /\ n \in fetch
    /\ fetch' = fetch \ {n} /\ index' \in {Bad, n}
    /\ UNCHANGED <<pageVars, ui, slot, deploySlot, task, started, loads, crossed,
                   diskVars, listVars>>

\* Mutant of Refresh: loaded is not cleared.
RefreshKeepsLoaded ==
    /\ Idle /\ loads < MaxLoads
    /\ loads' = loads + 1
    /\ page' = [page EXCEPT !.loading = TRUE]
    /\ StartLoad
    /\ crossed' = (index # Empty \/ fetch # {})
    /\ UNCHANGED <<kind, have, installing, choice, ui, slotVars, task, started, diskVars, listVars>>

\* loading and loaded are simply cleared, so that the guard of start_load_* lets the
\* next request pass, whatever is still under way.
Refresh ==
    /\ Idle /\ loads < MaxLoads
    /\ loads' = loads + 1
    /\ page' = [page EXCEPT !.loading = TRUE, !.loaded = FALSE]
    /\ StartLoad
    /\ crossed' = (index # Empty \/ fetch # {})
    /\ UNCHANGED <<kind, have, installing, choice, ui, slotVars, task, started, diskVars, listVars>>

\* Any directory counts as downloaded, whatever is in it.
ScanDirIds == {i \in Items : disk[i] # "none"}
GetSchemaList == files \cup {Base}

\* An index is taken while the page waits for one, and only then.
Taken == page.loading /\ index # Empty
\* Mutant of PollIndex: a failed request does not end the loading.
PollIndexStuck ==
    IF Taken /\ index # Bad
    THEN [page EXCEPT !.loading = FALSE, !.loaded = TRUE, !.shown = index, !.got = ScanDirIds]
    ELSE page

PollIndex ==
    IF Taken /\ index # Bad
    THEN [page EXCEPT !.loading = FALSE, !.loaded = TRUE, !.shown = index, !.got = ScanDirIds]
    ELSE [page EXCEPT !.loading = @ /\ ~Taken]

\* Mutant of PollTask: a failure leaves the mark.
PollTaskOnSuccess(p) ==
    IF ~slot.ok THEN p
    ELSE [p EXCEPT !.busy = IF slot = NoResult THEN @ ELSE None,
                   !.got = IF slot.op = "download" THEN @ \cup {slot.id}
                           ELSE IF slot.op = "delete" THEN @ \ {slot.id} ELSE @]

\* Mutant of PollTask: a deletion is not taken note of.
PollTaskForgetsDelete(p) ==
    IF slot = NoResult THEN p
    ELSE [p EXCEPT !.busy = None,
                   !.got = IF slot.ok /\ slot.op = "download" THEN @ \cup {slot.id} ELSE @]

\* Then the result of a task: any result ends the mark, whoever set it.
PollTask(p) ==
    IF slot = NoResult THEN p
    ELSE [p EXCEPT !.busy = None,
                   !.got = IF slot.ok /\ slot.op = "download" THEN @ \cup {slot.id}
                           ELSE IF slot.ok /\ slot.op = "delete" THEN @ \ {slot.id} ELSE @]
PollInstalled(h) ==
    IF slot.ok /\ slot.op = "install" THEN h \cup {slot.id}
    ELSE IF slot.ok /\ slot.op = "uninstall" THEN h \ {slot.id} ELSE h

PollDeploy == deploySlot' = FALSE
PollBackground ==
    /\ Idle /\ (deploySlot \/ Taken \/ slot # NoResult)
    /\ page' = PollTask(PollIndex)
    /\ have' = PollInstalled(IF kind = "schema" /\ Taken /\ index # Bad THEN GetSchemaList ELSE have)
    /\ installing' = IF slot # NoResult THEN None ELSE installing
    /\ index' = IF Taken THEN Empty ELSE index
    /\ slot' = NoResult /\ PollDeploy
    /\ UNCHANGED <<kind, choice, ui, task, started, loadVars, diskVars, listVars>>
----------------------------------------------------------------------------
(* Starting a task. *)

Spawn(op, i, first) ==
    /\ Idle /\ started < MaxTasks
    /\ started' = started + 1
    /\ task' = [task EXCEPT ![started + 1] =
                  [op |-> op, id |-> i, at |-> first, ok |-> TRUE, ids |-> <<>>]]
    /\ taint' = IF i # None /\ Working(i) # {} THEN taint \cup {i} ELSE taint
    /\ UNCHANGED <<kind, have, choice, ui, slotVars, loadVars, disk, last, listVars>>

\* The button is there for what is neither installed, nor downloaded, nor under way.
SchemaList == kind = "schema" /\ page.loaded
SchemaAction(i) ==
    /\ SchemaList
    /\ i \notin have /\ i \notin page.got /\ page.busy # i /\ installing # i
ModelList == kind = "model" /\ page.loaded
ModelAction(i, got) ==
    /\ ModelList /\ page.busy # i
    /\ got = (i \in page.got)

DownloadMarketSchema(i) ==
    /\ SchemaAction(i) /\ page.busy = None /\ installing = None
    /\ page' = [page EXCEPT !.busy = i]
    /\ Spawn("download", i, "mkdir")
    /\ UNCHANGED installing

DownloadMarketModel(i) ==
    /\ ModelAction(i, FALSE) /\ page.busy = None
    /\ page' = [page EXCEPT !.busy = i]
    /\ Spawn("download", i, "mkdir")
    /\ UNCHANGED installing

\* Allowed while another model is being downloaded.
DeleteMarketModel(i) ==
    /\ ModelAction(i, TRUE)
    /\ Spawn("delete", i, "remove")
    /\ UNCHANGED <<page, installing>>

\* The settings page offers the packages it finds beside the executable, a directory
\* nothing here writes to: what the store downloads goes elsewhere.
ScanMarketDir == Shipped
PackageCard(i) == IF i \in have THEN "uninstall" ELSE "install"
MarketGuard == kind = "schema" /\ installing = None /\ page.busy = None
InstallMarketSchema(i) ==
    /\ i \in ScanMarketDir /\ PackageCard(i) = "install" /\ MarketGuard
    /\ installing' = i
    /\ Spawn("install", i, "copy")
    /\ UNCHANGED page

UninstallMarketSchema(i) ==
    /\ i \in ScanMarketDir /\ PackageCard(i) = "uninstall" /\ MarketGuard
    /\ installing' = i
    /\ Spawn("uninstall", i, "read")
    /\ UNCHANGED page

\* Only a result not yet taken keeps a deployment from being started again.
StartDeploy ==
    /\ kind = "schema" /\ ~deploySlot
    /\ Spawn("deploy", None, "deploy")
    /\ UNCHANGED <<page, installing>>
----------------------------------------------------------------------------
(* The steps of the threads. *)

At(t, op, at) == task[t].op = op /\ task[t].at = at
Goto(t, at) == task' = [task EXCEPT ![t].at = at]
Fails(t) == task' = [task EXCEPT ![t].at = "report", ![t].ok = FALSE]
Done(t, at, ok) == task' = [task EXCEPT ![t].at = at, ![t].ok = ok, ![t].ids = <<>>]
Still == UNCHANGED <<pageVars, ui, slotVars, started, loadVars>>

\* do_download, do_download_model: the directory, the file, its contents.
Mkdir(t) ==
    LET i == task[t].id
    IN  /\ At(t, "download", "mkdir")
        /\ \/ Fails(t) /\ UNCHANGED disk
           \/ /\ disk' = [disk EXCEPT ![i] = IF @ = "none" THEN "dir" ELSE @]
              /\ Goto(t, "create")
        /\ Still /\ UNCHANGED <<last, taint, listVars>>

Create(t) ==
    LET i == task[t].id
    IN  /\ At(t, "download", "create")
        /\ \/ Fails(t) /\ taint' = taint \cup {i} /\ UNCHANGED <<disk, last>>
           \/ /\ disk' = [disk EXCEPT ![i] = "part"] /\ last' = [last EXCEPT ![i] = t]
              /\ Goto(t, "write") /\ UNCHANGED taint
        /\ Still /\ UNCHANGED listVars

\* The file is whole if nobody has truncated or removed it meanwhile.  A read error
\* leaves what has been written, a wrong checksum removes it.
Write(t) ==
    LET i == task[t].id
    IN  /\ At(t, "download", "write")
        /\ \/ /\ disk' = [disk EXCEPT ![i] = IF last[i] = t THEN "whole" ELSE @]
              /\ taint' = IF disk'[i] = "whole" /\ Working(i) = {t} THEN taint \ {i}
                          ELSE taint \cup {i}
              /\ Goto(t, "report") /\ UNCHANGED last
           \/ Fails(t) /\ taint' = taint \cup {i} /\ UNCHANGED <<disk, last>>
           \/ /\ Fails(t) /\ taint' = taint \cup {i}
              /\ disk' = [disk EXCEPT ![i] = IF @ = "none" THEN @ ELSE "dir"]
              /\ last' = [last EXCEPT ![i] = 0]
        /\ Still /\ UNCHANGED listVars

\* delete_market_model reports success in any case.
RemoveDirAll(t) ==
    LET i == task[t].id
    IN  /\ At(t, "delete", "remove")
        /\ \E left \in {"none", "dir", disk[i]} :
            /\ disk[i] = "none" => left = "none"
            /\ disk' = [disk EXCEPT ![i] = left]
            /\ last' = [last EXCEPT ![i] = IF left = "none" \/ left = "dir" THEN 0 ELSE @]
            /\ taint' = IF left # "none" \/ Working(i) # {t} THEN taint \cup {i} ELSE taint
        /\ Goto(t, "report")
        /\ Still /\ UNCHANGED listVars

\* do_install looks for the package where downloads go, unpacks it and copies the
\* schema files one by one.
Unpacks(i) == disk[i] = "whole"
CopyFiles(t) ==
    LET i == task[t].id
    IN  /\ At(t, "install", "copy")
        /\ \/ /\ Unpacks(i)
              /\ files' = files \cup {i} /\ Goto(t, "read")
           \/ /\ Fails(t)
              /\ files' \in {files, files \cup {j \in {i} : Unpacks(j)}}
        /\ Still /\ UNCHANGED <<diskVars, list, deployed, doubt, reload>>

\* get_selected_schema: the first of the list on the disk, if there is one.
GetSelectedSchema == IF list = <<>> THEN <<>> ELSE <<Head(list)>>

\* Mutant of ReadSelected: an empty list has a first entry too.
ReadSelectedUnchecked(t) ==
    /\ At(t, "install", "read")
    /\ task' = [task EXCEPT ![t].at = "list",
                  ![t].ids = <<IF list = <<>> THEN None ELSE Head(list), task[t].id>>]
    /\ Still /\ UNCHANGED <<diskVars, listVars>>

\* The new list is that one and the one installed, and no more.
ReadSelected(t) ==
    /\ At(t, "install", "read")
    /\ task' = [task EXCEPT ![t].at = "list", ![t].ids = GetSelectedSchema \o <<task[t].id>>]
    /\ Still /\ UNCHANGED <<diskVars, listVars>>

\* do_uninstall: no registry is ever written where it looks for one, so no file is
\* removed; what comes first by name of the schemas left becomes the whole list.
ReadRest(t) ==
    /\ At(t, "uninstall", "read")
    /\ \E first \in (files \cup {Base}) \ {task[t].id} :
        task' = [task EXCEPT ![t].at = "list", ![t].ids = <<first>>]
    /\ Still /\ UNCHANGED <<diskVars, listVars>>

\* fs::write truncates the file and writes it anew: when that fails, the list is cut off.
SetSchemaList(t) ==
    /\ task[t].at = "list"
    /\ \/ list' = task[t].ids /\ Done(t, "deploy", TRUE) /\ UNCHANGED doubt
       \/ Done(t, "report", FALSE) /\ UNCHANGED <<list, doubt>>
       \/ Done(t, "report", FALSE) /\ list' \in Prefixes(task[t].ids) /\ doubt' = TRUE
    /\ Still /\ UNCHANGED <<diskVars, files, deployed, reload>>

\* RimeDeployWorkspace runs its tasks in the thread that calls it, with no lock: the list
\* is read, and build/default.yaml written some time later, whoever else is at it.
SomebodyBuilds == \/ reload.busy \/ ui.at = "build"
                  \/ \E t \in Threads : task[t].at = "build"
DeployReads == doubt' = SomebodyBuilds /\ UNCHANGED deployed

\* Nobody looks at what ConfigFileUpdate returns, which also takes the built file for
\* current by a time in seconds: what is reported is about the schemas built after it.
DeployWrites(ids) ==
    /\ deployed' \in {deployed, ids}
    /\ doubt' = (doubt \/ deployed' # ids)

DeployStep(t) ==
    /\ task[t].at = "deploy"
    /\ DeployReads
    /\ task' = [task EXCEPT ![t].at = "build", ![t].ids = list]
    /\ Still /\ UNCHANGED <<diskVars, files, list, reload>>

BuildStep(t) ==
    /\ task[t].at = "build"
    /\ DeployWrites(task[t].ids)
    /\ \E ok \in BOOLEAN : Done(t, "report", ok)
    /\ Still /\ UNCHANGED <<diskVars, files, list, reload>>

\* A server that is told to reload (notify_daemon_reload, after each of these tasks and
\* each deployment), or starts, deploys in its own process.
ServerDeploys ==
    /\ kind = "schema" /\ ~reload.busy /\ started < MaxTasks
    /\ started' = started + 1
    /\ DeployReads
    /\ reload' = [busy |-> TRUE, ids |-> list]
    /\ UNCHANGED <<pageVars, ui, slotVars, task, loadVars, diskVars, files, list>>

ServerBuilds ==
    /\ reload.busy /\ reload' = NoReload
    /\ DeployWrites(reload.ids)
    /\ UNCHANGED <<pageVars, ui, slotVars, task, started, loadVars, diskVars, files, list>>

\* A result that finds another replaces it: what that one said is lost.
Report(t) ==
    LET i == task[t].id
    IN  /\ task[t].at = "report"
        /\ task' = [task EXCEPT ![t] = NoTask]
        /\ last' = [j \in Items |-> IF last[j] = t THEN 0 ELSE last[j]]
        /\ IF i = None THEN deploySlot' = TRUE /\ UNCHANGED <<slot, taint>>
           ELSE /\ slot' = [op |-> task[t].op, id |-> i, ok |-> task[t].ok]
                /\ taint' = IF slot = NoResult THEN taint ELSE taint \cup {slot.id}
                /\ UNCHANGED deploySlot
        /\ UNCHANGED <<pageVars, ui, index, started, loadVars, disk, listVars>>
----------------------------------------------------------------------------
(* Selecting a schema on the settings page when no server takes the selection *)
(* (there is none, or it is busy): the list is read, rewritten and deployed   *)
(* in the UI thread.                                                          *)

SchemaRow(i) == i \in choice
SaveSchema(i) ==
    /\ kind = "schema" /\ Idle /\ SchemaRow(i) /\ started < MaxTasks
    /\ started' = started + 1
    /\ ui' = [at |-> "list", id |-> i, ids |-> IF list = <<>> THEN SetToSeq(choice) ELSE list]
    /\ UNCHANGED <<pageVars, slotVars, task, loadVars, diskVars, listVars>>

\* ids.retain: the places that do not hold i, in their order, make up the one list
\* that is left.
Others(ids, i) == {k \in DOMAIN ids : ids[k] # i}
Retained(ids, i) ==
    {[k \in DOMAIN p |-> ids[p[k]]] :
        p \in {q \in [1..Cardinality(Others(ids, i)) -> Others(ids, i)] :
                  \A j, k \in DOMAIN q : j < k => q[j] < q[k]}}

SaveSchemaList ==
    /\ ui.at = "list"
    /\ \E rest \in Retained(ui.ids, ui.id) :
        \/ list' = <<ui.id>> \o rest /\ ui' = [NoUi EXCEPT !.at = "deploy"] /\ UNCHANGED doubt
        \/ ui' = NoUi /\ UNCHANGED <<list, doubt>>
        \/ ui' = NoUi /\ list' \in Prefixes(<<ui.id>> \o rest) /\ doubt' = TRUE
    /\ UNCHANGED <<pageVars, slotVars, task, started, loadVars, diskVars, files, deployed, reload>>

\* Mutant of SaveSchemaDeploy: the list is written and left at that.
SaveSchemaDeployNever ==
    /\ ui.at = "deploy" /\ ui' = NoUi
    /\ UNCHANGED <<pageVars, slotVars, task, started, loadVars, diskVars, listVars>>

SaveSchemaDeploy ==
    /\ ui.at = "deploy" /\ ui' = [ui EXCEPT !.at = "build", !.ids = list]
    /\ DeployReads
    /\ UNCHANGED <<pageVars, slotVars, task, started, loadVars, diskVars, files, list, reload>>

SaveSchemaBuild ==
    /\ ui.at = "build" /\ ui' = NoUi
    /\ DeployWrites(ui.ids)
    /\ UNCHANGED <<pageVars, slotVars, task, started, loadVars, diskVars, files, list, reload>>

\* The window closes, the process ends with all its threads, and is started again; a
\* named mutex keeps a second one from running beside it.
Reopen ==
    /\ loads < MaxLoads /\ loads' = loads + 1
    /\ Opened
    /\ task' = [t \in Threads |-> NoTask]
    /\ taint' = taint \cup {i \in Items : Working(i) # {}}
    /\ last' = [i \in Items |-> 0]
    /\ UNCHANGED <<kind, started, disk, files, list, reload>>
----------------------------------------------------------------------------
ThreadStep(t) == \/ Mkdir(t) \/ Create(t) \/ Write(t) \/ RemoveDirAll(t)
                 \/ CopyFiles(t) \/ ReadSelected(t) \/ ReadRest(t) \/ SetSchemaList(t)
                 \/ DeployStep(t) \/ BuildStep(t) \/ Report(t)

Next == \/ (\E n \in 1..MaxLoads : Answer(n))
        \/ Refresh \/ PollBackground \/ Reopen
        \/ (\E i \in Schemas : \/ DownloadMarketSchema(i) \/ InstallMarketSchema(i)
                               \/ UninstallMarketSchema(i))
        \/ (\E i \in Models : DownloadMarketModel(i) \/ DeleteMarketModel(i))
        \/ StartDeploy
        \/ (\E i \in Ids : SaveSchema(i)) \/ SaveSchemaList \/ SaveSchemaDeploy
        \/ SaveSchemaBuild \/ ServerDeploys \/ ServerBuilds
        \/ \E t \in Threads : ThreadStep(t)

Spec == Init /\ [][Next]_vars
----------------------------------------------------------------------------
\* Every variable holds what its declaration says.
TypeOK ==
    /\ loads \in 1..MaxLoads /\ started \in 0..MaxTasks
    /\ kind \in Kinds
    /\ page \in [loading : BOOLEAN, loaded : BOOLEAN, shown : 0..MaxLoads,
                 got : SUBSET Items, busy : Items \cup {None}]
    /\ have \subseteq Ids /\ installing \in Schemas \cup {None} /\ choice \subseteq Ids
    /\ ui.at \in {"idle", "list", "deploy", "build"} /\ ui.id \in Ids \cup {None} /\ ui.ids \in Seq(Ids)
    /\ fetch \subseteq 1..MaxLoads /\ index \in 0..MaxLoads + 1
    /\ slot \in [op : {"none", "download", "delete", "install", "uninstall"},
                 id : Items \cup {None}, ok : BOOLEAN]
    /\ deploySlot \in BOOLEAN /\ doubt \in BOOLEAN
    /\ \A t \in Threads :
        /\ task[t].op \in {"none", "download", "delete", "install", "uninstall", "deploy"}
        /\ task[t].id \in Items \cup {None} /\ task[t].ok \in BOOLEAN
        /\ task[t].at \in {"mkdir", "create", "write", "remove", "copy", "read", "list",
                           "deploy", "build", "report", "end"}
        /\ task[t].ids \in Seq(Ids)
    /\ disk \in [Items -> {"none", "dir", "part", "whole"}] /\ last \in [Items -> 0..MaxTasks]
    /\ files \subseteq Schemas /\ list \in Seq(Ids) /\ deployed \in Seq(Ids)
    /\ reload \in [busy : BOOLEAN, ids : Seq(Ids)]
    /\ taint \subseteq Items
    /\ crossed \in BOOLEAN

\* The mark that blocks further downloads and installations stands only as long as
\* some thread, or its result, is there to end it.
MarkHasThread ==
    page.busy # None \/ installing # None
        => slot # NoResult \/ \E t \in Threads : Alive(t) /\ task[t].id # None

\* A page that says it is loading has a request under way or an answer to take: it
\* never waits for nothing, however refreshes and answers cross.
LoadingHasRequest == page.loading => index # Empty \/ fetch # {}

\* With nothing under way, the page calls downloaded what is on the disk in full,
\* except for items whose last operation failed, was cut off, met another, or had
\* its result replaced in the slot: a partial download counts as one, has no button
\* to repeat it, and a schema has none to delete it.
PageMatchesDisk ==
    page.loaded /\ slot = NoResult
        => \A i \in Items \ taint :
               Working(i) = {} => (i \in page.got <=> disk[i] = "whole")

\* A page that has loaded shows the answer to its newest request, unless that was made
\* while an earlier one, or its answer, was still about (state.rs:733).
IndexIsFresh == page.loaded /\ ~crossed => page.shown = loads

\* Whoever writes the schema list also has it deployed: in every order of selections in
\* the UI thread, installations, uninstallations and deployments of the server, the
\* list in build/default.yaml is the one on the disk once nobody is about to deploy,
\* except when the newest deployment did not write it, or began or ran on beside
\* another, or a write of the list has been cut off since.
SomebodyDeploys == SomebodyBuilds \/ ui.at = "deploy" \/ \E t \in Threads : task[t].at = "deploy"
DeployedIsCurrent == ~doubt /\ ~SomebodyDeploys => deployed = list

=============================================================================
