------------------------- MODULE SchemaStore_proofs -------------------------
(***************************************************************************)
(* For any schemas, models, loads and tasks: a page that loads has a       *)
(* request under way, a page that has loaded shows its newest answer, a    *)
(* mark that blocks the page has a thread that will end it, the list on    *)
(* the disk is the one deployed, the page and the disk agree, and every    *)
(* variable holds what it is declared to hold.                             *)
(***************************************************************************)
EXTENDS SchemaStore, FiniteSetTheorems, TLAPS

-----------------------------------------------------------------------------
(* The index. *)

PageForm ==
    page = [loading |-> page.loading, loaded |-> page.loaded, shown |-> page.shown,
            got |-> page.got, busy |-> page.busy]

(* Until a request meets an earlier one, all there is belongs to the newest. *)
NewestOnly == ~crossed => fetch \subseteq {loads} /\ index \in {Empty, Bad, loads}

LoadInv == PageForm /\ loads \in Nat /\ LoadingHasRequest /\ NewestOnly /\ IndexIsFresh

LEMMA SameLoads ==
    ASSUME LoadInv, UNCHANGED <<index, loadVars>>,
           \/ page' = page
           \/ \E i : page' = [page EXCEPT !.busy = i]
    PROVE  LoadInv'
  <1>1. UNCHANGED <<index, fetch, loads, crossed>>
    BY DEF loadVars
  <1>2. PageForm' /\ page'.loading = page.loading /\ page'.loaded = page.loaded
        /\ page'.shown = page.shown
    BY DEF LoadInv, PageForm
  <1>3. LoadingHasRequest' /\ IndexIsFresh'
    BY <1>1, <1>2 DEF LoadInv, LoadingHasRequest, IndexIsFresh
  <1>4. NewestOnly' /\ loads' \in Nat
    BY <1>1 DEF LoadInv, NewestOnly, Bad, Empty
  <1> QED BY <1>2, <1>3, <1>4 DEF LoadInv

(* A request numbered anew, whether by Refresh or by Reopen. *)
LEMMA NewRequest ==
    ASSUME LoadInv, loads' = loads + 1, PageForm', ~page'.loaded,
           fetch' # {}, ~crossed' => fetch' = {loads'} /\ index' = Empty
    PROVE  LoadInv'
  <1>1. loads' \in Nat
    BY DEF LoadInv
  <1>2. LoadingHasRequest' /\ IndexIsFresh'
    BY DEF LoadingHasRequest, IndexIsFresh
  <1>3. NewestOnly'
    BY DEF NewestOnly, Empty
  <1> QED BY <1>1, <1>2, <1>3 DEF LoadInv

LEMMA AnswerLoads ==
    ASSUME LoadInv, NEW n \in 1..MaxLoads, Answer(n)
    PROVE  LoadInv'
  <1>1. /\ n \in fetch /\ fetch' = fetch \ {n} /\ index' \in {Bad, n}
        /\ UNCHANGED <<page, loads, crossed>>
    BY DEF Answer, pageVars
  <1>2. index' # Empty
    <2>1. n # 0 /\ MaxLoads + 1 # 0
      BY BoundsAssumption
    <2> QED BY <1>1, <2>1 DEF Bad, Empty
  <1>3. PageForm' /\ loads' \in Nat /\ LoadingHasRequest' /\ IndexIsFresh'
    BY <1>1, <1>2 DEF LoadInv, PageForm, LoadingHasRequest, IndexIsFresh
  <1>4. NewestOnly'
    <2> SUFFICES ASSUME ~crossed' PROVE fetch' \subseteq {loads'} /\ index' \in {Empty, Bad, loads'}
      BY DEF NewestOnly, Empty, Bad
    <2>1. fetch \subseteq {loads}
      BY <1>1 DEF LoadInv, NewestOnly
    <2>2. n = loads
      BY <1>1, <2>1
    <2> QED BY <1>1, <2>1, <2>2
  <1> QED BY <1>3, <1>4 DEF LoadInv

LEMMA PollTaskPage ==
    ASSUME NEW p, p = [loading |-> p.loading, loaded |-> p.loaded, shown |-> p.shown,
                       got |-> p.got, busy |-> p.busy]
    PROVE  /\ PollTask(p).loading = p.loading /\ PollTask(p).loaded = p.loaded
           /\ PollTask(p).shown = p.shown
           /\ PollTask(p).busy = IF slot = NoResult THEN p.busy ELSE None
           /\ PollTask(p) = [loading |-> PollTask(p).loading, loaded |-> PollTask(p).loaded,
                             shown |-> PollTask(p).shown, got |-> PollTask(p).got,
                             busy |-> PollTask(p).busy]
  BY DEF PollTask

LEMMA PollIndexPage ==
    ASSUME PageForm
    PROVE  /\ PollIndex = [loading |-> PollIndex.loading, loaded |-> PollIndex.loaded,
                           shown |-> PollIndex.shown, got |-> PollIndex.got,
                           busy |-> PollIndex.busy]
           /\ PollIndex.busy = page.busy
           /\ Taken => ~PollIndex.loading
           /\ ~Taken => (PollIndex.loading <=> page.loading)
           /\ Taken /\ index # Bad => PollIndex.shown = index
           /\ ~(Taken /\ index # Bad) => /\ PollIndex.shown = page.shown
                                         /\ PollIndex.loaded = page.loaded
  <1>1. CASE Taken /\ index # Bad
    BY <1>1 DEF PollIndex, PageForm
  <1>2. CASE ~(Taken /\ index # Bad)
    <2>1. PollIndex = [page EXCEPT !.loading = page.loading /\ ~Taken]
      BY <1>2 DEF PollIndex
    <2> QED BY <1>2, <2>1 DEF PageForm
  <1> QED BY <1>1, <1>2

LEMMA PollLoads ==
    ASSUME LoadInv, PollBackground
    PROVE  LoadInv'
  <1> DEFINE q == PollTask(PollIndex)
  <1>1. /\ page' = q /\ UNCHANGED <<fetch, loads, crossed>>
        /\ index' = IF Taken THEN Empty ELSE index
    BY DEF PollBackground, loadVars
  <1>2. /\ q.loading = PollIndex.loading /\ q.loaded = PollIndex.loaded
        /\ q.shown = PollIndex.shown
        /\ q = [loading |-> q.loading, loaded |-> q.loaded, shown |-> q.shown,
                got |-> q.got, busy |-> q.busy]
    BY PollTaskPage, PollIndexPage DEF LoadInv
  <1> HIDE DEF q
  <1>3. PageForm' /\ loads' \in Nat
    BY <1>1, <1>2 DEF PageForm, LoadInv
  <1>4. LoadingHasRequest'
    <2>1. page'.loading => ~Taken /\ page.loading
      BY <1>1, <1>2, PollIndexPage DEF LoadInv
    <2> QED BY <1>1, <2>1 DEF LoadInv, LoadingHasRequest
  <1>5. NewestOnly'
    BY <1>1 DEF LoadInv, NewestOnly, Bad, Empty
  <1>6. IndexIsFresh'
    <2> SUFFICES ASSUME page'.loaded, ~crossed PROVE page'.shown = loads
      BY <1>1 DEF IndexIsFresh
    <2>1. CASE Taken /\ index # Bad
      BY <1>1, <1>2, <2>1, PollIndexPage DEF LoadInv, NewestOnly, Taken
    <2>2. CASE ~(Taken /\ index # Bad)
      BY <1>1, <1>2, <2>2, PollIndexPage DEF LoadInv, IndexIsFresh
    <2> QED BY <2>1, <2>2
  <1> QED BY <1>3, <1>4, <1>5, <1>6 DEF LoadInv

LEMMA NextLoads == LoadInv /\ [Next]_vars => LoadInv'
  <1> SUFFICES ASSUME LoadInv, [Next]_vars PROVE LoadInv'
    OBVIOUS
  <1>1. CASE Refresh
    <2>1. /\ loads' = loads + 1 /\ page' = [page EXCEPT !.loading = TRUE, !.loaded = FALSE]
          /\ fetch' = {loads'} \cup fetch /\ crossed' = (index # Empty \/ fetch # {})
          /\ index' = index
      BY <1>1 DEF Refresh, StartLoad, slotVars
    <2>2. PageForm' /\ ~page'.loaded
      BY <2>1 DEF LoadInv, PageForm
    <2>3. fetch' # {} /\ (~crossed' => fetch' = {loads'} /\ index' = Empty)
      BY <2>1
    <2> QED BY <2>1, <2>2, <2>3, NewRequest
  <1>2. CASE Reopen
    <2>1. loads' = loads + 1 /\ page' = Loading /\ fetch' = {loads'} /\ index' = Empty
      BY <1>2 DEF Reopen, Opened
    <2>2. PageForm' /\ ~page'.loaded
      BY <2>1 DEF Loading, PageForm
    <2> QED BY <2>1, <2>2, NewRequest
  <1>3. CASE PollBackground
    BY <1>3, PollLoads
  <1>4. ASSUME NEW n \in 1..MaxLoads, Answer(n) PROVE LoadInv'
    BY <1>4, AnswerLoads
  <1>5. ASSUME NEW i, DownloadMarketSchema(i) \/ DownloadMarketModel(i) PROVE LoadInv'
    BY <1>5, SameLoads DEF DownloadMarketSchema, DownloadMarketModel, Spawn, slotVars
  <1>6. ASSUME NEW i, InstallMarketSchema(i) \/ UninstallMarketSchema(i)
                      \/ DeleteMarketModel(i) \/ StartDeploy
        PROVE  LoadInv'
    BY <1>6, SameLoads
    DEF InstallMarketSchema, UninstallMarketSchema, DeleteMarketModel, StartDeploy, Spawn, slotVars
  <1>7. ASSUME NEW i, SaveSchema(i) \/ SaveSchemaList \/ SaveSchemaDeploy \/ SaveSchemaBuild
        PROVE  LoadInv'
    BY <1>7, SameLoads
    DEF SaveSchema, SaveSchemaList, SaveSchemaDeploy, SaveSchemaBuild, pageVars, slotVars
  <1>10. CASE ServerDeploys \/ ServerBuilds
    BY <1>10, SameLoads DEF ServerDeploys, ServerBuilds, pageVars, slotVars
  <1>8. ASSUME NEW t, ThreadStep(t) PROVE LoadInv'
    <2>1. CASE Report(t)
      BY <2>1, SameLoads DEF Report, pageVars
    <2>2. CASE Still
      BY <2>2, SameLoads DEF Still, pageVars, slotVars
    <2> QED
      BY <1>8, <2>1, <2>2
      DEF ThreadStep, Mkdir, Create, Write, RemoveDirAll, CopyFiles, ReadSelected, ReadRest,
          SetSchemaList, DeployStep, BuildStep
  <1>9. CASE UNCHANGED vars
    BY <1>9, SameLoads DEF vars, pageVars, slotVars
  <1> QED
    BY <1>1, <1>2, <1>3, <1>4, <1>5, <1>6, <1>7, <1>8, <1>9, <1>10 DEF Next

LEMMA InitLoads == Init => LoadInv
  BY DEF Init, LoadInv, PageForm, Loading, LoadingHasRequest, NewestOnly, IndexIsFresh, Empty

(* A page that says it is loading has something to wait for, however refreshes, answers
   and restarts cross. *)
THEOREM LoadingHasRequestAlways == Spec => []LoadingHasRequest
  <1>1. LoadInv => LoadingHasRequest
    BY DEF LoadInv
  <1> QED BY <1>1, InitLoads, NextLoads, PTL DEF Spec

(* A page that has loaded shows the answer to its newest request, unless that request
   was made while an earlier one or its answer was about. *)
THEOREM IndexIsFreshAlways == Spec => []IndexIsFresh
  <1>1. LoadInv => IndexIsFresh
    BY DEF LoadInv
  <1> QED BY <1>1, InitLoads, NextLoads, PTL DEF Spec

-----------------------------------------------------------------------------
(* The threads. *)

Named(r) == DOMAIN r = {"op", "id", "at", "ok", "ids"}
TaskForm == DOMAIN task = Threads /\ \A t \in Threads : Named(task[t])

(* Threads get the next number; those not yet started have done nothing. *)
Fresh == started \in 0..MaxTasks /\ \A t \in Threads : t > started => ~Alive(t)

TaskInv == TaskForm /\ Fresh

(* Thread t has gone on to a, as itself, and no other thread has moved. *)
Moved(t, a) ==
    /\ TaskForm' /\ task'[t].at = a /\ task'[t].id = task[t].id
    /\ \A u \in Threads \ {t} : task'[u] = task[u]

LEMMA AtField ==
    ASSUME NEW r, Named(r), NEW a
    PROVE  /\ Named([r EXCEPT !.at = a])
           /\ [r EXCEPT !.at = a].at = a /\ [r EXCEPT !.at = a].id = r.id
  BY DEF Named

LEMMA OkField ==
    ASSUME NEW r, Named(r), NEW k
    PROVE  /\ Named([r EXCEPT !.ok = k])
           /\ [r EXCEPT !.ok = k].at = r.at /\ [r EXCEPT !.ok = k].id = r.id
  BY DEF Named

LEMMA IdsField ==
    ASSUME NEW r, Named(r), NEW s
    PROVE  /\ Named([r EXCEPT !.ids = s]) /\ [r EXCEPT !.ids = s].ids = s
           /\ [r EXCEPT !.ids = s].at = r.at /\ [r EXCEPT !.ids = s].id = r.id
  BY DEF Named

(* One thread's record is replaced by one with another place. *)
LEMMA MovedIf ==
    ASSUME TaskForm, NEW t \in Threads, NEW a,
           DOMAIN task' = Threads, Named(task'[t]), task'[t].at = a, task'[t].id = task[t].id,
           \A u \in Threads \ {t} : task'[u] = task[u]
    PROVE  Moved(t, a)
  <1>1. \A u \in Threads : Named(task'[u])
    BY DEF TaskForm
  <1> QED BY <1>1 DEF TaskForm, Moved

LEMMA MovesAt ==
    ASSUME TaskForm, NEW t \in Threads, NEW a, task' = [task EXCEPT ![t].at = a]
    PROVE  Moved(t, a)
  <1>1. DOMAIN task = Threads /\ Named(task[t])
    BY DEF TaskForm
  <1>2. /\ DOMAIN task' = Threads /\ task'[t] = [task[t] EXCEPT !.at = a]
        /\ \A u \in Threads \ {t} : task'[u] = task[u]
    BY <1>1
  <1> QED BY <1>1, <1>2, AtField, MovedIf

LEMMA MovesAtOk ==
    ASSUME TaskForm, NEW t \in Threads, NEW a, NEW k,
           task' = [task EXCEPT ![t].at = a, ![t].ok = k]
    PROVE  Moved(t, a)
  <1>1. DOMAIN task = Threads /\ Named(task[t])
    BY DEF TaskForm
  <1>2. /\ DOMAIN task' = Threads
        /\ task'[t] = [[task[t] EXCEPT !.at = a] EXCEPT !.ok = k]
        /\ \A u \in Threads \ {t} : task'[u] = task[u]
    BY <1>1
  <1> DEFINE r == [task[t] EXCEPT !.at = a]
  <1>3. Named(r) /\ r.at = a /\ r.id = task[t].id
    BY <1>1, AtField
  <1>4. task'[t] = [r EXCEPT !.ok = k]
    BY <1>2
  <1> HIDE DEF r
  <1>5. Named(task'[t]) /\ task'[t].at = a /\ task'[t].id = task[t].id
    <2>1. /\ Named([r EXCEPT !.ok = k])
          /\ [r EXCEPT !.ok = k].at = r.at /\ [r EXCEPT !.ok = k].id = r.id
      BY <1>3, OkField
    <2> QED BY <1>3, <1>4, <2>1
  <1> QED BY <1>2, <1>5, MovedIf

LEMMA MovesAtIds ==
    ASSUME TaskForm, NEW t \in Threads, NEW a, NEW s,
           task' = [task EXCEPT ![t].at = a, ![t].ids = s]
    PROVE  Moved(t, a) /\ task'[t].ids = s
  <1>1. DOMAIN task = Threads /\ Named(task[t])
    BY DEF TaskForm
  <1>2. /\ DOMAIN task' = Threads
        /\ task'[t] = [[task[t] EXCEPT !.at = a] EXCEPT !.ids = s]
        /\ \A u \in Threads \ {t} : task'[u] = task[u]
    BY <1>1
  <1> DEFINE r == [task[t] EXCEPT !.at = a]
  <1>3. Named(r) /\ r.at = a /\ r.id = task[t].id
    BY <1>1, AtField
  <1>4. task'[t] = [r EXCEPT !.ids = s]
    BY <1>2
  <1> HIDE DEF r
  <1>5. Named(task'[t]) /\ task'[t].at = a /\ task'[t].id = task[t].id /\ task'[t].ids = s
    <2>1. /\ Named([r EXCEPT !.ids = s]) /\ [r EXCEPT !.ids = s].ids = s
          /\ [r EXCEPT !.ids = s].at = r.at /\ [r EXCEPT !.ids = s].id = r.id
      BY <1>3, IdsField
    <2> QED BY <1>3, <1>4, <2>1
  <1> QED BY <1>2, <1>5, MovedIf

LEMMA MovesDone ==
    ASSUME TaskForm, NEW t \in Threads, NEW a, NEW k, Done(t, a, k)
    PROVE  Moved(t, a)
  <1>1. /\ DOMAIN task = Threads /\ Named(task[t])
        /\ task' = [task EXCEPT ![t].at = a, ![t].ok = k, ![t].ids = <<>>]
    BY DEF TaskForm, Done
  <1> DEFINE r == [task[t] EXCEPT !.at = a]
             q == [r EXCEPT !.ok = k]
  <1>2. /\ DOMAIN task' = Threads /\ task'[t] = [q EXCEPT !.ids = <<>>]
        /\ \A u \in Threads \ {t} : task'[u] = task[u]
    BY <1>1
  <1>3. Named(r) /\ r.at = a /\ r.id = task[t].id
    BY <1>1, AtField
  <1> HIDE DEF r
  <1>4. Named(q) /\ q.at = a /\ q.id = task[t].id
    <2>1. Named([r EXCEPT !.ok = k]) /\ [r EXCEPT !.ok = k].at = r.at
          /\ [r EXCEPT !.ok = k].id = r.id
      BY <1>3, OkField
    <2> QED BY <1>3, <2>1
  <1> HIDE DEF q
  <1>5. Named(task'[t]) /\ task'[t].at = a /\ task'[t].id = task[t].id
    <2>1. /\ Named([q EXCEPT !.ids = <<>>])
          /\ [q EXCEPT !.ids = <<>>].at = q.at /\ [q EXCEPT !.ids = <<>>].id = q.id
      BY <1>4, IdsField
    <2> QED BY <1>2, <1>4, <2>1
  <1> QED BY <1>2, <1>5, MovedIf

NotDeploying(t) == task[t].at # "deploy" /\ task[t].at # "build"

(* A step of a thread that does not report: to another place, with the page and the
   slots untouched; only a deployment touches what is built, and who writes the list
   goes on to one or has failed. *)
OnItsWay(t, a) ==
    /\ task[t].at # "end" /\ a # "end" /\ Moved(t, a)
    /\ UNCHANGED <<page, installing, ui, slot, started>>
    /\ UNCHANGED reload
    /\ \/ NotDeploying(t) /\ a # "build" /\ UNCHANGED <<list, deployed, doubt>>
       \/ NotDeploying(t) /\ a = "deploy" /\ UNCHANGED <<deployed, doubt>>
       \/ NotDeploying(t) /\ a = "report" /\ doubt'
       \/ /\ task[t].at = "deploy" /\ a = "build" /\ task'[t].ids = list
          /\ DeployReads /\ UNCHANGED list
       \/ /\ task[t].at = "build" /\ a = "report" /\ DeployWrites(task[t].ids)
          /\ UNCHANGED list

LEMMA ThreadSteps ==
    ASSUME TaskForm, NEW t \in Threads, ThreadStep(t)
    PROVE  Report(t) \/ \E a : OnItsWay(t, a)
  <1>1. CASE Mkdir(t)
    <2>1. task[t].at # "end" /\ UNCHANGED <<page, installing, ui, slot, started>>
      BY <1>1 DEF Mkdir, At, Still, pageVars, slotVars
    <2>2. NotDeploying(t) /\ UNCHANGED <<list, deployed, doubt, reload>>
      BY <1>1 DEF Mkdir, At, listVars, NotDeploying
    <2>3. ASSUME Fails(t) PROVE \E a : OnItsWay(t, a)
      <3>1. Moved(t, "report")
        BY <2>3, MovesAtOk DEF Goto, Fails
      <3> QED BY <2>1, <2>2, <3>1 DEF OnItsWay
    <2>4. ASSUME Goto(t, "create") PROVE \E a : OnItsWay(t, a)
      <3>1. Moved(t, "create")
        BY <2>4, MovesAt DEF Goto, Fails
      <3> QED BY <2>1, <2>2, <3>1 DEF OnItsWay
    <2> QED BY <1>1, <2>3, <2>4 DEF Mkdir, Goto, Fails
  <1>2. CASE Create(t)
    <2>1. task[t].at # "end" /\ UNCHANGED <<page, installing, ui, slot, started>>
      BY <1>2 DEF Create, At, Still, pageVars, slotVars
    <2>2. NotDeploying(t) /\ UNCHANGED <<list, deployed, doubt, reload>>
      BY <1>2 DEF Create, At, listVars, NotDeploying
    <2>3. ASSUME Fails(t) PROVE \E a : OnItsWay(t, a)
      <3>1. Moved(t, "report")
        BY <2>3, MovesAtOk DEF Goto, Fails
      <3> QED BY <2>1, <2>2, <3>1 DEF OnItsWay
    <2>4. ASSUME Goto(t, "write") PROVE \E a : OnItsWay(t, a)
      <3>1. Moved(t, "write")
        BY <2>4, MovesAt DEF Goto, Fails
      <3> QED BY <2>1, <2>2, <3>1 DEF OnItsWay
    <2> QED BY <1>2, <2>3, <2>4 DEF Create, Goto, Fails
  <1>3. CASE Write(t)
    <2>1. task[t].at # "end" /\ UNCHANGED <<page, installing, ui, slot, started>>
      BY <1>3 DEF Write, At, Still, pageVars, slotVars
    <2>2. NotDeploying(t) /\ UNCHANGED <<list, deployed, doubt, reload>>
      BY <1>3 DEF Write, At, listVars, NotDeploying
    <2>3. ASSUME Fails(t) PROVE \E a : OnItsWay(t, a)
      <3>1. Moved(t, "report")
        BY <2>3, MovesAtOk DEF Goto, Fails
      <3> QED BY <2>1, <2>2, <3>1 DEF OnItsWay
    <2>4. ASSUME Goto(t, "report") PROVE \E a : OnItsWay(t, a)
      <3>1. Moved(t, "report")
        BY <2>4, MovesAt DEF Goto, Fails
      <3> QED BY <2>1, <2>2, <3>1 DEF OnItsWay
    <2> QED BY <1>3, <2>3, <2>4 DEF Write, Goto, Fails
  <1>4. CASE RemoveDirAll(t)
    <2>1. task[t].at # "end" /\ UNCHANGED <<page, installing, ui, slot, started>>
      BY <1>4 DEF RemoveDirAll, At, Still, pageVars, slotVars
    <2>2. NotDeploying(t) /\ UNCHANGED <<list, deployed, doubt, reload>>
      BY <1>4 DEF RemoveDirAll, At, listVars, NotDeploying
    <2>3. ASSUME Goto(t, "report") PROVE \E a : OnItsWay(t, a)
      <3>1. Moved(t, "report")
        BY <2>3, MovesAt DEF Goto, Fails
      <3> QED BY <2>1, <2>2, <3>1 DEF OnItsWay
    <2> QED BY <1>4, <2>3 DEF RemoveDirAll, Goto, Fails
  <1>5. CASE CopyFiles(t)
    <2>1. task[t].at # "end" /\ UNCHANGED <<page, installing, ui, slot, started>>
      BY <1>5 DEF CopyFiles, At, Still, pageVars, slotVars
    <2>2. NotDeploying(t) /\ UNCHANGED <<list, deployed, doubt, reload>>
      BY <1>5 DEF CopyFiles, At, listVars, NotDeploying
    <2>3. ASSUME Fails(t) PROVE \E a : OnItsWay(t, a)
      <3>1. Moved(t, "report")
        BY <2>3, MovesAtOk DEF Goto, Fails
      <3> QED BY <2>1, <2>2, <3>1 DEF OnItsWay
    <2>4. ASSUME Goto(t, "read") PROVE \E a : OnItsWay(t, a)
      <3>1. Moved(t, "read")
        BY <2>4, MovesAt DEF Goto, Fails
      <3> QED BY <2>1, <2>2, <3>1 DEF OnItsWay
    <2> QED BY <1>5, <2>3, <2>4 DEF CopyFiles, Goto, Fails
  <1>6. CASE ReadSelected(t) \/ ReadRest(t)
    <2>1. task[t].at # "end" /\ UNCHANGED <<page, installing, ui, slot, started>>
      BY <1>6 DEF ReadSelected, ReadRest, At, Still, pageVars, slotVars
    <2>2. NotDeploying(t) /\ UNCHANGED <<list, deployed, doubt, reload>>
      BY <1>6 DEF ReadSelected, ReadRest, At, listVars, NotDeploying
    <2>3. PICK s : task' = [task EXCEPT ![t].at = "list", ![t].ids = s]
      BY <1>6 DEF ReadSelected, ReadRest
    <2>4. Moved(t, "list")
      BY <2>3, MovesAtIds
    <2> QED BY <2>1, <2>2, <2>4 DEF OnItsWay
  <1>7. CASE SetSchemaList(t)
    <2>1. /\ task[t].at = "list" /\ NotDeploying(t)
          /\ UNCHANGED <<page, installing, ui, slot, started, deployed, reload>>
      BY <1>7 DEF SetSchemaList, Still, pageVars, slotVars, NotDeploying
    <2>2. CASE Done(t, "deploy", TRUE) /\ UNCHANGED doubt
      <3>1. Moved(t, "deploy")
        BY <2>2, MovesDone
      <3> QED BY <2>1, <2>2, <3>1 DEF OnItsWay
    <2>3. CASE Done(t, "report", FALSE) /\ UNCHANGED <<list, doubt>>
      <3>1. Moved(t, "report")
        BY <2>3, MovesDone
      <3> QED BY <2>1, <2>3, <3>1 DEF OnItsWay
    <2>4. CASE Done(t, "report", FALSE) /\ doubt' = TRUE
      <3>1. Moved(t, "report")
        BY <2>4, MovesDone
      <3> QED BY <2>1, <2>4, <3>1 DEF OnItsWay
    <2> QED BY <1>7, <2>2, <2>3, <2>4 DEF SetSchemaList
  <1>8. CASE DeployStep(t)
    <2>1. /\ task[t].at = "deploy" /\ DeployReads
          /\ UNCHANGED <<page, installing, ui, slot, started, list, reload>>
      BY <1>8 DEF DeployStep, Still, pageVars, slotVars
    <2>2. task' = [task EXCEPT ![t].at = "build", ![t].ids = list]
      BY <1>8 DEF DeployStep
    <2>3. Moved(t, "build") /\ task'[t].ids = list
      BY <2>2, MovesAtIds
    <2> QED BY <2>1, <2>3 DEF OnItsWay
  <1>9. CASE BuildStep(t)
    <2>1. /\ task[t].at = "build" /\ DeployWrites(task[t].ids)
          /\ UNCHANGED <<page, installing, ui, slot, started, list, reload>>
      BY <1>9 DEF BuildStep, Still, pageVars, slotVars
    <2>2. PICK ok \in BOOLEAN : Done(t, "report", ok)
      BY <1>9 DEF BuildStep
    <2>3. Moved(t, "report")
      BY <2>2, MovesDone
    <2> QED BY <2>1, <2>3 DEF OnItsWay
  <1> QED BY <1>1, <1>2, <1>3, <1>4, <1>5, <1>6, <1>7, <1>8, <1>9 DEF ThreadStep

(* A thread that reports is done, and no other thread has moved. *)
LEMMA ReportSteps ==
    ASSUME TaskForm, NEW t \in Threads, Report(t)
    PROVE  /\ TaskForm' /\ task'[t].at = "end" /\ task[t].at = "report"
           /\ \A u \in Threads \ {t} : task'[u] = task[u]
           /\ UNCHANGED <<page, installing, ui, started, list, deployed, doubt, reload>>
           /\ task[t].id = None => UNCHANGED slot
           /\ task[t].id # None => slot' # NoResult
  <1>1. DOMAIN task = Threads /\ task' = [task EXCEPT ![t] = NoTask]
    BY DEF TaskForm, Report
  <1>2. Named(NoTask) /\ NoTask.at = "end"
    BY DEF Named, NoTask
  <1>3. /\ DOMAIN task' = Threads /\ task'[t] = NoTask
        /\ \A u \in Threads \ {t} : task'[u] = task[u]
    BY <1>1
  <1>4. TaskForm'
    BY <1>2, <1>3 DEF TaskForm
  <1>5. /\ task[t].at = "report"
        /\ UNCHANGED <<page, installing, ui, started, list, deployed, doubt, reload>>
        /\ task[t].id = None => UNCHANGED slot
    BY DEF Report, pageVars, listVars
  <1>6. ASSUME task[t].id # None PROVE slot' # NoResult
    <2>1. slot' = [op |-> task[t].op, id |-> task[t].id, ok |-> task[t].ok]
      BY <1>6 DEF Report
    <2>2. slot'.id = task[t].id /\ NoResult.id = None
      BY <2>1 DEF NoResult
    <2> QED BY <1>6, <2>2
  <1> QED BY <1>2, <1>3, <1>4, <1>5, <1>6

(* A new thread takes a place nobody has. *)
LEMMA SpawnSteps ==
    ASSUME TaskInv, NEW op, NEW i, NEW first, first # "end", Spawn(op, i, first)
    PROVE  /\ TaskInv'
           /\ \E t \in Threads :
                /\ ~Alive(t) /\ task'[t].at = first /\ task'[t].id = i
                /\ \A u \in Threads \ {t} : task'[u] = task[u]
           /\ UNCHANGED <<ui, slot, list, deployed, doubt, reload>>
  <1> DEFINE new == [op |-> op, id |-> i, at |-> first, ok |-> TRUE, ids |-> <<>>]
             t == started + 1
  <1>1. started \in 0..MaxTasks /\ started < MaxTasks /\ started' = started + 1
    BY DEF Spawn, TaskInv, Fresh
  <1>2. t \in Threads /\ started' \in 0..MaxTasks
    BY <1>1, BoundsAssumption DEF Threads
  <1>3. ~Alive(t)
    BY <1>1, <1>2 DEF TaskInv, Fresh
  <1>4. DOMAIN task = Threads /\ task' = [task EXCEPT ![t] = new]
    BY DEF Spawn, TaskInv, TaskForm
  <1>5. Named(new) /\ new.at = first /\ new.id = i
    BY DEF Named
  <1> HIDE DEF new
  <1>6. /\ DOMAIN task' = Threads /\ task'[t] = new
        /\ \A u \in Threads \ {t} : task'[u] = task[u]
    BY <1>2, <1>4
  <1>7. TaskForm'
    BY <1>5, <1>6 DEF TaskForm, TaskInv
  <1>8. ASSUME NEW u \in Threads, u > started' PROVE ~Alive(u)'
    <2>1. u # t /\ u > started
      BY <1>1, <1>8 DEF Threads
    <2>2. task'[u] = task[u] /\ ~Alive(u)
      BY <1>6, <2>1 DEF TaskInv, Fresh
    <2> QED BY <2>2 DEF Alive
  <1>9. Fresh'
    BY <1>2, <1>8 DEF Fresh
  <1>10. UNCHANGED <<ui, slot, list, deployed, doubt, reload>>
    BY DEF Spawn, slotVars, listVars
  <1> QED BY <1>2, <1>3, <1>5, <1>6, <1>7, <1>9, <1>10 DEF TaskInv

(* What starts a thread: a task of the store with its item, or a deployment. *)
Begins(i, a) ==
    /\ TaskInv'
    /\ \E t \in Threads :
         /\ ~Alive(t) /\ task'[t].at = a /\ task'[t].id = i
         /\ \A u \in Threads \ {t} : task'[u] = task[u]
    /\ UNCHANGED <<ui, slot, list, deployed, doubt, reload>>

LEMMA BeginSteps ==
    ASSUME TaskInv, NEW i,
           \/ DownloadMarketSchema(i) \/ DownloadMarketModel(i) \/ DeleteMarketModel(i)
           \/ InstallMarketSchema(i) \/ UninstallMarketSchema(i)
    PROVE  \E a : a # "end" /\ a # "build" /\ Begins(i, a)
  <1>1. PICK op, a : a # "end" /\ a # "build" /\ Spawn(op, i, a)
    BY DEF DownloadMarketSchema, DownloadMarketModel, DeleteMarketModel, InstallMarketSchema,
           UninstallMarketSchema
  <1>2. Begins(i, a)
    BY <1>1, SpawnSteps DEF Begins
  <1> QED BY <1>1, <1>2

LEMMA DeployBegins ==
    ASSUME TaskInv, StartDeploy
    PROVE  Begins(None, "deploy") /\ UNCHANGED <<page, installing>>
  <1>1. Spawn("deploy", None, "deploy") /\ UNCHANGED <<page, installing>>
    BY DEF StartDeploy
  <1> QED BY <1>1, SpawnSteps DEF Begins

LEMMA NextTasks == TaskInv /\ [Next]_vars => TaskInv'
  <1> SUFFICES ASSUME TaskInv, [Next]_vars PROVE TaskInv'
    OBVIOUS
  <1>1. ASSUME UNCHANGED <<task, started>> PROVE TaskInv'
    BY <1>1 DEF TaskInv, TaskForm, Fresh, Alive
  <1>11. ASSUME started < MaxTasks, started' = started + 1, task' = task PROVE TaskInv'
    <2>1. started' \in 0..MaxTasks /\ \A t \in Threads : t > started' => t > started
      BY <1>11, BoundsAssumption DEF TaskInv, Fresh, Threads
    <2> QED BY <1>11, <2>1 DEF TaskInv, TaskForm, Fresh, Alive
  <1>12. CASE ServerDeploys
    BY <1>11, <1>12 DEF ServerDeploys
  <1>2. ASSUME NEW i, SaveSchema(i) PROVE TaskInv'
    <2>1. started < MaxTasks /\ started' = started + 1 /\ task' = task
      BY <1>2 DEF SaveSchema
    <2> QED BY <2>1, <1>11
  <1>3. CASE Reopen
    <2>1. task' = [t \in Threads |-> NoTask] /\ started' = started
      BY <1>3 DEF Reopen
    <2>2. Named(NoTask) /\ NoTask.at = "end"
      BY DEF Named, NoTask
    <2> HIDE DEF NoTask
    <2>3. DOMAIN task' = Threads /\ \A t \in Threads : task'[t] = NoTask
      BY <2>1
    <2> QED BY <2>1, <2>2, <2>3 DEF TaskInv, TaskForm, Fresh, Alive
  <1>4. ASSUME NEW i, \/ DownloadMarketSchema(i) \/ DownloadMarketModel(i)
                      \/ DeleteMarketModel(i) \/ InstallMarketSchema(i)
                      \/ UninstallMarketSchema(i)
        PROVE  TaskInv'
    BY <1>4, BeginSteps DEF Begins
  <1>5. CASE StartDeploy
    BY <1>5, DeployBegins DEF Begins
  <1>6. ASSUME NEW t \in Threads, ThreadStep(t) PROVE TaskInv'
    <2>1. CASE Report(t)
      <3>1. /\ TaskForm' /\ task'[t].at = "end" /\ started' = started
            /\ \A u \in Threads \ {t} : task'[u] = task[u]
        BY <2>1, ReportSteps DEF TaskInv
      <3> QED BY <3>1 DEF TaskInv, Fresh, Alive
    <2>2. ASSUME NEW a, OnItsWay(t, a) PROVE TaskInv'
      <3>1. /\ TaskForm' /\ Alive(t) /\ started' = started
            /\ \A u \in Threads \ {t} : task'[u] = task[u]
        BY <2>2 DEF OnItsWay, Moved, Alive
      <3>2. ~(t > started)
        BY <3>1 DEF TaskInv, Fresh
      <3> QED BY <3>1, <3>2 DEF TaskInv, Fresh, Alive
    <2> QED BY <1>6, <2>1, <2>2, ThreadSteps DEF TaskInv
  <1>7. ASSUME NEW n, Answer(n) PROVE TaskInv'
    BY <1>1, <1>7 DEF Answer
  <1>8. CASE \/ Refresh \/ PollBackground \/ SaveSchemaList \/ SaveSchemaDeploy
           \/ SaveSchemaBuild \/ ServerBuilds \/ UNCHANGED vars
    BY <1>1, <1>8 DEF Refresh, PollBackground, SaveSchemaList, SaveSchemaDeploy,
                      SaveSchemaBuild, ServerBuilds, vars
  <1> QED
    BY <1>2, <1>3, <1>4, <1>5, <1>6, <1>7, <1>8, <1>12 DEF Next

LEMMA InitTasks == Init => TaskInv
  <1> SUFFICES ASSUME Init PROVE TaskInv
    OBVIOUS
  <1>1. task = [t \in Threads |-> NoTask] /\ started = 0
    BY DEF Init
  <1>2. Named(NoTask) /\ NoTask.at = "end"
    BY DEF Named, NoTask
  <1> HIDE DEF NoTask
  <1>3. DOMAIN task = Threads /\ \A t \in Threads : task[t] = NoTask
    BY <1>1
  <1>4. 0 \in 0..MaxTasks
    BY BoundsAssumption
  <1> QED BY <1>1, <1>2, <1>3, <1>4 DEF TaskInv, TaskForm, Fresh, Alive

-----------------------------------------------------------------------------
(* The list and its deployment. *)

UiForm == ui = [at |-> ui.at, id |-> ui.id, ids |-> ui.ids]
NoneToDeploy == ui.at # "deploy" /\ \A t \in Threads : task[t].at # "deploy"

(* Without a reason to doubt, deployments do not overlap: one that begins beside
   another gives the reason. *)
OneBuilds ==
    ~doubt => /\ \A t, u \in Threads : task[t].at = "build" /\ task[u].at = "build" => t = u
              /\ ui.at = "build" => \A t \in Threads : task[t].at # "build"
              /\ reload.busy => ui.at # "build" /\ \A t \in Threads : task[t].at # "build"

(* The one that is building has then read the list as it is, unless whoever wrote it
   since is still to deploy it. *)
BuildsCurrent ==
    ~doubt /\ NoneToDeploy
        => /\ \A t \in Threads : task[t].at = "build" => task[t].ids = list
           /\ ui.at = "build" => ui.ids = list
           /\ reload.busy => reload.ids = list

DeployInv == UiForm /\ OneBuilds /\ BuildsCurrent /\ DeployedIsCurrent

(* Whoever is deploying still is, and nothing is written. *)
LEMMA Patient ==
    ASSUME DeployInv, UNCHANGED <<list, deployed, doubt, reload, ui>>,
           \A t \in Threads : task[t].at = "deploy" => task'[t].at = "deploy",
           \A t \in Threads : task[t].at = "build" => task'[t] = task[t],
           \A t \in Threads : task'[t].at = "build" => task[t].at = "build"
    PROVE  DeployInv'
  <1>1. UiForm' /\ OneBuilds'
    BY DEF DeployInv, UiForm, OneBuilds
  <1>2. BuildsCurrent'
    BY DEF DeployInv, BuildsCurrent, NoneToDeploy
  <1>3. DeployedIsCurrent'
    BY DEF DeployInv, DeployedIsCurrent, SomebodyDeploys, SomebodyBuilds
  <1> QED BY <1>1, <1>2, <1>3 DEF DeployInv

(* With a reason to doubt there is nothing to show. *)
LEMMA Doubtful ==
    ASSUME UiForm', doubt'
    PROVE  DeployInv'
  BY DEF DeployInv, OneBuilds, BuildsCurrent, DeployedIsCurrent

(* Whoever has written the list is to deploy it. *)
LEMMA WritesList ==
    ASSUME DeployInv, UiForm', ~NoneToDeploy', UNCHANGED <<doubt, reload>>,
           ui'.at = "build" => ui.at = "build",
           \A t \in Threads : task'[t].at = "build" => task[t].at = "build"
    PROVE  DeployInv'
  <1>1. OneBuilds'
    BY DEF DeployInv, OneBuilds
  <1>2. BuildsCurrent'
    BY DEF BuildsCurrent
  <1>3. DeployedIsCurrent'
    BY DEF DeployedIsCurrent, SomebodyDeploys, NoneToDeploy
  <1> QED BY <1>1, <1>2, <1>3 DEF DeployInv

(* Somebody begins to deploy, and only he does. *)
LEMMA BeginsToBuild ==
    ASSUME UiForm', DeployReads, SomebodyBuilds', UNCHANGED list,
           ~SomebodyBuilds => OneBuilds' /\ BuildsCurrent'
    PROVE  DeployInv'
  <1>1. CASE SomebodyBuilds
    BY <1>1, Doubtful DEF DeployReads
  <1>2. CASE ~SomebodyBuilds
    BY <1>2 DEF DeployInv, DeployedIsCurrent, SomebodyDeploys
  <1> QED BY <1>1, <1>2

LEMMA BuilderReads ==
    ASSUME DeployInv, TaskInv, NEW t \in Threads, NEW a, OnItsWay(t, a),
           a = "build", task'[t].ids = list, DeployReads, UNCHANGED list
    PROVE  DeployInv'
  <1>1. /\ task'[t].at = "build" /\ \A u \in Threads \ {t} : task'[u] = task[u]
        /\ UNCHANGED <<ui, reload>>
    BY DEF OnItsWay, Moved
  <1>2. UiForm' /\ SomebodyBuilds'
    BY <1>1 DEF DeployInv, UiForm, SomebodyBuilds
  <1>3. ASSUME ~SomebodyBuilds PROVE OneBuilds' /\ BuildsCurrent'
    <2>1. ~reload'.busy /\ ui'.at # "build"
      BY <1>1, <1>3 DEF SomebodyBuilds
    <2>2. \A u \in Threads : task'[u].at = "build" => u = t
      BY <1>1, <1>3 DEF SomebodyBuilds
    <2> QED BY <2>1, <2>2 DEF OneBuilds, BuildsCurrent
  <1> QED BY <1>2, <1>3, BeginsToBuild

(* The one that builds has done so: with no reason to doubt he was the only one, and
   what he has built is the list or somebody is to deploy. *)
LEMMA BuilderWrites ==
    ASSUME DeployInv, UiForm', NEW ids, DeployWrites(ids), UNCHANGED list,
           ~doubt /\ NoneToDeploy => ids = list,
           ~doubt => ~SomebodyBuilds',
           NoneToDeploy' => NoneToDeploy
    PROVE  DeployInv'
  <1>1. CASE doubt'
    BY <1>1, Doubtful
  <1>2. CASE ~doubt'
    <2>1. ~doubt /\ deployed' = ids /\ ~SomebodyBuilds'
      BY <1>2 DEF DeployWrites
    <2>2. OneBuilds' /\ BuildsCurrent'
      BY <2>1 DEF OneBuilds, BuildsCurrent, SomebodyBuilds
    <2>3. DeployedIsCurrent'
      BY <2>1 DEF DeployedIsCurrent, SomebodyDeploys, NoneToDeploy
    <2> QED BY <2>2, <2>3 DEF DeployInv
  <1> QED BY <1>1, <1>2

LEMMA BeginsDeploys ==
    ASSUME DeployInv, NEW i, NEW a, a # "build", Begins(i, a)
    PROVE  DeployInv'
  <1>1. PICK t \in Threads : /\ ~Alive(t) /\ task'[t].at = a
                             /\ \A u \in Threads \ {t} : task'[u] = task[u]
    BY DEF Begins
  <1>2. /\ \A u \in Threads : task[u].at = "deploy" => task'[u].at = "deploy"
        /\ \A u \in Threads : task[u].at = "build" => task'[u] = task[u]
        /\ \A u \in Threads : task'[u].at = "build" => task[u].at = "build"
    BY <1>1 DEF Alive
  <1> QED BY <1>2, Patient DEF Begins

LEMMA ThreadDeploys ==
    ASSUME DeployInv, TaskInv, NEW t \in Threads, ThreadStep(t)
    PROVE  DeployInv'
  <1>1. CASE Report(t)
    <2>1. /\ task[t].at = "report" /\ task'[t].at = "end"
          /\ \A u \in Threads \ {t} : task'[u] = task[u]
          /\ UNCHANGED <<ui, list, deployed, doubt, reload>>
      BY <1>1, ReportSteps DEF TaskInv
    <2>2. /\ \A u \in Threads : task[u].at = "deploy" => task'[u].at = "deploy"
          /\ \A u \in Threads : task[u].at = "build" => task'[u] = task[u]
          /\ \A u \in Threads : task'[u].at = "build" => task[u].at = "build"
      BY <2>1
    <2> QED BY <2>1, <2>2, Patient
  <1>2. ASSUME NEW a, OnItsWay(t, a) PROVE DeployInv'
    <2>1. /\ task'[t].at = a /\ \A u \in Threads \ {t} : task'[u] = task[u]
          /\ UNCHANGED <<ui, reload>>
      BY <1>2 DEF OnItsWay, Moved
    <2>2. UiForm'
      BY <2>1 DEF DeployInv, UiForm
    <2>3. CASE NotDeploying(t) /\ a # "build" /\ UNCHANGED <<list, deployed, doubt>>
      <3>1. /\ \A u \in Threads : task[u].at = "deploy" => task'[u].at = "deploy"
            /\ \A u \in Threads : task[u].at = "build" => task'[u] = task[u]
            /\ \A u \in Threads : task'[u].at = "build" => task[u].at = "build"
        BY <2>1, <2>3 DEF NotDeploying
      <3> QED BY <2>1, <2>3, <3>1, Patient
    <2>4. CASE NotDeploying(t) /\ a = "deploy" /\ UNCHANGED <<deployed, doubt>>
      <3>1. /\ \A u \in Threads : task'[u].at = "build" => task[u].at = "build"
            /\ ~NoneToDeploy'
        BY <2>1, <2>4 DEF NoneToDeploy
      <3> QED BY <2>1, <2>2, <2>4, <3>1, WritesList
    <2>5. CASE doubt'
      BY <2>2, <2>5, Doubtful
    <2>6. CASE a = "build" /\ task'[t].ids = list /\ DeployReads /\ UNCHANGED list
      BY <1>2, <2>6, BuilderReads
    <2>7. CASE /\ task[t].at = "build" /\ a = "report" /\ DeployWrites(task[t].ids)
               /\ UNCHANGED list
      <3>1. ~doubt /\ NoneToDeploy => task[t].ids = list
        BY <2>7 DEF DeployInv, BuildsCurrent
      <3>2. ~doubt => ~SomebodyBuilds'
        BY <2>1, <2>7 DEF DeployInv, OneBuilds, SomebodyBuilds
      <3>3. NoneToDeploy' => NoneToDeploy
        BY <2>1, <2>7 DEF NoneToDeploy
      <3> QED BY <2>2, <2>7, <3>1, <3>2, <3>3, BuilderWrites
    <2> QED BY <1>2, <2>3, <2>4, <2>5, <2>6, <2>7 DEF OnItsWay
  <1> QED BY <1>1, <1>2, ThreadSteps DEF TaskInv

(* The selection in the UI thread. *)
LEMMA SelectionDeploys ==
    ASSUME DeployInv, \/ (\E i : SaveSchema(i)) \/ SaveSchemaList
                      \/ SaveSchemaDeploy \/ SaveSchemaBuild
    PROVE  DeployInv'
  <1>1. ASSUME NEW i, SaveSchema(i) PROVE DeployInv'
    <2>1. /\ UNCHANGED <<list, deployed, doubt, reload, task>> /\ ui.at = "idle"
          /\ ui' = [at |-> "list", id |-> i,
                    ids |-> IF list = <<>> THEN SetToSeq(choice) ELSE list]
      BY <1>1 DEF SaveSchema, Idle, listVars
    <2>2. UiForm' /\ ui'.at = "list"
      BY <2>1 DEF UiForm
    <2>3. OneBuilds' /\ BuildsCurrent'
      BY <2>1, <2>2 DEF DeployInv, OneBuilds, BuildsCurrent, NoneToDeploy
    <2>4. DeployedIsCurrent'
      BY <2>1, <2>2 DEF DeployInv, DeployedIsCurrent, SomebodyDeploys, SomebodyBuilds
    <2> QED BY <2>2, <2>3, <2>4 DEF DeployInv
  <1>2. CASE SaveSchemaList
    <2>1. UNCHANGED <<task, deployed, reload>> /\ ui.at = "list"
      BY <1>2 DEF SaveSchemaList
    <2>2. CASE ui' = [NoUi EXCEPT !.at = "deploy"] /\ UNCHANGED doubt
      <3>1. UiForm' /\ ui'.at = "deploy"
        BY <2>2 DEF UiForm, NoUi
      <3> QED BY <2>1, <2>2, <3>1, WritesList DEF NoneToDeploy
    <2>3. CASE ui' = NoUi /\ UNCHANGED <<list, doubt>>
      <3>1. UiForm' /\ ui'.at = "idle"
        BY <2>3 DEF UiForm, NoUi
      <3>2. OneBuilds' /\ BuildsCurrent'
        BY <2>1, <2>3, <3>1 DEF DeployInv, OneBuilds, BuildsCurrent, NoneToDeploy
      <3>3. DeployedIsCurrent'
        BY <2>1, <2>3, <3>1 DEF DeployInv, DeployedIsCurrent, SomebodyDeploys, SomebodyBuilds
      <3> QED BY <3>1, <3>2, <3>3 DEF DeployInv
    <2>4. CASE ui' = NoUi /\ doubt' = TRUE
      <3>1. UiForm'
        BY <2>4 DEF UiForm, NoUi
      <3> QED BY <2>4, <3>1, Doubtful
    <2> QED BY <1>2, <2>2, <2>3, <2>4 DEF SaveSchemaList
  <1>3. CASE SaveSchemaDeploy
    <2>1. /\ ui' = [ui EXCEPT !.at = "build", !.ids = list]
          /\ DeployReads /\ UNCHANGED <<task, list, reload>>
      BY <1>3 DEF SaveSchemaDeploy
    <2>2. UiForm' /\ ui'.at = "build" /\ ui'.ids = list
      BY <2>1 DEF DeployInv, UiForm
    <2>3. SomebodyBuilds'
      BY <2>2 DEF SomebodyBuilds
    <2>4. ~SomebodyBuilds => OneBuilds' /\ BuildsCurrent'
      BY <2>1, <2>2 DEF OneBuilds, BuildsCurrent, SomebodyBuilds
    <2> QED BY <2>1, <2>2, <2>3, <2>4, BeginsToBuild
  <1>4. CASE SaveSchemaBuild
    <2>1. /\ ui.at = "build" /\ ui' = NoUi /\ DeployWrites(ui.ids)
          /\ UNCHANGED <<task, list, reload>>
      BY <1>4 DEF SaveSchemaBuild
    <2>2. UiForm' /\ ui'.at = "idle"
      BY <2>1 DEF UiForm, NoUi
    <2>3. ~doubt /\ NoneToDeploy => ui.ids = list
      BY <2>1 DEF DeployInv, BuildsCurrent
    <2>4. ~doubt => ~SomebodyBuilds'
      BY <2>1, <2>2 DEF DeployInv, OneBuilds, SomebodyBuilds
    <2>5. NoneToDeploy' => NoneToDeploy
      BY <2>1, <2>2 DEF NoneToDeploy
    <2> QED BY <2>1, <2>2, <2>3, <2>4, <2>5, BuilderWrites
  <1> QED BY <1>1, <1>2, <1>3, <1>4

(* The server. *)
LEMMA ServerDeployment ==
    ASSUME DeployInv, ServerDeploys \/ ServerBuilds
    PROVE  DeployInv'
  <1>1. UiForm' /\ UNCHANGED <<ui, task, list>>
    BY DEF DeployInv, UiForm, ServerDeploys, ServerBuilds
  <1>2. CASE ServerDeploys
    <2>1. reload' = [busy |-> TRUE, ids |-> list] /\ DeployReads
      BY <1>2 DEF ServerDeploys
    <2>2. SomebodyBuilds' /\ (~SomebodyBuilds => OneBuilds' /\ BuildsCurrent')
      BY <1>1, <2>1 DEF SomebodyBuilds, OneBuilds, BuildsCurrent
    <2> QED BY <1>1, <2>1, <2>2, BeginsToBuild
  <1>3. CASE ServerBuilds
    <2>1. reload.busy /\ reload' = NoReload /\ ~reload'.busy /\ DeployWrites(reload.ids)
      BY <1>3 DEF ServerBuilds, NoReload
    <2>2. ~doubt /\ NoneToDeploy => reload.ids = list
      BY <2>1 DEF DeployInv, BuildsCurrent
    <2>3. ~doubt => ~SomebodyBuilds'
      BY <1>1, <2>1 DEF DeployInv, OneBuilds, SomebodyBuilds
    <2>4. NoneToDeploy' => NoneToDeploy
      BY <1>1 DEF NoneToDeploy
    <2> QED BY <1>1, <2>1, <2>2, <2>3, <2>4, BuilderWrites
  <1> QED BY <1>2, <1>3

(* The settings program deploys as it starts. *)
LEMMA ReopenDeploys ==
    ASSUME Reopen
    PROVE  DeployInv'
  <1>1. ui' = NoUi /\ list' = list /\ reload' = reload /\ task' = [t \in Threads |-> NoTask]
    BY DEF Reopen, Opened
  <1>2. UiForm' /\ ui'.at = "idle" /\ \A t \in Threads : task'[t].at = "end"
    BY <1>1 DEF UiForm, NoUi, NoTask
  <1>3. CASE doubt'
    BY <1>2, <1>3, Doubtful
  <1>4. CASE ~doubt'
    <2>1. deployed' = list' /\ ~reload'.busy
      BY <1>1, <1>4 DEF Reopen, Opened
    <2>2. OneBuilds' /\ BuildsCurrent'
      BY <1>2, <2>1 DEF OneBuilds, BuildsCurrent
    <2> QED BY <1>2, <2>1, <2>2 DEF DeployInv, DeployedIsCurrent
  <1> QED BY <1>3, <1>4

LEMMA NextDeploys == DeployInv /\ TaskInv /\ [Next]_vars => DeployInv'
  <1> SUFFICES ASSUME DeployInv, TaskInv, [Next]_vars PROVE DeployInv'
    OBVIOUS
  <1>1. ASSUME UNCHANGED <<list, deployed, doubt, reload, ui, task>> PROVE DeployInv'
    BY <1>1, Patient
  <1>2. ASSUME NEW i, SaveSchema(i) PROVE DeployInv'
    BY <1>2, SelectionDeploys
  <1>3. CASE SaveSchemaList \/ SaveSchemaDeploy \/ SaveSchemaBuild
    BY <1>3, SelectionDeploys
  <1>4. CASE ServerDeploys \/ ServerBuilds
    BY <1>4, ServerDeployment
  <1>5. CASE Reopen
    BY <1>5, ReopenDeploys
  <1>6. ASSUME NEW i, \/ DownloadMarketSchema(i) \/ DownloadMarketModel(i)
                      \/ DeleteMarketModel(i) \/ InstallMarketSchema(i)
                      \/ UninstallMarketSchema(i)
        PROVE  DeployInv'
    BY <1>6, BeginSteps, BeginsDeploys
  <1>7. CASE StartDeploy
    BY <1>7, DeployBegins, BeginsDeploys
  <1>8. ASSUME NEW t \in Threads, ThreadStep(t) PROVE DeployInv'
    BY <1>8, ThreadDeploys
  <1>9. ASSUME NEW n, Answer(n) PROVE DeployInv'
    BY <1>1, <1>9 DEF Answer, listVars
  <1>10. CASE Refresh \/ PollBackground \/ UNCHANGED vars
    BY <1>1, <1>10 DEF Refresh, PollBackground, vars, listVars
  <1> QED
    BY <1>2, <1>3, <1>4, <1>5, <1>6, <1>7, <1>8, <1>9, <1>10 DEF Next

(* Whoever writes the schema list has it deployed, in every order of selections,
   threads and deployments of the server, but for the exceptions DeployedIsCurrent
   names: a deployment that did not write its list or met another, and a list cut off. *)
THEOREM DeployedIsCurrentAlways == Spec => []DeployedIsCurrent
  <1>1. Init => DeployInv
    <2> SUFFICES ASSUME Init PROVE DeployInv
      OBVIOUS
    <2>1. /\ ui = NoUi /\ deployed = list /\ reload = NoReload
          /\ task = [t \in Threads |-> NoTask]
      BY DEF Init
    <2>2. /\ UiForm /\ ui.at = "idle" /\ ~reload.busy
          /\ \A t \in Threads : task[t].at = "end"
      BY <2>1 DEF UiForm, NoUi, NoReload, NoTask
    <2> QED BY <2>1, <2>2 DEF DeployInv, OneBuilds, BuildsCurrent, DeployedIsCurrent
  <1>2. DeployInv => DeployedIsCurrent
    BY DEF DeployInv
  <1> QED BY <1>1, <1>2, InitTasks, NextTasks, NextDeploys, PTL DEF Spec

-----------------------------------------------------------------------------
(* The mark. *)

MarkInv == PageForm /\ MarkHasThread

LEMMA SameMark ==
    ASSUME MarkInv, UNCHANGED <<page, installing, slot, task>>
    PROVE  MarkInv'
  BY DEF MarkInv, PageForm, MarkHasThread, Alive

LEMMA PollMarks ==
    ASSUME MarkInv, PollBackground
    PROVE  MarkInv'
  <1> DEFINE q == PollTask(PollIndex)
  <1>1. /\ page' = q /\ task' = task /\ slot' = NoResult
        /\ installing' = IF slot # NoResult THEN None ELSE installing
    BY DEF PollBackground
  <1>2. /\ q.busy = IF slot = NoResult THEN page.busy ELSE None
        /\ q = [loading |-> q.loading, loaded |-> q.loaded, shown |-> q.shown,
                got |-> q.got, busy |-> q.busy]
    BY PollTaskPage, PollIndexPage DEF MarkInv
  <1> HIDE DEF q
  <1>3. PageForm'
    BY <1>1, <1>2 DEF PageForm
  <1>4. MarkHasThread'
    BY <1>1, <1>2 DEF MarkInv, MarkHasThread, Alive
  <1> QED BY <1>3, <1>4 DEF MarkInv

LEMMA BeginsMark ==
    ASSUME NEW i, i # None, NEW a, a # "end", Begins(i, a), PageForm'
    PROVE  MarkInv'
  <1>1. PICK t \in Threads : task'[t].at = a /\ task'[t].id = i
    BY DEF Begins
  <1> QED BY <1>1 DEF MarkInv, MarkHasThread, Alive

LEMMA ThreadMarks ==
    ASSUME MarkInv, TaskInv, NEW t \in Threads, ThreadStep(t)
    PROVE  MarkInv'
  <1>1. CASE Report(t)
    <2>1. /\ \A u \in Threads \ {t} : task'[u] = task[u]
          /\ UNCHANGED <<page, installing>>
          /\ task[t].id = None => UNCHANGED slot
          /\ task[t].id # None => slot' # NoResult
      BY <1>1, ReportSteps DEF TaskInv
    <2>2. PageForm'
      BY <2>1 DEF MarkInv, PageForm
    <2>3. MarkHasThread'
      BY <2>1 DEF MarkInv, MarkHasThread, Alive
    <2> QED BY <2>2, <2>3 DEF MarkInv
  <1>2. ASSUME NEW a, OnItsWay(t, a) PROVE MarkInv'
    <2>1. /\ task'[t].at # "end" /\ task'[t].id = task[t].id
          /\ \A u \in Threads \ {t} : task'[u] = task[u]
          /\ UNCHANGED <<page, installing, slot>>
      BY <1>2 DEF OnItsWay, Moved
    <2>2. PageForm'
      BY <2>1 DEF MarkInv, PageForm
    <2>3. MarkHasThread'
      BY <2>1 DEF MarkInv, MarkHasThread, Alive
    <2> QED BY <2>2, <2>3 DEF MarkInv
  <1> QED BY <1>1, <1>2, ThreadSteps DEF TaskInv

LEMMA NextMarks == MarkInv /\ TaskInv /\ [Next]_vars => MarkInv'
  <1> SUFFICES ASSUME MarkInv, TaskInv, [Next]_vars PROVE MarkInv'
    OBVIOUS
  <1>1. CASE Refresh
    <2>1. /\ page' = [page EXCEPT !.loading = TRUE, !.loaded = FALSE]
          /\ UNCHANGED <<installing, slot, task>>
      BY <1>1 DEF Refresh, slotVars
    <2>2. PageForm' /\ page'.busy = page.busy
      BY <2>1 DEF MarkInv, PageForm
    <2> QED BY <2>1, <2>2 DEF MarkInv, MarkHasThread, Alive
  <1>2. CASE Reopen
    <2>1. page' = Loading /\ installing' = None
      BY <1>2 DEF Reopen, Opened
    <2>2. PageForm' /\ page'.busy = None
      BY <2>1 DEF Loading, PageForm
    <2> QED BY <2>1, <2>2 DEF MarkInv, MarkHasThread
  <1>3. ASSUME NEW i \in Items, \/ DownloadMarketSchema(i) \/ DownloadMarketModel(i)
                                \/ DeleteMarketModel(i) \/ InstallMarketSchema(i)
                                \/ UninstallMarketSchema(i)
        PROVE  MarkInv'
    <2>1. i # None
      BY <1>3, KindsAssumption DEF Items
    <2>2. page' = page \/ page' = [page EXCEPT !.busy = i]
      BY <1>3 DEF DownloadMarketSchema, DownloadMarketModel, DeleteMarketModel,
                  InstallMarketSchema, UninstallMarketSchema
    <2>3. PageForm'
      BY <2>2 DEF MarkInv, PageForm
    <2> QED BY <1>3, <2>1, <2>3, BeginSteps, BeginsMark
  <1>4. CASE StartDeploy
    <2>1. UNCHANGED <<page, installing, slot>> /\ Begins(None, "deploy")
      BY <1>4, DeployBegins DEF Begins
    <2>2. PICK t \in Threads : ~Alive(t) /\ \A u \in Threads \ {t} : task'[u] = task[u]
      BY <2>1 DEF Begins
    <2>3. PageForm'
      BY <2>1 DEF MarkInv, PageForm
    <2>4. MarkHasThread'
      BY <2>1, <2>2 DEF MarkInv, MarkHasThread, Alive
    <2> QED BY <2>3, <2>4 DEF MarkInv
  <1>5. ASSUME NEW t \in Threads, ThreadStep(t) PROVE MarkInv'
    BY <1>5, ThreadMarks
  <1>6. ASSUME NEW n, Answer(n) PROVE MarkInv'
    BY <1>6, SameMark DEF Answer, pageVars
  <1>7. CASE PollBackground
    BY <1>7, PollMarks
  <1>8. ASSUME NEW i, SaveSchema(i) PROVE MarkInv'
    BY <1>8, SameMark DEF SaveSchema, pageVars, slotVars
  <1>9. CASE \/ SaveSchemaList \/ SaveSchemaDeploy \/ SaveSchemaBuild
           \/ ServerDeploys \/ ServerBuilds \/ UNCHANGED vars
    BY <1>9, SameMark DEF SaveSchemaList, SaveSchemaDeploy, SaveSchemaBuild, ServerDeploys,
                          ServerBuilds, vars, pageVars, slotVars
  <1>10. ASSUME NEW i \in Schemas, \/ DownloadMarketSchema(i) \/ InstallMarketSchema(i)
                                   \/ UninstallMarketSchema(i)
         PROVE  i \in Items
    BY <1>10 DEF DownloadMarketSchema, SchemaAction, SchemaList, InstallMarketSchema,
                 UninstallMarketSchema, MarketGuard, Items
  <1>11. ASSUME NEW i \in Models, DownloadMarketModel(i) \/ DeleteMarketModel(i)
         PROVE  i \in Items
    BY <1>11 DEF DownloadMarketModel, DeleteMarketModel, ModelAction, ModelList, Items
  <1> QED
    BY <1>1, <1>2, <1>3, <1>4, <1>5, <1>6, <1>7, <1>8, <1>9, <1>10, <1>11 DEF Next

(* The mark that blocks the page stands only while a thread, or its result, is there to
   end it. *)
THEOREM MarkHasThreadAlways == Spec => []MarkHasThread
  <1>1. Init => MarkInv
    <2> SUFFICES ASSUME Init PROVE MarkInv
      OBVIOUS
    <2>1. page = Loading /\ installing = None
      BY DEF Init
    <2>2. PageForm /\ page.busy = None
      BY <2>1 DEF Loading, PageForm
    <2> QED BY <2>1, <2>2 DEF MarkInv, MarkHasThread
  <1>2. MarkInv => MarkHasThread
    BY DEF MarkInv
  <1> QED BY <1>1, <1>2, InitTasks, NextTasks, NextMarks, PTL DEF Spec

-----------------------------------------------------------------------------
(* The page and the disk. *)

(* Thread t has not touched its item's directory, or has nothing to say of it. *)
Calm(t) ==
    \/ task[t].op \in {"install", "uninstall"}
    \/ task[t].op = "download" /\ task[t].at = "mkdir"
    \/ task[t].op = "download" /\ task[t].at = "report" /\ ~task[t].ok
    \/ task[t].op = "delete" /\ task[t].at = "remove"

Said(i, op) == slot.id = i /\ slot.ok /\ slot.op = op

(* What the page will hold of i once it has taken the result in the slot. *)
Expected(i) == Said(i, "download") \/ (i \in page.got /\ ~Said(i, "delete"))

(* Nobody is in the middle of i: its directory is there in full or not at all, and the
   result in the slot tells which. *)
Settled(i) ==
    /\ disk[i] \in {"none", "whole"}
    /\ page.loaded => (Expected(i) <=> disk[i] = "whole")
    /\ Said(i, "download") => disk[i] = "whole"
    /\ Said(i, "delete") => disk[i] = "none"

(* What thread t has done to its item, when it is the only one and nothing failed. *)
Result(t) ==
    task[t].at = "report" =>
        /\ task[t].op = "download" /\ task[t].ok => disk[task[t].id] = "whole"
        /\ task[t].op = "delete" => disk[task[t].id] = "none"

Alone(i) == \A t, u \in Working(i) : t = u

Clean(i) ==
    /\ Alone(i)
    /\ (\A t \in Working(i) : Calm(t)) => Settled(i)
    /\ \A t \in Working(i) : Result(t)

(* What a task may be: only a report says that something failed, and a deletion never
   does; the list and the deployment are not for those who load or delete. *)
Sound(r) ==
    /\ r.at # "report" \/ r.op = "delete" => r.ok
    /\ r.op = "deploy" => r.id = None
    /\ r.at # "end" => r.op \in {"download", "delete", "install", "uninstall", "deploy"}
    /\ r.at \in {"deploy", "build"} => r.op \in {"deploy", "install", "uninstall"}
    /\ r.at = "list" => r.op \in {"install", "uninstall"}

OpForm == \A t \in Threads : Sound(task[t])

CleanInv == OpForm /\ DOMAIN disk = Items /\ \A i \in Items \ taint : Clean(i)

LEMMA ItemNotNone == None \notin Items
  BY KindsAssumption DEF Items

(* Nothing about item i has changed but, perhaps, that the page has forgotten its index. *)
LEMMA SameClean ==
    ASSUME NEW i, Clean(i),
           \A u \in Threads : u \in Working(i) \/ (u \in Working(i))' => task'[u] = task[u],
           disk'[i] = disk[i], page'.loaded => page.loaded, i \in page'.got <=> i \in page.got,
           slot' = slot \/ (slot.id # i /\ slot'.id # i)
    PROVE  Clean(i)'
  <1>1. Working(i)' = Working(i) /\ \A u \in Working(i) : task'[u] = task[u] /\ task[u].id = i
    BY DEF Working, Alive
  <1>2. Alone(i)'
    BY <1>1 DEF Clean, Alone
  <1>3. \A u \in Working(i) : (Calm(u)' <=> Calm(u)) /\ (Result(u) => Result(u)')
    BY <1>1 DEF Calm, Result
  <1>4. \A op : Said(i, op)' <=> Said(i, op)
    BY DEF Said
  <1>5. Expected(i)' <=> Expected(i)
    BY <1>4 DEF Expected
  <1>6. Settled(i) => Settled(i)'
    BY <1>4, <1>5 DEF Settled
  <1> QED BY <1>1, <1>2, <1>3, <1>6 DEF Clean

(* All that concerns the page and the disk is as it was. *)
LEMMA NothingClean ==
    ASSUME CleanInv, UNCHANGED <<kind, task, disk, taint, slot>>,
           page'.loaded => page.loaded, page'.got = page.got
    PROVE  CleanInv'
  <1>1. OpForm' /\ Items' = Items /\ DOMAIN disk' = Items
    BY DEF CleanInv, OpForm, Items
  <1>2. ASSUME NEW i \in Items \ taint PROVE Clean(i)'
    BY <1>2, SameClean DEF CleanInv
  <1> QED BY <1>1, <1>2 DEF CleanInv

-----------------------------------------------------------------------------
(* The threads and the disk. *)

(* Thread t has gone on to a with success k, as itself; no other thread has moved. *)
Went(t, a, k) ==
    /\ task'[t].at = a /\ task'[t].ok = k
    /\ task'[t].op = task[t].op /\ task'[t].id = task[t].id
    /\ \A u \in Threads \ {t} : task'[u] = task[u]

LEMMA AtKeeps ==
    ASSUME NEW r, Named(r), NEW a
    PROVE  [r EXCEPT !.at = a].op = r.op /\ [r EXCEPT !.at = a].ok = r.ok
  BY DEF Named

LEMMA OkKeeps ==
    ASSUME NEW r, Named(r), NEW k
    PROVE  [r EXCEPT !.ok = k].op = r.op /\ [r EXCEPT !.ok = k].ok = k
  BY DEF Named

LEMMA IdsKeeps ==
    ASSUME NEW r, Named(r), NEW s
    PROVE  [r EXCEPT !.ids = s].op = r.op /\ [r EXCEPT !.ids = s].ok = r.ok
  BY DEF Named

LEMMA GotoWent ==
    ASSUME TaskForm, NEW t \in Threads, NEW a, Goto(t, a)
    PROVE  Went(t, a, task[t].ok)
  <1>1. DOMAIN task = Threads /\ Named(task[t])
    BY DEF TaskForm
  <1>2. task'[t] = [task[t] EXCEPT !.at = a] /\ \A u \in Threads \ {t} : task'[u] = task[u]
    BY <1>1 DEF Goto
  <1> QED BY <1>1, <1>2, AtField, AtKeeps DEF Went

LEMMA EndWent ==
    ASSUME TaskForm, NEW t \in Threads, NEW a, NEW k,
           task' = [task EXCEPT ![t].at = a, ![t].ok = k]
    PROVE  Went(t, a, k)
  <1> DEFINE r == [task[t] EXCEPT !.at = a]
  <1>1. DOMAIN task = Threads /\ Named(task[t])
    BY DEF TaskForm
  <1>2. /\ task'[t] = [r EXCEPT !.ok = k]
        /\ \A u \in Threads \ {t} : task'[u] = task[u]
    BY <1>1
  <1>3. Named(r) /\ r.at = a /\ r.id = task[t].id /\ r.op = task[t].op
    BY <1>1, AtField, AtKeeps
  <1> HIDE DEF r
  <1>4. /\ [r EXCEPT !.ok = k].at = a /\ [r EXCEPT !.ok = k].id = task[t].id
        /\ [r EXCEPT !.ok = k].op = task[t].op /\ [r EXCEPT !.ok = k].ok = k
    <2>1. [r EXCEPT !.ok = k].at = r.at /\ [r EXCEPT !.ok = k].id = r.id
      BY <1>3, OkField
    <2>2. [r EXCEPT !.ok = k].op = r.op /\ [r EXCEPT !.ok = k].ok = k
      BY <1>3, OkKeeps
    <2> QED BY <1>3, <2>1, <2>2
  <1> QED BY <1>2, <1>4 DEF Went

LEMMA ListWent ==
    ASSUME TaskForm, NEW t \in Threads, NEW a, NEW s,
           task' = [task EXCEPT ![t].at = a, ![t].ids = s]
    PROVE  Went(t, a, task[t].ok)
  <1> DEFINE r == [task[t] EXCEPT !.at = a]
  <1>1. DOMAIN task = Threads /\ Named(task[t])
    BY DEF TaskForm
  <1>2. /\ task'[t] = [r EXCEPT !.ids = s]
        /\ \A u \in Threads \ {t} : task'[u] = task[u]
    BY <1>1
  <1>3. Named(r) /\ r.at = a /\ r.id = task[t].id /\ r.op = task[t].op /\ r.ok = task[t].ok
    BY <1>1, AtField, AtKeeps
  <1> HIDE DEF r
  <1>4. /\ [r EXCEPT !.ids = s].at = r.at /\ [r EXCEPT !.ids = s].id = r.id
        /\ [r EXCEPT !.ids = s].op = r.op /\ [r EXCEPT !.ids = s].ok = r.ok
    <2>1. [r EXCEPT !.ids = s].at = r.at /\ [r EXCEPT !.ids = s].id = r.id
      BY <1>3, IdsField
    <2>2. [r EXCEPT !.ids = s].op = r.op /\ [r EXCEPT !.ids = s].ok = r.ok
      BY <1>3, IdsKeeps
    <2> QED BY <2>1, <2>2
  <1> QED BY <1>2, <1>3, <1>4 DEF Went

LEMMA DoneWent ==
    ASSUME TaskForm, NEW t \in Threads, NEW a, NEW k, Done(t, a, k)
    PROVE  Went(t, a, k)
  <1> DEFINE r == [task[t] EXCEPT !.at = a]
             q == [r EXCEPT !.ok = k]
  <1>1. DOMAIN task = Threads /\ Named(task[t])
    BY DEF TaskForm
  <1>2. /\ task'[t] = [q EXCEPT !.ids = <<>>]
        /\ \A u \in Threads \ {t} : task'[u] = task[u]
    BY <1>1 DEF Done
  <1>3. Named(r) /\ r.at = a /\ r.id = task[t].id /\ r.op = task[t].op
    BY <1>1, AtField, AtKeeps
  <1> HIDE DEF r
  <1>4. Named(q) /\ q.at = a /\ q.id = task[t].id /\ q.op = task[t].op /\ q.ok = k
    <2>1. /\ Named([r EXCEPT !.ok = k]) /\ [r EXCEPT !.ok = k].at = r.at
          /\ [r EXCEPT !.ok = k].id = r.id
      BY <1>3, OkField
    <2>2. [r EXCEPT !.ok = k].op = r.op /\ [r EXCEPT !.ok = k].ok = k
      BY <1>3, OkKeeps
    <2> QED BY <1>3, <2>1, <2>2
  <1> HIDE DEF q
  <1>5. /\ [q EXCEPT !.ids = <<>>].at = a /\ [q EXCEPT !.ids = <<>>].id = task[t].id
        /\ [q EXCEPT !.ids = <<>>].op = task[t].op /\ [q EXCEPT !.ids = <<>>].ok = k
    <2>1. [q EXCEPT !.ids = <<>>].at = q.at /\ [q EXCEPT !.ids = <<>>].id = q.id
      BY <1>4, IdsField
    <2>2. [q EXCEPT !.ids = <<>>].op = q.op /\ [q EXCEPT !.ids = <<>>].ok = q.ok
      BY <1>4, IdsKeeps
    <2> QED BY <1>4, <2>1, <2>2
  <1> QED BY <1>2, <1>5 DEF Went

(* A thread that is in the middle of its item, alone, owes the page nothing yet. *)
LEMMA BusyClean ==
    ASSUME NEW t \in Threads, NEW i, i = task'[t].id, task'[t].at # "end",
           \A u \in Threads \ {t} : task'[u] = task[u],
           \A u \in Working(i) : u = t, ~Calm(t)', Result(t)'
    PROVE  Clean(i)'
  <1>1. task'[t].at # "end" /\ task'[t].id = i
    OBVIOUS
  <1>2. t \in Working(i)'
    BY <1>1 DEF Working, Alive
  <1>3. ASSUME NEW u \in Working(i)' PROVE u = t
    <2>1. u \in Threads /\ task'[u].at # "end" /\ task'[u].id = i
      BY <1>3 DEF Working, Alive
    <2>2. u # t => u \in Working(i)
      BY <2>1 DEF Working, Alive
    <2> QED BY <2>2
  <1> QED BY <1>2, <1>3 DEF Clean, Alone

(* A thread that keeps away from the directory leaves its item as clean as it was. *)
LEMMA CalmClean ==
    ASSUME NEW t \in Threads, NEW a, NEW k, Went(t, a, k), NEW i, i = task[t].id, a # "end",
           Alive(t), Clean(i), Calm(t), Calm(t)', task[t].op # "delete",
           UNCHANGED <<disk, slot, page>>
    PROVE  Clean(i)'
  <1>1. Working(i)' = Working(i) /\ \A u \in Working(i) : u = t
    <2>1. t \in Working(i) /\ (t \in Working(i))'
      BY DEF Working, Alive, Went
    <2>2. \A u \in Threads \ {t} : u \in Working(i) <=> (u \in Working(i))'
      BY DEF Working, Alive, Went
    <2>3. Working(i) \subseteq Threads /\ Working(i)' \subseteq Threads
      BY DEF Working
    <2> QED BY <2>1, <2>2, <2>3 DEF Clean, Alone
  <1>2. Settled(i)'
    BY <1>1 DEF Clean, Settled, Expected, Said
  <1>3. Result(t)'
    <2>1. task'[t].op = task[t].op
      BY DEF Went
    <2> QED BY <2>1 DEF Calm, Result
  <1> QED BY <1>1, <1>2, <1>3 DEF Clean, Alone

(* A step of thread t that does not report: what it does to its own item is what matters. *)
LEMMA StepClean ==
    ASSUME CleanInv, NEW t \in Threads, NEW a, NEW k, Went(t, a, k), Sound(task'[t]),
           Still, DOMAIN disk' = Items,
           \A j \in Items \ {task[t].id} : disk'[j] = disk[j] /\ (j \in taint => j \in taint'),
           \A j \in Items \ taint' : j = task[t].id => Clean(j)'
    PROVE  CleanInv'
  <1>1. UNCHANGED <<kind, page, slot>>
    BY DEF Still, pageVars, slotVars
  <1>2. OpForm'
    BY DEF CleanInv, OpForm, Went
  <1>3. Items' = Items
    BY <1>1 DEF Items
  <1>4. ASSUME NEW j \in Items \ taint' PROVE Clean(j)'
    <2>1. CASE j = task[t].id
      BY <1>4, <2>1
    <2>2. CASE j # task[t].id
      <3>1. Clean(j) /\ disk'[j] = disk[j]
        BY <1>4, <2>2 DEF CleanInv
      <3>2. \A u \in Threads : u \in Working(j) \/ (u \in Working(j))' => task'[u] = task[u]
        BY <2>2 DEF Working, Alive, Went
      <3> QED BY <1>1, <3>1, <3>2, SameClean
    <2> QED BY <2>1, <2>2
  <1> QED BY <1>2, <1>3, <1>4 DEF CleanInv

(* Where nothing is done to the disk. *)
LEMMA CalmStep ==
    ASSUME CleanInv, NEW t \in Threads, NEW a, NEW k, Went(t, a, k), Sound(task'[t]), a # "end",
           Still, UNCHANGED diskVars, Alive(t), task[t].op # "delete",
           task[t].op # "deploy" => Calm(t) /\ Calm(t)'
    PROVE  CleanInv'
  <1>1. UNCHANGED <<disk, taint, page, slot>>
    BY DEF Still, pageVars, slotVars, diskVars
  <1>2. Sound(task[t])
    BY DEF CleanInv, OpForm
  <1>3. task[t].id \in Items => task[t].op # "deploy"
    BY <1>2, ItemNotNone DEF Sound
  <1>4. ASSUME NEW j \in Items \ taint', j = task[t].id PROVE Clean(j)'
    <2>1. Clean(j) /\ task[t].op # "deploy"
      BY <1>1, <1>3, <1>4 DEF CleanInv
    <2> QED BY <1>1, <1>4, <2>1, CalmClean
  <1>5. DOMAIN disk' = Items
    BY <1>1 DEF CleanInv
  <1> QED BY <1>1, <1>4, <1>5, StepClean
LEMMA MkdirClean ==
    ASSUME CleanInv, TaskForm, NEW t \in Threads, Mkdir(t)
    PROVE  CleanInv'
  <1>1. /\ task[t].op = "download" /\ task[t].at = "mkdir" /\ Alive(t) /\ Still
        /\ UNCHANGED <<last, taint>>
    BY DEF Mkdir, At, Alive
  <1>2. task[t].ok
    BY <1>1 DEF CleanInv, OpForm, Sound
  <1>3. CASE Fails(t) /\ UNCHANGED disk
    <2>1. Went(t, "report", FALSE)
      BY <1>3, EndWent DEF Fails
    <2>2. Calm(t) /\ Calm(t)' /\ Sound(task'[t])
      BY <1>1, <2>1 DEF Calm, Went, Sound
    <2> QED BY <1>1, <1>3, <2>1, <2>2, CalmStep DEF diskVars
  <1>4. CASE /\ disk' = [disk EXCEPT ![task[t].id] = IF @ = "none" THEN "dir" ELSE @]
             /\ Goto(t, "create")
    <2>1. Went(t, "create", TRUE)
      BY <1>2, <1>4, GotoWent, Zenon DEF CleanInv
    <2>2. ~Calm(t)' /\ Result(t)' /\ Sound(task'[t])
      BY <1>1, <2>1 DEF Calm, Went, Result, Sound
    <2>3. DOMAIN disk' = Items /\ \A j \in Items \ {task[t].id} : disk'[j] = disk[j]
      BY <1>4 DEF CleanInv
    <2>4. ASSUME NEW j \in Items \ taint', j = task[t].id PROVE Clean(j)'
      <3>1. \A u \in Working(j) : u = t
        BY <1>1, <2>4 DEF CleanInv, Clean, Alone, Working
      <3>2. /\ task'[t].id = j /\ task'[t].at # "end"
            /\ \A u \in Threads \ {t} : task'[u] = task[u]
        BY <2>1, <2>4 DEF Went
      <3> QED BY <2>2, <3>1, <3>2, BusyClean
    <2> QED BY <1>1, <2>1, <2>2, <2>3, <2>4, StepClean
  <1> QED BY <1>3, <1>4 DEF Mkdir

LEMMA CreateClean ==
    ASSUME CleanInv, TaskForm, NEW t \in Threads, Create(t)
    PROVE  CleanInv'
  <1>1. task[t].op = "download" /\ task[t].at = "create" /\ Alive(t) /\ Still
    BY DEF Create, At, Alive
  <1>2. task[t].ok
    BY <1>1 DEF CleanInv, OpForm, Sound
  <1>3. CASE Fails(t) /\ taint' = taint \cup {task[t].id} /\ UNCHANGED <<disk, last>>
    <2>1. Went(t, "report", FALSE)
      BY <1>3, EndWent DEF Fails
    <2>2. Sound(task'[t])
      BY <1>1, <2>1 DEF Went, Sound
    <2> QED BY <1>1, <1>3, <2>1, <2>2, StepClean DEF CleanInv
  <1>4. CASE /\ disk' = [disk EXCEPT ![task[t].id] = "part"]
             /\ Goto(t, "write") /\ UNCHANGED taint
    <2>1. Went(t, "write", TRUE)
      BY <1>2, <1>4, GotoWent, Zenon DEF CleanInv
    <2>2. ~Calm(t)' /\ Result(t)' /\ Sound(task'[t])
      BY <1>1, <2>1 DEF Calm, Went, Result, Sound
    <2>3. DOMAIN disk' = Items /\ \A j \in Items \ {task[t].id} : disk'[j] = disk[j]
      BY <1>4 DEF CleanInv
    <2>4. ASSUME NEW j \in Items \ taint', j = task[t].id PROVE Clean(j)'
      <3>1. \A u \in Working(j) : u = t
        BY <1>1, <1>4, <2>4 DEF CleanInv, Clean, Alone, Working
      <3>2. /\ task'[t].id = j /\ task'[t].at # "end"
            /\ \A u \in Threads \ {t} : task'[u] = task[u]
        BY <2>1, <2>4 DEF Went
      <3> QED BY <2>2, <3>1, <3>2, BusyClean
    <2> QED BY <1>1, <1>4, <2>1, <2>2, <2>3, <2>4, StepClean
  <1> QED BY <1>3, <1>4 DEF Create

LEMMA WriteClean ==
    ASSUME CleanInv, TaskForm, NEW t \in Threads, Write(t)
    PROVE  CleanInv'
  <1>1. task[t].op = "download" /\ task[t].at = "write" /\ Alive(t) /\ Still
    BY DEF Write, At, Alive
  <1>2. task[t].ok
    BY <1>1 DEF CleanInv, OpForm, Sound
  <1>3. ASSUME Fails(t), taint' = taint \cup {task[t].id}, DOMAIN disk' = Items,
               \A j \in Items \ {task[t].id} : disk'[j] = disk[j]
        PROVE  CleanInv'
    <2>1. Went(t, "report", FALSE)
      BY <1>3, EndWent DEF Fails
    <2>2. Sound(task'[t])
      BY <1>1, <2>1 DEF Went, Sound
    <2> QED BY <1>1, <1>3, <2>1, <2>2, StepClean
  <1>4. ASSUME NEW d, disk' = [disk EXCEPT ![task[t].id] = d],
               taint' = IF disk'[task[t].id] = "whole" /\ Working(task[t].id) = {t}
                        THEN taint \ {task[t].id} ELSE taint \cup {task[t].id},
               Goto(t, "report")
        PROVE  CleanInv'
    <2>1. Went(t, "report", TRUE)
      BY <1>2, <1>4, GotoWent, Zenon DEF CleanInv
    <2>2. ~Calm(t)' /\ Sound(task'[t])
      BY <1>1, <2>1 DEF Calm, Went, Sound
    <2>3. DOMAIN disk' = Items /\ \A j \in Items \ {task[t].id} : disk'[j] = disk[j]
      BY <1>4 DEF CleanInv
    <2>4. ASSUME NEW j \in Items \ taint', j = task[t].id PROVE Clean(j)'
      <3>1. disk'[j] = "whole" /\ Working(j) = {t}
        BY <1>4, <2>4
      <3>2. Result(t)'
        BY <1>1, <2>1, <2>4, <3>1 DEF Result, Went
      <3>3. /\ task'[t].id = j /\ task'[t].at # "end"
            /\ \A u \in Threads \ {t} : task'[u] = task[u]
        BY <2>1, <2>4 DEF Went
      <3> QED BY <2>2, <3>1, <3>2, <3>3, BusyClean
    <2>5. \A j \in Items \ {task[t].id} : j \in taint => j \in taint'
      BY <1>4
    <2> QED BY <1>1, <2>1, <2>2, <2>3, <2>4, <2>5, StepClean
  <1>5. CASE /\ disk' = [disk EXCEPT ![task[t].id] = IF last[task[t].id] = t THEN "whole" ELSE @]
             /\ taint' = IF disk'[task[t].id] = "whole" /\ Working(task[t].id) = {t}
                         THEN taint \ {task[t].id} ELSE taint \cup {task[t].id}
             /\ Goto(t, "report")
    <2>1. \E d : disk' = [disk EXCEPT ![task[t].id] = d]
      <3> WITNESS IF last[task[t].id] = t THEN "whole" ELSE disk[task[t].id]
      <3> QED BY <1>5
    <2> QED BY <1>4, <1>5, <2>1
  <1>6. CASE Fails(t) /\ taint' = taint \cup {task[t].id} /\ UNCHANGED <<disk, last>>
    BY <1>3, <1>6 DEF CleanInv
  <1>7. CASE /\ Fails(t) /\ taint' = taint \cup {task[t].id}
             /\ disk' = [disk EXCEPT ![task[t].id] = IF @ = "none" THEN @ ELSE "dir"]
    BY <1>3, <1>7 DEF CleanInv
  <1> QED BY <1>5, <1>6, <1>7 DEF Write

LEMMA RemoveClean ==
    ASSUME CleanInv, TaskForm, NEW t \in Threads, RemoveDirAll(t)
    PROVE  CleanInv'
  <1>1. task[t].op = "delete" /\ task[t].at = "remove" /\ Alive(t) /\ Still /\ Goto(t, "report")
    BY DEF RemoveDirAll, At, Alive
  <1>2. task[t].ok
    BY <1>1 DEF CleanInv, OpForm, Sound
  <1>3. PICK left : /\ disk' = [disk EXCEPT ![task[t].id] = left]
                    /\ taint' = IF left # "none" \/ Working(task[t].id) # {t}
                                THEN taint \cup {task[t].id} ELSE taint
    BY DEF RemoveDirAll
  <1>4. Went(t, "report", TRUE)
    BY <1>1, <1>2, GotoWent, Zenon DEF CleanInv
  <1>5. ~Calm(t)' /\ Sound(task'[t])
    BY <1>1, <1>4 DEF Calm, Went, Sound
  <1>6. DOMAIN disk' = Items /\ \A j \in Items \ {task[t].id} : disk'[j] = disk[j]
    BY <1>3 DEF CleanInv
  <1>7. ASSUME NEW j \in Items \ taint', j = task[t].id PROVE Clean(j)'
    <2>1. left = "none" /\ Working(j) = {t}
      BY <1>3, <1>7
    <2>2. disk'[j] = "none"
      BY <1>3, <1>7, <2>1 DEF CleanInv
    <2>3. Result(t)'
      BY <1>1, <1>4, <1>7, <2>2 DEF Result, Went
    <2>4. /\ task'[t].id = j /\ task'[t].at # "end"
          /\ \A u \in Threads \ {t} : task'[u] = task[u]
      BY <1>4, <1>7 DEF Went
    <2> QED BY <1>5, <2>1, <2>3, <2>4, BusyClean
  <1>8. \A j \in Items \ {task[t].id} : j \in taint => j \in taint'
    BY <1>3
  <1> QED BY <1>1, <1>4, <1>5, <1>6, <1>7, <1>8, StepClean

(* Installing and deploying have nothing to do with the directories. *)
LEMMA InstallClean ==
    ASSUME CleanInv, TaskForm, NEW t \in Threads,
           \/ CopyFiles(t) \/ ReadSelected(t) \/ ReadRest(t) \/ SetSchemaList(t)
           \/ DeployStep(t) \/ BuildStep(t)
    PROVE  CleanInv'
  <1>1. /\ task[t].op \in {"install", "uninstall", "deploy"}
        /\ task[t].op = "deploy" => task[t].at \in {"deploy", "build"}
        /\ Alive(t) /\ Still /\ UNCHANGED diskVars
    <2>1. Sound(task[t])
      BY DEF CleanInv, OpForm
    <2>2. CASE CopyFiles(t) \/ ReadSelected(t) \/ ReadRest(t)
      BY <2>2 DEF CopyFiles, ReadSelected, ReadRest, At, Alive
    <2>3. CASE SetSchemaList(t)
      BY <2>1, <2>3 DEF SetSchemaList, Alive, Sound
    <2>4. CASE DeployStep(t) \/ BuildStep(t)
      BY <2>1, <2>4 DEF DeployStep, BuildStep, Alive, Sound
    <2> QED BY <2>2, <2>3, <2>4
  <1>2. \E a, k : /\ Went(t, a, k) /\ a # "end" /\ (a # "report" => k)
                  /\ a = "list" => task[t].op # "deploy"
    <2>1. Sound(task[t])
      BY DEF CleanInv, OpForm
    <2>2. CASE CopyFiles(t)
      <3>1. task[t].ok
        BY <2>1, <2>2 DEF CopyFiles, At, Sound
      <3>2. Fails(t) => Went(t, "report", FALSE)
        BY EndWent DEF Fails
      <3>3. Goto(t, "read") => Went(t, "read", task[t].ok)
        BY GotoWent
      <3>4. Fails(t) \/ Goto(t, "read")
        BY <2>2 DEF CopyFiles
      <3>5. CASE Fails(t)
        <4> WITNESS "report", FALSE
        <4> QED BY <3>2, <3>5
      <3>6. CASE Goto(t, "read")
        <4> WITNESS "read", task[t].ok
        <4> QED BY <3>1, <3>3, <3>6
      <3> QED BY <3>4, <3>5, <3>6
    <2>3. CASE ReadSelected(t) \/ ReadRest(t)
      <3>1. task[t].ok /\ task[t].op # "deploy"
        BY <2>1, <2>3 DEF ReadSelected, ReadRest, At, Sound
      <3>2. PICK s : task' = [task EXCEPT ![t].at = "list", ![t].ids = s]
        BY <2>3 DEF ReadSelected, ReadRest
      <3>3. Went(t, "list", task[t].ok)
        BY <3>2, ListWent
      <3> QED BY <3>1, <3>3
    <2>4. CASE SetSchemaList(t)
      <3>1. Done(t, "deploy", TRUE) \/ Done(t, "report", FALSE)
        BY <2>4 DEF SetSchemaList
      <3>2. CASE Done(t, "deploy", TRUE)
        <4>1. Went(t, "deploy", TRUE)
          BY <3>2, DoneWent
        <4> WITNESS "deploy", TRUE
        <4> QED BY <4>1
      <3>3. CASE Done(t, "report", FALSE)
        <4>1. Went(t, "report", FALSE)
          BY <3>3, DoneWent
        <4> WITNESS "report", FALSE
        <4> QED BY <4>1
      <3> QED BY <3>1, <3>2, <3>3
    <2>5. CASE DeployStep(t)
      <3>1. task[t].ok
        BY <2>1, <2>5 DEF DeployStep, Sound
      <3>2. Went(t, "build", task[t].ok)
        BY <2>5, ListWent DEF DeployStep
      <3> WITNESS "build", task[t].ok
      <3> QED BY <3>1, <3>2
    <2>6. CASE BuildStep(t)
      <3>1. PICK k \in BOOLEAN : Done(t, "report", k)
        BY <2>6 DEF BuildStep
      <3>2. Went(t, "report", k)
        BY <3>1, DoneWent
      <3> QED BY <3>2
    <2> QED BY <2>2, <2>3, <2>4, <2>5, <2>6
  <1>3. PICK a, k : /\ Went(t, a, k) /\ a # "end" /\ (a # "report" => k)
                    /\ a = "list" => task[t].op # "deploy"
    BY <1>2
  <1>4. Sound(task'[t])
    <2>1. Sound(task[t])
      BY DEF CleanInv, OpForm
    <2>2. task'[t].at = a /\ task'[t].ok = k /\ task'[t].op = task[t].op /\ task'[t].id = task[t].id
      BY <1>3 DEF Went
    <2> QED BY <1>1, <1>3, <2>1, <2>2 DEF Sound
  <1>5. task[t].op # "deploy" => Calm(t) /\ Calm(t)'
    BY <1>1, <1>3 DEF Calm, Went
  <1> QED BY <1>1, <1>3, <1>4, <1>5, CalmStep
(* A result goes to the slot: it says of its item what the page is to hold, and of the
   item of the result it replaces nothing is claimed any more. *)
LEMMA ReportClean ==
    ASSUME CleanInv, TaskForm, NEW t \in Threads, Report(t)
    PROVE  CleanInv'
  <1>1. /\ task[t].at = "report" /\ UNCHANGED <<kind, page, disk>>
        /\ task[t].id = None => UNCHANGED <<slot, taint>>
        /\ task[t].id # None =>
              /\ slot' = [op |-> task[t].op, id |-> task[t].id, ok |-> task[t].ok]
              /\ taint' = IF slot = NoResult THEN taint ELSE taint \cup {slot.id}
    BY DEF Report, pageVars
  <1>2. task'[t] = NoTask /\ \A u \in Threads \ {t} : task'[u] = task[u]
    BY DEF Report, TaskForm
  <1>3. task'[t].at = "end" /\ Sound(NoTask)
    BY <1>2 DEF NoTask, Sound
  <1>4. OpForm'
    BY <1>2, <1>3 DEF CleanInv, OpForm
  <1>5. Items' = Items /\ DOMAIN disk' = Items /\ t \in Working(task[t].id)
    BY <1>1 DEF Items, CleanInv, Working, Alive
  <1>6. slot = NoResult => slot.id = None
    BY DEF NoResult
  <1>7. ASSUME NEW j \in Items \ taint', j # task[t].id PROVE Clean(j)'
    <2>1. j \notin taint /\ Clean(j)
      BY <1>1, <1>7 DEF CleanInv
    <2>2. \A u \in Threads : u \in Working(j) \/ (u \in Working(j))' => task'[u] = task[u]
      BY <1>2, <1>3, <1>7 DEF Working, Alive
    <2>3. slot' = slot \/ (slot.id # j /\ slot'.id # j)
      BY <1>1, <1>6, <1>7, ItemNotNone
    <2> QED BY <1>1, <2>1, <2>2, <2>3, SameClean
  <1>8. ASSUME NEW j \in Items \ taint', j = task[t].id PROVE Clean(j)'
    <2>1. /\ j # None /\ j \notin taint /\ Clean(j) /\ slot.id # j
          /\ slot'.op = task[t].op /\ slot'.id = j /\ slot'.ok = task[t].ok
      BY <1>1, <1>6, <1>8, ItemNotNone DEF CleanInv
    <2>2. \A u \in Working(j) : u = t
      BY <1>5, <1>8, <2>1 DEF Clean, Alone
    <2>3. ~\E u : (u \in Working(j))'
      <3> SUFFICES ASSUME NEW u \in Threads, task'[u].at # "end", task'[u].id = j PROVE FALSE
        BY DEF Working, Alive
      <3>1. u # t
        BY <1>3
      <3>2. u \in Working(j)
        BY <1>2, <3>1 DEF Working, Alive
      <3> QED BY <2>2, <3>1, <3>2
    <2>4. /\ ~Said(j, "download") /\ ~Said(j, "delete")
          /\ \A op : Said(j, op)' <=> task[t].ok /\ task[t].op = op
      BY <2>1 DEF Said
    <2>5. Settled(j)'
      <3>1. Sound(task[t]) /\ Result(t)
        BY <1>5, <1>8, <2>1 DEF CleanInv, OpForm, Clean
      <3>2. CASE Calm(t) /\ (task[t].op = "download" => ~task[t].ok) /\ task[t].op # "delete"
        <4>1. Settled(j)
          BY <2>1, <2>2, <3>2 DEF Clean
        <4>2. ~Said(j, "download")' /\ ~Said(j, "delete")'
          BY <2>4, <3>2
        <4>3. Expected(j)' <=> Expected(j)
          BY <1>1, <2>4, <4>2 DEF Expected
        <4> QED BY <1>1, <2>4, <4>1, <4>2, <4>3 DEF Settled
      <3>3. CASE task[t].op = "download" /\ task[t].ok
        <4>1. disk[j] = "whole" /\ Said(j, "download")' /\ ~Said(j, "delete")'
          BY <1>1, <1>8, <2>4, <3>1, <3>3 DEF Result
        <4> QED BY <1>1, <4>1 DEF Settled, Expected
      <3>4. CASE task[t].op = "delete"
        <4>1. disk[j] = "none" /\ ~Said(j, "download")' /\ Said(j, "delete")'
          BY <1>1, <1>8, <2>4, <3>1, <3>4 DEF Result, Sound
        <4> QED BY <1>1, <4>1 DEF Settled, Expected
      <3>5. task[t].op \in {"download", "delete", "install", "uninstall"}
        BY <1>1, <1>8, <2>1, <3>1 DEF Sound
      <3> QED BY <1>1, <3>2, <3>3, <3>4, <3>5 DEF Calm
    <2> QED BY <2>3, <2>5 DEF Clean, Alone
  <1> QED BY <1>4, <1>5, <1>7, <1>8 DEF CleanInv

(* A new thread has done nothing yet; where it is not the only one, nothing is claimed. *)
LEMMA SpawnClean ==
    ASSUME CleanInv, TaskInv, NEW op, NEW i, NEW first, Spawn(op, i, first),
           \/ op \in {"install", "uninstall"} /\ first \in {"copy", "read"}
           \/ op = "download" /\ first = "mkdir"
           \/ op = "delete" /\ first = "remove"
           \/ op = "deploy" /\ first = "deploy" /\ i = None,
           page'.loaded = page.loaded, page'.got = page.got
    PROVE  CleanInv'
  <1> DEFINE new == [op |-> op, id |-> i, at |-> first, ok |-> TRUE, ids |-> <<>>]
  <1>1. PICK t : t = started + 1
    OBVIOUS
  <1>2. /\ task' = [task EXCEPT ![t] = new] /\ UNCHANGED <<kind, slot, disk>>
        /\ taint' = IF i # None /\ Working(i) # {} THEN taint \cup {i} ELSE taint
    BY <1>1 DEF Spawn, slotVars
  <1>3. t \in Threads /\ ~Alive(t)
    <2>1. started \in 0..MaxTasks /\ started < MaxTasks
      BY DEF Spawn, TaskInv, Fresh
    <2>2. t \in 1..MaxTasks /\ t > started
      BY <1>1, <2>1, BoundsAssumption
    <2> QED BY <2>2 DEF TaskInv, Fresh, Threads
  <1>4. /\ new.op = op /\ new.id = i /\ new.at = first /\ new.ok = TRUE
    OBVIOUS
  <1>5. task'[t] = new /\ \A u \in Threads \ {t} : task'[u] = task[u]
    BY <1>2, <1>3 DEF TaskInv, TaskForm
  <1> HIDE DEF new
  <1>6. Sound(task'[t]) /\ task'[t].at # "end"
    BY <1>4, <1>5 DEF Sound
  <1>7. OpForm' /\ Items' = Items /\ DOMAIN disk' = Items
    BY <1>2, <1>5, <1>6 DEF CleanInv, OpForm, Items
  <1>8. ASSUME NEW j \in Items \ taint', j # i PROVE Clean(j)'
    <2>1. Clean(j)
      BY <1>2, <1>8 DEF CleanInv
    <2>2. \A u \in Threads : u \in Working(j) \/ (u \in Working(j))' => task'[u] = task[u]
      BY <1>3, <1>4, <1>5, <1>8 DEF Working, Alive
    <2> QED BY <1>2, <2>1, <2>2, SameClean
  <1>9. ASSUME NEW j \in Items \ taint', j = i PROVE Clean(j)'
    <2>1. j # None /\ Working(j) = {} /\ Clean(j)
      BY <1>2, <1>9, ItemNotNone DEF CleanInv
    <2>2. ASSUME NEW u, (u \in Working(j))' PROVE u = t
      <3>1. u \in Threads /\ task'[u].at # "end" /\ task'[u].id = j
        BY <2>2 DEF Working, Alive
      <3>2. u # t => u \in Working(j)
        BY <1>5, <3>1 DEF Working, Alive
      <3> QED BY <2>1, <3>2
    <2>3. Settled(j)'
      <3>1. Settled(j)
        BY <2>1 DEF Clean
      <3> QED BY <1>2, <3>1 DEF Settled, Expected, Said
    <2>4. Result(t)'
      BY <1>4, <1>5, <1>9, <2>1 DEF Result
    <2> QED BY <2>2, <2>3, <2>4 DEF Clean, Alone
  <1> QED BY <1>7, <1>8, <1>9 DEF CleanInv

LEMMA BeginClean ==
    ASSUME CleanInv, TaskInv, PageForm, NEW i,
           \/ DownloadMarketSchema(i) \/ DownloadMarketModel(i) \/ DeleteMarketModel(i)
           \/ InstallMarketSchema(i) \/ UninstallMarketSchema(i)
    PROVE  CleanInv'
  <1>1. \/ page' = page
        \/ page' = [page EXCEPT !.busy = i]
    BY DEF DownloadMarketSchema, DownloadMarketModel, DeleteMarketModel, InstallMarketSchema,
           UninstallMarketSchema
  <1>2. page'.loaded = page.loaded /\ page'.got = page.got
    BY <1>1 DEF PageForm
  <1>3. CASE DownloadMarketSchema(i) \/ DownloadMarketModel(i)
    <2>1. Spawn("download", i, "mkdir")
      BY <1>3 DEF DownloadMarketSchema, DownloadMarketModel
    <2> QED BY <1>2, <2>1, SpawnClean
  <1>4. CASE DeleteMarketModel(i)
    <2>1. Spawn("delete", i, "remove")
      BY <1>4 DEF DeleteMarketModel
    <2> QED BY <1>2, <2>1, SpawnClean
  <1>5. CASE InstallMarketSchema(i)
    <2>1. Spawn("install", i, "copy")
      BY <1>5 DEF InstallMarketSchema
    <2> QED BY <1>2, <2>1, SpawnClean
  <1>6. CASE UninstallMarketSchema(i)
    <2>1. Spawn("uninstall", i, "read")
      BY <1>6 DEF UninstallMarketSchema
    <2> QED BY <1>2, <2>1, SpawnClean
  <1> QED BY <1>3, <1>4, <1>5, <1>6

(* The page takes the index, for which any directory will do, and then the result. *)
LEMMA PollGot ==
    ASSUME PageForm, NEW i
    PROVE  LET q == PollTask(PollIndex) IN
           /\ q.loaded = PollIndex.loaded
           /\ i \in q.got <=>
                 Said(i, "download") \/ (i \in PollIndex.got /\ ~Said(i, "delete"))
           /\ PollIndex.got = IF Taken /\ index # Bad THEN ScanDirIds ELSE page.got
           /\ PollIndex.loaded => page.loaded \/ (Taken /\ index # Bad)
  <1> DEFINE p == PollIndex
             q == PollTask(p)
  <1>1. /\ p.got = IF Taken /\ index # Bad THEN ScanDirIds ELSE page.got
        /\ p.loaded => page.loaded \/ (Taken /\ index # Bad)
    <2>1. CASE Taken /\ index # Bad
      BY <2>1 DEF PollIndex, PageForm
    <2>2. CASE ~(Taken /\ index # Bad)
      <3>1. p = [page EXCEPT !.loading = page.loading /\ ~Taken]
        BY <2>2 DEF PollIndex
      <3> QED BY <2>2, <3>1 DEF PageForm
    <2> QED BY <2>1, <2>2
  <1>2. p = [loading |-> p.loading, loaded |-> p.loaded, shown |-> p.shown,
             got |-> p.got, busy |-> p.busy]
    BY PollIndexPage
  <1> HIDE DEF p
  <1>3. q.loaded = p.loaded /\ (i \in q.got <=> Said(i, "download") \/ (i \in p.got /\ ~Said(i, "delete")))
    <2>1. CASE slot = NoResult
      <3>1. ~Said(i, "download") /\ ~Said(i, "delete")
        BY <2>1 DEF Said, NoResult
      <3> QED BY <2>1, <3>1 DEF PollTask
    <2>2. CASE slot # NoResult
      <3>1. q.loaded = p.loaded
            /\ q.got = IF slot.ok /\ slot.op = "download" THEN p.got \cup {slot.id}
                       ELSE IF slot.ok /\ slot.op = "delete" THEN p.got \ {slot.id} ELSE p.got
        BY <1>2, <2>2 DEF PollTask
      <3> HIDE DEF q
      <3>2. CASE slot.ok /\ slot.op = "download"
        BY <3>1, <3>2 DEF Said
      <3>3. CASE slot.ok /\ slot.op = "delete"
        BY <3>1, <3>3 DEF Said
      <3>4. CASE ~(slot.ok /\ slot.op \in {"download", "delete"})
        BY <3>1, <3>4 DEF Said
      <3> QED BY <3>1, <3>2, <3>3, <3>4
    <2> QED BY <2>1, <2>2
  <1> QED BY <1>1, <1>3 DEF p

LEMMA PollClean ==
    ASSUME CleanInv, PageForm, PollBackground
    PROVE  CleanInv'
  <1>1. /\ page' = PollTask(PollIndex) /\ slot' = NoResult
        /\ UNCHANGED <<kind, task, disk, taint>>
    BY DEF PollBackground, diskVars
  <1>2. OpForm' /\ Items' = Items /\ DOMAIN disk' = Items
    BY <1>1 DEF CleanInv, OpForm, Items
  <1>3. ASSUME NEW j \in Items \ taint' PROVE Clean(j)'
    <2>1. Clean(j)
      BY <1>1, <1>3 DEF CleanInv
    <2>2. Working(j)' = Working(j)
      BY <1>1 DEF Working, Alive
    <2>3. \A u \in Working(j) : (Calm(u)' <=> Calm(u)) /\ (Result(u) => Result(u)')
      BY <1>1 DEF Calm, Result
    <2>4. ASSUME Settled(j) PROVE Settled(j)'
      <3>1. ~Said(j, "download")' /\ ~Said(j, "delete")'
        BY <1>1 DEF Said, NoResult
      <3>2. /\ page'.loaded = PollIndex.loaded
            /\ j \in page'.got <=>
                  Said(j, "download") \/ (j \in PollIndex.got /\ ~Said(j, "delete"))
        BY <1>1, PollGot
      <3>3. ASSUME page'.loaded PROVE j \in page'.got <=> disk[j] = "whole"
        <4>1. CASE Taken /\ index # Bad
          <5>1. j \in PollIndex.got <=> disk[j] # "none"
            BY <1>3, <4>1, PollGot DEF ScanDirIds
          <5> QED BY <2>4, <3>2, <5>1 DEF Settled
        <4>2. CASE ~(Taken /\ index # Bad)
          <5>1. page.loaded /\ PollIndex.got = page.got
            BY <3>2, <3>3, <4>2, PollGot
          <5> QED BY <2>4, <3>2, <5>1 DEF Settled, Expected
        <4> QED BY <4>1, <4>2
      <3> QED BY <1>1, <2>4, <3>1, <3>3 DEF Settled, Expected
    <2> QED BY <2>1, <2>2, <2>3, <2>4 DEF Clean, Alone
  <1> QED BY <1>2, <1>3 DEF CleanInv

(* What the process was in the middle of when it ended is not claimed. *)
LEMMA ReopenClean ==
    ASSUME CleanInv, Reopen
    PROVE  CleanInv'
  <1>1. /\ page' = Loading /\ slot' = NoResult /\ task' = [t \in Threads |-> NoTask]
        /\ taint' = taint \cup {i \in Items : Working(i) # {}} /\ UNCHANGED <<kind, disk>>
    BY DEF Reopen, Opened
  <1>2. \A t \in Threads : task'[t] = NoTask
    BY <1>1
  <1>3. Sound(NoTask) /\ NoTask.at = "end"
    BY DEF NoTask, Sound
  <1>4. OpForm' /\ Items' = Items /\ DOMAIN disk' = Items
    BY <1>1, <1>2, <1>3 DEF CleanInv, OpForm, Items
  <1>5. ASSUME NEW j \in Items \ taint' PROVE Clean(j)'
    <2>1. Working(j) = {} /\ Clean(j)
      BY <1>1, <1>5 DEF CleanInv
    <2>2. Working(j)' = {}
      BY <1>2, <1>3 DEF Working, Alive
    <2>3. ~page'.loaded /\ ~Said(j, "download")' /\ ~Said(j, "delete")'
      BY <1>1 DEF Loading, Said, NoResult
    <2>4. Settled(j)'
      BY <1>1, <2>1, <2>3 DEF Clean, Settled
    <2> QED BY <2>2, <2>4 DEF Clean, Alone
  <1> QED BY <1>4, <1>5 DEF CleanInv

LEMMA NextClean == CleanInv /\ LoadInv /\ TaskInv /\ [Next]_vars => CleanInv'
  <1> SUFFICES ASSUME CleanInv, LoadInv, TaskInv, [Next]_vars PROVE CleanInv'
    OBVIOUS
  <1>1. PageForm /\ TaskForm
    BY DEF LoadInv, TaskInv
  <1>2. ASSUME NEW n, Answer(n) PROVE CleanInv'
    BY <1>2, NothingClean DEF Answer, pageVars, diskVars
  <1>3. CASE Refresh
    <2>1. /\ page' = [page EXCEPT !.loading = TRUE, !.loaded = FALSE]
          /\ UNCHANGED <<kind, task, disk, taint, slot>>
      BY <1>3 DEF Refresh, slotVars, diskVars
    <2>2. ~page'.loaded /\ page'.got = page.got
      BY <1>1, <2>1 DEF PageForm
    <2> QED BY <2>1, <2>2, NothingClean
  <1>4. CASE PollBackground
    BY <1>1, <1>4, PollClean
  <1>5. CASE Reopen
    BY <1>5, ReopenClean
  <1>6. ASSUME NEW i, \/ DownloadMarketSchema(i) \/ DownloadMarketModel(i)
                      \/ DeleteMarketModel(i) \/ InstallMarketSchema(i)
                      \/ UninstallMarketSchema(i)
        PROVE  CleanInv'
    BY <1>1, <1>6, BeginClean
  <1>7. CASE StartDeploy
    <2>1. Spawn("deploy", None, "deploy") /\ page' = page
      BY <1>7 DEF StartDeploy
    <2> QED BY <2>1, SpawnClean
  <1>8. ASSUME NEW i, SaveSchema(i) \/ SaveSchemaList \/ SaveSchemaDeploy \/ SaveSchemaBuild
        PROVE  CleanInv'
    BY <1>8, NothingClean
    DEF SaveSchema, SaveSchemaList, SaveSchemaDeploy, SaveSchemaBuild, pageVars, slotVars, diskVars
  <1>11. CASE ServerDeploys \/ ServerBuilds
    BY <1>11, NothingClean DEF ServerDeploys, ServerBuilds, pageVars, slotVars, diskVars
  <1>9. ASSUME NEW t \in Threads, ThreadStep(t) PROVE CleanInv'
    BY <1>1, <1>9, MkdirClean, CreateClean, WriteClean, RemoveClean, InstallClean, ReportClean
    DEF ThreadStep
  <1>10. CASE UNCHANGED vars
    BY <1>10, NothingClean DEF vars, pageVars, slotVars, diskVars
  <1> QED
    BY <1>2, <1>3, <1>4, <1>5, <1>6, <1>7, <1>8, <1>9, <1>10, <1>11 DEF Next

LEMMA InitClean == Init => CleanInv
  <1> SUFFICES ASSUME Init PROVE CleanInv
    OBVIOUS
  <1>1. /\ page = Loading /\ slot = NoResult /\ task = [t \in Threads |-> NoTask]
        /\ disk \in [Items -> {"none", "whole"}] /\ taint = {}
    BY DEF Init
  <1>2. \A t \in Threads : task[t] = NoTask
    BY <1>1
  <1>3. Sound(NoTask) /\ NoTask.at = "end"
    BY DEF NoTask, Sound
  <1>4. \A i : Working(i) = {}
    BY <1>2, <1>3 DEF Working, Alive
  <1>5. ~page.loaded /\ \A i : ~Said(i, "download") /\ ~Said(i, "delete")
    BY <1>1 DEF Loading, Said, NoResult
  <1>6. \A i \in Items : Clean(i)
    BY <1>1, <1>4, <1>5 DEF Clean, Alone, Settled
  <1> QED BY <1>1, <1>2, <1>3, <1>6 DEF CleanInv, OpForm

(* With nothing under way for an item, the page that has loaded calls it downloaded
   exactly when it is on the disk in full, for every item whose last operation went
   through undisturbed and whose result the page has taken. *)
THEOREM PageMatchesDiskAlways == Spec => []PageMatchesDisk
  <1>1. CleanInv => PageMatchesDisk
    <2> SUFFICES ASSUME CleanInv, page.loaded, slot = NoResult, NEW i \in Items \ taint,
                        Working(i) = {}
                 PROVE  i \in page.got <=> disk[i] = "whole"
      BY DEF PageMatchesDisk
    <2>1. Settled(i)
      BY DEF CleanInv, Clean
    <2>2. ~Said(i, "download") /\ ~Said(i, "delete")
      BY DEF Said, NoResult
    <2> QED BY <2>1, <2>2 DEF Settled, Expected
  <1> QED BY <1>1, InitLoads, NextLoads, InitTasks, NextTasks, InitClean, NextClean, PTL DEF Spec

-----------------------------------------------------------------------------
(* The types. *)

Ops == {"none", "download", "delete", "install", "uninstall", "deploy"}
Places == {"mkdir", "create", "write", "remove", "copy", "read", "list", "deploy", "build",
           "report", "end"}
Task == [op : Ops, id : Items \cup {None}, at : Places, ok : BOOLEAN, ids : Seq(Ids)]
Page == [loading : BOOLEAN, loaded : BOOLEAN, shown : 0..MaxLoads,
         got : SUBSET Items, busy : Items \cup {None}]
Outcome == [op : Ops \ {"deploy"}, id : Items \cup {None}, ok : BOOLEAN]

(* What is loaded, deleted or installed is an item, what is installed a schema, and a
   deployment is about no item. *)
Fits(r) ==
    /\ r.op \in {"download", "delete", "install", "uninstall"} => r.id \in Items
    /\ r.op \in {"install", "uninstall"} => r.id \in Schemas
    /\ r.op \in {"none", "deploy"} => r.id = None

CountType == loads \in 1..MaxLoads /\ started \in 0..MaxTasks /\ kind \in Kinds /\ crossed \in BOOLEAN
PageType ==
    /\ page \in Page /\ have \subseteq Ids /\ installing \in Schemas \cup {None}
    /\ choice \subseteq Ids
UiType ==
    /\ ui \in [at : {"idle", "list", "deploy", "build"}, id : Ids \cup {None}, ids : Seq(Ids)]
    /\ ui.at = "list" => ui.id \in Ids
IndexType == fetch \subseteq 1..MaxLoads /\ index \in 0..MaxLoads + 1
SlotType ==
    /\ slot \in Outcome /\ Fits(slot) /\ deploySlot \in BOOLEAN
    /\ slot = NoResult \/ slot.op # "none"
TaskType == task \in [Threads -> Task] /\ \A t \in Threads : Fits(task[t])
DiskType ==
    /\ disk \in [Items -> {"none", "dir", "part", "whole"}] /\ last \in [Items -> 0..MaxTasks]
    /\ taint \subseteq Items
ListType ==
    /\ files \subseteq Schemas /\ list \in Seq(Ids) /\ deployed \in Seq(Ids)
    /\ doubt \in BOOLEAN /\ reload \in [busy : BOOLEAN, ids : Seq(Ids)]

TypeInv ==
    /\ CountType /\ PageType /\ UiType /\ IndexType /\ SlotType /\ TaskType /\ DiskType /\ ListType

(* What an action leaves alone keeps its type. *)
LEMMA KeepsTypes ==
    ASSUME TypeInv, UNCHANGED kind
    PROVE  /\ Items' = Items /\ Page' = Page /\ Task' = Task /\ Outcome' = Outcome
           /\ \A r : Fits(r)' <=> Fits(r)
           /\ UNCHANGED <<started, loads, crossed>> => CountType'
           /\ UNCHANGED <<page, have, installing, choice>> => PageType'
           /\ UNCHANGED ui => UiType'
           /\ UNCHANGED <<fetch, index>> => IndexType'
           /\ UNCHANGED <<slot, deploySlot>> => SlotType'
           /\ UNCHANGED task => TaskType'
           /\ UNCHANGED <<disk, last, taint>> => DiskType'
           /\ UNCHANGED <<files, list, deployed, doubt, reload>> => ListType'
  <1>1. Items' = Items /\ Page' = Page /\ Task' = Task /\ Outcome' = Outcome
    <2>1. Items' = Items
      BY DEF Items
    <2> QED BY <2>1 DEF Page, Task, Outcome
  <1>2. \A r : Fits(r)' <=> Fits(r)
    BY <1>1 DEF Fits
  <1>3. UNCHANGED <<started, loads, crossed>> => CountType'
    BY DEF TypeInv, CountType
  <1>4. UNCHANGED <<page, have, installing, choice>> => PageType'
    BY <1>1 DEF TypeInv, PageType
  <1>5. UNCHANGED ui => UiType'
    BY DEF TypeInv, UiType
  <1>6. UNCHANGED <<fetch, index>> => IndexType'
    BY DEF TypeInv, IndexType
  <1>7. UNCHANGED <<slot, deploySlot>> => SlotType'
    BY <1>1, <1>2 DEF TypeInv, SlotType
  <1>8. UNCHANGED task => TaskType'
    BY <1>1, <1>2 DEF TypeInv, TaskType
  <1>9. UNCHANGED <<disk, last, taint>> => DiskType'
    BY <1>1 DEF TypeInv, DiskType
  <1>10. UNCHANGED <<files, list, deployed, doubt, reload>> => ListType'
    BY DEF TypeInv, ListType
  <1> QED BY <1>1, <1>2, <1>3, <1>4, <1>5, <1>6, <1>7, <1>8, <1>9, <1>10

-----------------------------------------------------------------------------
(* Lists. *)

(* A finite set written out as a list. *)
LEMMA SetToSeqType ==
    ASSUME NEW S, IsFiniteSet(S)
    PROVE  SetToSeq(S) \in Seq(S)
  <1>1. Cardinality(S) \in Nat /\ ExistsBijection(1..Cardinality(S), S)
    BY FS_CardinalityType
  <1>2. PICK f \in [1..Cardinality(S) -> S] : IsInjective(f)
    BY <1>1 DEF ExistsBijection, Bijection, Injection
  <1>3. SetToSeq(S) \in [1..Cardinality(S) -> S]
    BY <1>2 DEF SetToSeq
  <1> QED BY <1>1, <1>3

LEMMA ChoiceType ==
    ASSUME choice \subseteq Ids
    PROVE  SetToSeq(choice) \in Seq(Ids)
  <1>1. IsFiniteSet(Ids)
    BY FiniteAssumption, FS_AddElement DEF Ids
  <1>2. IsFiniteSet(choice)
    BY <1>1, FS_Subset
  <1>3. SetToSeq(choice) \in Seq(choice)
    BY <1>2, SetToSeqType
  <1> QED BY <1>3

(* What ids.retain leaves is a list of the same ids. *)
LEMMA RetainedType ==
    ASSUME NEW S, NEW ids \in Seq(S), NEW i, NEW rest \in Retained(ids, i)
    PROVE  rest \in Seq(S)
  <1> DEFINE n == Cardinality(Others(ids, i))
  <1>1. PICK p \in [1..n -> Others(ids, i)] : rest = [k \in DOMAIN p |-> ids[p[k]]]
    BY DEF Retained
  <1>2. n \in Nat
    <2>1. Others(ids, i) \subseteq 1..Len(ids) /\ Len(ids) \in Nat
      BY DEF Others
    <2>2. IsFiniteSet(1..Len(ids))
      BY <2>1, FS_Interval
    <2>3. IsFiniteSet(Others(ids, i))
      BY <2>1, <2>2, FS_Subset
    <2> QED BY <2>3, FS_CardinalityType
  <1> HIDE DEF n
  <1>3. \A k \in 1..n : ids[p[k]] \in S
    <2>1. \A k \in 1..n : p[k] \in 1..Len(ids)
      BY DEF Others
    <2> QED BY <2>1
  <1>4. rest \in [1..n -> S]
    BY <1>1, <1>3
  <1> QED BY <1>2, <1>4

LEMMA HeadType ==
    ASSUME NEW S, NEW s \in Seq(S), s # <<>>
    PROVE  Head(s) \in S
  OBVIOUS

LEMMA ConcatType ==
    ASSUME NEW S, NEW s \in Seq(S), NEW r \in Seq(S)
    PROVE  s \o r \in Seq(S)
  OBVIOUS

LEMMA SingleType ==
    ASSUME NEW S, NEW x \in S
    PROVE  <<x>> \in Seq(S)
  OBVIOUS

LEMMA EmptyType ==
    ASSUME NEW S
    PROVE  <<>> \in Seq(S)
  OBVIOUS

-----------------------------------------------------------------------------
(* The types, action by action. *)

LEMMA NoneTypes == Fits(NoTask) /\ NoTask \in Task /\ Fits(NoResult) /\ NoResult \in Outcome
  <1>1. <<>> \in Seq(Ids)
    BY EmptyType
  <1> QED BY <1>1 DEF NoTask, NoResult, Fits, Task, Outcome, Ops, Places

LEMMA LoadingType == Loading \in Page
  <1>1. 0 \in 0..MaxLoads
    BY BoundsAssumption
  <1> QED BY <1>1 DEF Loading, Page

LEMMA InitTypes == Init => TypeInv
  <1> SUFFICES ASSUME Init PROVE TypeInv
    OBVIOUS
  <1>1. CountType
    <2>1. loads = 1 /\ started = 0 /\ kind \in Kinds /\ crossed \in BOOLEAN
      BY DEF Init
    <2> QED BY <2>1, BoundsAssumption DEF CountType
  <1>2. PageType
    BY LoadingType DEF Init, PageType, Ids
  <1>3. UiType
    BY EmptyType DEF Init, UiType, NoUi
  <1>4. IndexType
    BY BoundsAssumption DEF Init, IndexType, Empty
  <1>5. SlotType
    BY NoneTypes DEF Init, SlotType
  <1>6. TaskType
    <2>1. task = [t \in Threads |-> NoTask]
      BY DEF Init
    <2> QED BY <2>1, NoneTypes DEF TaskType
  <1>7. DiskType
    <2>1. /\ disk \in [Items -> {"none", "whole"}] /\ last = [i \in Items |-> 0] /\ taint = {}
          /\ 0 \in 0..MaxTasks
      BY BoundsAssumption DEF Init
    <2> QED BY <2>1 DEF DiskType
  <1>8. ListType
    <2>1. <<>> \in Seq(Ids) /\ <<Base>> \in Seq(Ids)
      BY EmptyType, SingleType DEF Ids
    <2>2. /\ files \subseteq Schemas /\ doubt = FALSE /\ deployed = list
          /\ list = <<>> \/ list = <<Base>>
      BY DEF Init
    <2>3. reload \in [busy : BOOLEAN, ids : Seq(Ids)]
      BY EmptyType DEF Init, NoReload
    <2> QED BY <2>1, <2>2, <2>3 DEF ListType
  <1> QED BY <1>1, <1>2, <1>3, <1>4, <1>5, <1>6, <1>7, <1>8 DEF TypeInv

LEMMA AnswerTypes ==
    ASSUME TypeInv, NEW n \in 1..MaxLoads, Answer(n)
    PROVE  TypeInv'
  <1>1. /\ UNCHANGED <<kind, page, have, installing, choice, ui, slot, deploySlot, task, started,
                       loads, crossed, disk, last, taint, files, list, deployed, doubt, reload>>
        /\ fetch' = fetch \ {n} /\ index' \in {Bad, n}
    BY DEF Answer, pageVars, diskVars, listVars
  <1>2. IndexType'
    BY <1>1, BoundsAssumption DEF TypeInv, IndexType, Bad
  <1> QED BY <1>1, <1>2, KeepsTypes DEF TypeInv

LEMMA RefreshTypes ==
    ASSUME TypeInv, Refresh
    PROVE  TypeInv'
  <1>1. /\ UNCHANGED <<kind, have, installing, choice, ui, slot, deploySlot, index, task, started,
                       disk, last, taint, files, list, deployed, doubt, reload>>
        /\ loads < MaxLoads /\ loads' = loads + 1
        /\ page' = [page EXCEPT !.loading = TRUE, !.loaded = FALSE]
        /\ fetch' = {loads'} \cup fetch /\ crossed' \in BOOLEAN
    BY DEF Refresh, StartLoad, slotVars, diskVars, listVars
  <1>2. loads' \in 1..MaxLoads
    BY <1>1, BoundsAssumption DEF TypeInv, CountType
  <1>3. CountType' /\ IndexType'
    BY <1>1, <1>2 DEF TypeInv, CountType, IndexType
  <1>4. page' \in Page
    BY <1>1 DEF TypeInv, PageType, Page
  <1>5. PageType'
    BY <1>1, <1>4, KeepsTypes DEF TypeInv, PageType
  <1> QED BY <1>1, <1>3, <1>5, KeepsTypes DEF TypeInv

LEMMA PollIndexType ==
    ASSUME TypeInv
    PROVE  PollIndex \in Page
  <1>1. page \in Page /\ index \in 0..MaxLoads + 1 /\ ScanDirIds \subseteq Items
    BY DEF TypeInv, PageType, IndexType, ScanDirIds
  <1>2. CASE Taken /\ index # Bad
    <2>1. index \in 0..MaxLoads
      BY <1>1, <1>2, BoundsAssumption DEF Bad
    <2> HIDE DEF ScanDirIds
    <2>2. [page EXCEPT !.loading = FALSE, !.loaded = TRUE, !.shown = index, !.got = ScanDirIds] \in Page
      BY <1>1, <2>1 DEF Page
    <2> QED BY <1>2, <2>2 DEF PollIndex
  <1>3. CASE ~(Taken /\ index # Bad)
    <2>1. PICK b \in BOOLEAN : b = (page.loading /\ ~Taken)
      OBVIOUS
    <2>2. PollIndex = [page EXCEPT !.loading = b]
      BY <1>3, <2>1 DEF PollIndex
    <2> QED BY <1>1, <2>2 DEF Page
  <1> QED BY <1>2, <1>3

LEMMA PollTaskType ==
    ASSUME TypeInv, NEW p \in Page
    PROVE  PollTask(p) \in Page
  <1>1. slot \in Outcome /\ Fits(slot)
    BY DEF TypeInv, SlotType
  <1>2. CASE slot = NoResult
    BY <1>2 DEF PollTask
  <1>3. CASE slot # NoResult
    <2>1. \A g \in SUBSET Items : [p EXCEPT !.busy = None, !.got = g] \in Page
      BY DEF Page
    <2>2. p.got \subseteq Items
      BY DEF Page
    <2>3. slot.op \in {"download", "delete"} => slot.id \in Items
      BY <1>1 DEF Fits
    <2> DEFINE g == IF slot.ok /\ slot.op = "download" THEN p.got \cup {slot.id}
                    ELSE IF slot.ok /\ slot.op = "delete" THEN p.got \ {slot.id} ELSE p.got
    <2>4. g \in SUBSET Items
      BY <2>2, <2>3
    <2>5. PollTask(p) = [p EXCEPT !.busy = None, !.got = g]
      BY <1>3 DEF PollTask
    <2> HIDE DEF g
    <2> QED BY <2>1, <2>4, <2>5
  <1> QED BY <1>2, <1>3

LEMMA PollTypes ==
    ASSUME TypeInv, PollBackground
    PROVE  TypeInv'
  <1> DEFINE h == IF kind = "schema" /\ Taken /\ index # Bad THEN GetSchemaList ELSE have
  <1>1. /\ UNCHANGED <<kind, choice, ui, task, started, fetch, loads, crossed, disk, last, taint,
                       files, list, deployed, doubt, reload>>
        /\ page' = PollTask(PollIndex) /\ have' = PollInstalled(h)
        /\ installing' = IF slot # NoResult THEN None ELSE installing
        /\ index' = IF Taken THEN Empty ELSE index
        /\ slot' = NoResult /\ deploySlot' = FALSE
    BY DEF PollBackground, PollDeploy, loadVars, diskVars, listVars
  <1>2. page' \in Page
    BY <1>1, PollIndexType, PollTaskType
  <1>3. h \subseteq Ids
    BY DEF TypeInv, PageType, ListType, GetSchemaList, Ids
  <1> HIDE DEF h
  <1>4. have' \subseteq Ids
    <2>1. slot.op \in {"install", "uninstall"} => slot.id \in Ids
      BY DEF TypeInv, SlotType, Fits, Ids
    <2> QED BY <1>1, <1>3, <2>1 DEF PollInstalled
  <1>5. PageType'
    <2>1. installing' \in Schemas \cup {None} /\ choice' \subseteq Ids
      BY <1>1 DEF TypeInv, PageType
    <2> QED BY <1>1, <1>2, <1>4, <2>1, KeepsTypes DEF PageType
  <1>6. IndexType'
    BY <1>1, BoundsAssumption DEF TypeInv, IndexType, Empty
  <1>7. SlotType'
    BY <1>1, NoneTypes, KeepsTypes DEF SlotType
  <1> QED BY <1>1, <1>5, <1>6, <1>7, KeepsTypes DEF TypeInv

(* A thread's record is replaced by another. *)
LEMMA TaskSet ==
    ASSUME TaskType, UNCHANGED kind, NEW t \in Threads, NEW r \in Task, Fits(r),
           task' = [task EXCEPT ![t] = r]
    PROVE  TaskType'
  <1>1. Items' = Items
    BY DEF Items
  <1>2. Task' = Task /\ \A q : Fits(q)' <=> Fits(q)
    BY <1>1 DEF Task, Fits
  <1>3. task' \in [Threads -> Task] /\ \A u \in Threads : task'[u] = IF u = t THEN r ELSE task[u]
    BY DEF TaskType
  <1>4. \A u \in Threads : Fits(task'[u])
    BY <1>3 DEF TaskType
  <1> QED BY <1>2, <1>3, <1>4 DEF TaskType

LEMMA SpawnTypes ==
    ASSUME TypeInv, NEW op \in Ops, NEW i, NEW first \in Places, Spawn(op, i, first),
           i \in Items \cup {None}, Fits([op |-> op, id |-> i]),
           PageType'
    PROVE  TypeInv'
  <1> DEFINE new == [op |-> op, id |-> i, at |-> first, ok |-> TRUE, ids |-> <<>>]
  <1>1. /\ UNCHANGED <<kind, ui, slot, deploySlot, index, fetch, loads, crossed, disk, last,
                       files, list, deployed, doubt, reload>>
        /\ started < MaxTasks /\ started' = started + 1
        /\ task' = [task EXCEPT ![started + 1] = new]
        /\ taint' = IF i # None /\ Working(i) # {} THEN taint \cup {i} ELSE taint
    BY DEF Spawn, slotVars, loadVars, listVars
  <1>2. new \in Task /\ Fits(new)
    BY EmptyType DEF Task, Fits
  <1> HIDE DEF new
  <1>3. CountType' /\ started + 1 \in Threads
    BY <1>1, BoundsAssumption DEF TypeInv, CountType, Threads
  <1>4. TaskType'
    BY <1>1, <1>2, <1>3, TaskSet DEF TypeInv
  <1>5. DiskType'
    <2>1. taint' \subseteq Items
      BY <1>1 DEF TypeInv, DiskType
    <2> QED BY <1>1, <2>1, KeepsTypes DEF TypeInv, DiskType
  <1> QED BY <1>1, <1>3, <1>4, <1>5, KeepsTypes DEF TypeInv

(* What the page marks is an item. *)
LEMMA BusyType ==
    ASSUME TypeInv, UNCHANGED <<kind, have, choice>>, NEW i \in Items,
           \/ page' = page
           \/ page' = [page EXCEPT !.busy = i],
           installing' = installing \/ installing' \in Schemas
    PROVE  PageType'
  <1>1. page' \in Page
    BY DEF TypeInv, PageType, Page
  <1>2. have' \subseteq Ids /\ choice' \subseteq Ids /\ installing' \in Schemas \cup {None}
    BY DEF TypeInv, PageType
  <1> QED BY <1>1, <1>2, KeepsTypes DEF PageType

LEMMA BeginTypes ==
    ASSUME TypeInv, NEW i,
           \/ i \in Schemas /\ \/ DownloadMarketSchema(i) \/ InstallMarketSchema(i)
                               \/ UninstallMarketSchema(i)
           \/ i \in Models /\ (DownloadMarketModel(i) \/ DeleteMarketModel(i))
    PROVE  TypeInv'
  <1>1. i \in Items
    <2>1. kind = "schema" => Items = Schemas
      BY DEF Items
    <2>2. kind = "model" => Items = Models
      BY DEF Items
    <2> QED
      BY <2>1, <2>2
      DEF DownloadMarketSchema, SchemaAction, SchemaList, InstallMarketSchema,
          UninstallMarketSchema, MarketGuard, DownloadMarketModel, DeleteMarketModel, ModelAction,
          ModelList
  <1>2. ASSUME NEW op \in {"download", "delete", "install", "uninstall"}, NEW first \in Places,
               Spawn(op, i, first), op \in {"install", "uninstall"} => i \in Schemas,
               page' = page \/ page' = [page EXCEPT !.busy = i],
               installing' = installing \/ installing' \in Schemas
        PROVE  TypeInv'
    <2>1. UNCHANGED <<kind, have, choice>>
      BY <1>2 DEF Spawn
    <2>2. PageType'
      BY <1>1, <1>2, <2>1, BusyType
    <2>3. op \in Ops /\ Fits([op |-> op, id |-> i])
      BY <1>1, <1>2 DEF Fits, Ops
    <2> QED BY <1>1, <1>2, <2>2, <2>3, SpawnTypes
  <1>3. CASE DownloadMarketSchema(i) \/ DownloadMarketModel(i)
    BY <1>2, <1>3 DEF DownloadMarketSchema, DownloadMarketModel, Places
  <1>4. CASE DeleteMarketModel(i)
    BY <1>2, <1>4 DEF DeleteMarketModel, Places
  <1>5. CASE i \in Schemas /\ (InstallMarketSchema(i) \/ UninstallMarketSchema(i))
    BY <1>2, <1>5 DEF InstallMarketSchema, UninstallMarketSchema, Places
  <1>6. InstallMarketSchema(i) \/ UninstallMarketSchema(i) => i \in Schemas
    BY ShippedAssumption DEF InstallMarketSchema, UninstallMarketSchema, ScanMarketDir
  <1> QED BY <1>3, <1>4, <1>5, <1>6

LEMMA StartDeployTypes ==
    ASSUME TypeInv, StartDeploy
    PROVE  TypeInv'
  <1>1. Spawn("deploy", None, "deploy") /\ UNCHANGED <<page, installing, kind, have, choice>>
    BY DEF StartDeploy, Spawn
  <1>2. PageType'
    BY <1>1, KeepsTypes
  <1>3. Fits([op |-> "deploy", id |-> None]) /\ "deploy" \in Ops /\ "deploy" \in Places
    BY DEF Fits, Ops, Places
  <1> QED BY <1>1, <1>2, <1>3, SpawnTypes

LEMMA SaveSchemaTypes ==
    ASSUME TypeInv, NEW i \in Ids, SaveSchema(i)
    PROVE  TypeInv'
  <1>1. /\ UNCHANGED <<kind, page, have, installing, choice, slot, deploySlot, index, fetch, loads,
                       crossed, task, disk, last, taint, files, list, deployed, doubt, reload>>
        /\ started < MaxTasks /\ started' = started + 1
        /\ ui' = [at |-> "list", id |-> i, ids |-> IF list = <<>> THEN SetToSeq(choice) ELSE list]
    BY DEF SaveSchema, pageVars, slotVars, loadVars, diskVars, listVars
  <1>2. CountType'
    BY <1>1, BoundsAssumption DEF TypeInv, CountType
  <1>3. (IF list = <<>> THEN SetToSeq(choice) ELSE list) \in Seq(Ids)
    BY ChoiceType DEF TypeInv, PageType, ListType
  <1>4. UiType'
    BY <1>1, <1>3 DEF UiType
  <1> QED BY <1>1, <1>2, <1>4, KeepsTypes DEF TypeInv

(* What is left of a list cut off is a list. *)
LEMMA PrefixType ==
    ASSUME NEW s \in Seq(Ids), NEW p \in Prefixes(s)
    PROVE  p \in Seq(Ids)
  <1>1. PICK n \in 0..Len(s) : p = SubSeq(s, 1, n)
    BY DEF Prefixes
  <1> QED BY <1>1

LEMMA NoUiType ==
    ASSUME ui' = NoUi \/ ui' = [NoUi EXCEPT !.at = "deploy"]
    PROVE  UiType'
  <1>1. PICK a \in {"idle", "deploy"} : ui' = [at |-> a, id |-> None, ids |-> <<>>]
    BY DEF NoUi
  <1> QED BY <1>1, EmptyType DEF UiType

LEMMA SaveSchemaListTypes ==
    ASSUME TypeInv, SaveSchemaList
    PROVE  TypeInv'
  <1>1. /\ UNCHANGED <<kind, page, have, installing, choice, slot, deploySlot, index, fetch, loads,
                       crossed, task, started, disk, last, taint, files, deployed, reload>>
        /\ ui.at = "list"
    BY DEF SaveSchemaList, pageVars, slotVars, loadVars, diskVars
  <1>2. PICK rest \in Retained(ui.ids, ui.id) :
            /\ ui' = NoUi \/ ui' = [NoUi EXCEPT !.at = "deploy"]
            /\ list' = list \/ list' = <<ui.id>> \o rest \/ list' \in Prefixes(<<ui.id>> \o rest)
            /\ doubt' = doubt \/ doubt' = TRUE
    BY DEF SaveSchemaList
  <1>3. ui.id \in Ids /\ ui.ids \in Seq(Ids)
    BY <1>1 DEF TypeInv, UiType
  <1>4. list' \in Seq(Ids)
    <2>1. rest \in Seq(Ids) /\ <<ui.id>> \in Seq(Ids)
      BY <1>3, RetainedType, SingleType
    <2>2. <<ui.id>> \o rest \in Seq(Ids)
      BY <2>1, ConcatType
    <2>3. list \in Seq(Ids)
      BY DEF TypeInv, ListType
    <2> QED BY <1>2, <2>2, <2>3, PrefixType
  <1>5. ListType'
    BY <1>1, <1>2, <1>4 DEF TypeInv, ListType
  <1>6. UiType'
    BY <1>2, NoUiType
  <1> QED BY <1>1, <1>5, <1>6, KeepsTypes DEF TypeInv

LEMMA DeployReadsType ==
    ASSUME TypeInv, DeployReads, UNCHANGED <<files, list>>,
           reload' \in [busy : BOOLEAN, ids : Seq(Ids)]
    PROVE  ListType'
  <1>1. doubt' \in BOOLEAN
    <2>1. SomebodyBuilds \in BOOLEAN
      BY DEF SomebodyBuilds
    <2> QED BY <2>1 DEF DeployReads
  <1> QED BY <1>1 DEF TypeInv, ListType, DeployReads

LEMMA DeployWritesType ==
    ASSUME TypeInv, NEW ids \in Seq(Ids), DeployWrites(ids), UNCHANGED <<files, list>>,
           reload' \in [busy : BOOLEAN, ids : Seq(Ids)]
    PROVE  ListType'
  <1>1. doubt' \in BOOLEAN /\ deployed' \in Seq(Ids)
    BY DEF DeployWrites, TypeInv, ListType
  <1> QED BY <1>1 DEF TypeInv, ListType

LEMMA SaveSchemaDeployTypes ==
    ASSUME TypeInv, SaveSchemaDeploy \/ SaveSchemaBuild
    PROVE  TypeInv'
  <1>1. UNCHANGED <<kind, page, have, installing, choice, slot, deploySlot, index, fetch, loads,
                    crossed, task, started, disk, last, taint, files, list, reload>>
    BY DEF SaveSchemaDeploy, SaveSchemaBuild, pageVars, slotVars, loadVars, diskVars
  <1>2. /\ list \in Seq(Ids) /\ ui.ids \in Seq(Ids)
        /\ reload' \in [busy : BOOLEAN, ids : Seq(Ids)]
    BY <1>1 DEF TypeInv, ListType, UiType
  <1>3. CASE SaveSchemaDeploy
    <2>1. ui' = [ui EXCEPT !.at = "build", !.ids = list] /\ DeployReads
      BY <1>3 DEF SaveSchemaDeploy
    <2>2. UiType'
      BY <1>2, <2>1 DEF TypeInv, UiType
    <2>3. ListType'
      BY <1>1, <1>2, <2>1, DeployReadsType
    <2> QED BY <1>1, <2>2, <2>3, KeepsTypes DEF TypeInv
  <1>4. CASE SaveSchemaBuild
    <2>1. ui' = NoUi /\ DeployWrites(ui.ids)
      BY <1>4 DEF SaveSchemaBuild
    <2>2. UiType'
      BY <2>1, NoUiType
    <2>3. ListType'
      BY <1>1, <1>2, <2>1, DeployWritesType
    <2> QED BY <1>1, <2>2, <2>3, KeepsTypes DEF TypeInv
  <1> QED BY <1>3, <1>4

LEMMA ServerTypes ==
    ASSUME TypeInv, ServerDeploys \/ ServerBuilds
    PROVE  TypeInv'
  <1>1. UNCHANGED <<kind, page, have, installing, choice, ui, slot, deploySlot, index, fetch, loads,
                    crossed, task, disk, last, taint, files, list>>
    BY DEF ServerDeploys, ServerBuilds, pageVars, slotVars, loadVars, diskVars
  <1>2. list \in Seq(Ids) /\ reload.ids \in Seq(Ids) /\ <<>> \in Seq(Ids)
    BY EmptyType DEF TypeInv, ListType
  <1>3. CASE ServerDeploys
    <2>1. /\ reload' = [busy |-> TRUE, ids |-> list] /\ DeployReads
          /\ started < MaxTasks /\ started' = started + 1
      BY <1>3 DEF ServerDeploys
    <2>2. CountType'
      BY <1>1, <2>1, BoundsAssumption DEF TypeInv, CountType
    <2>3. ListType'
      BY <1>1, <1>2, <2>1, DeployReadsType
    <2> QED BY <1>1, <2>2, <2>3, KeepsTypes DEF TypeInv
  <1>4. CASE ServerBuilds
    <2>1. reload' = NoReload /\ DeployWrites(reload.ids) /\ started' = started
      BY <1>4 DEF ServerBuilds
    <2>2. reload' \in [busy : BOOLEAN, ids : Seq(Ids)]
      BY <1>2, <2>1 DEF NoReload
    <2>3. ListType'
      BY <1>1, <1>2, <2>1, <2>2, DeployWritesType
    <2> QED BY <1>1, <2>1, <2>3, KeepsTypes DEF TypeInv
  <1> QED BY <1>3, <1>4

LEMMA ReopenTypes ==
    ASSUME TypeInv, Reopen
    PROVE  TypeInv'
  <1>1. /\ UNCHANGED <<kind, started, disk, files, list, reload>>
        /\ loads < MaxLoads /\ loads' = loads + 1 /\ crossed' = FALSE
        /\ page' = Loading /\ have' = {} /\ installing' = None
        /\ choice' = files \cup {Base} /\ ui' = NoUi
        /\ fetch' = {loads'} /\ index' = Empty /\ slot' = NoResult /\ deploySlot' = FALSE
        /\ deployed' \in {list, deployed} /\ doubt' \in {TRUE, reload.busy}
        /\ task' = [t \in Threads |-> NoTask]
        /\ taint' = taint \cup {i \in Items : Working(i) # {}}
        /\ last' = [i \in Items |-> 0]
    BY DEF Reopen, Opened
  <1>2. loads' \in 1..MaxLoads /\ 0 \in 0..MaxTasks
    BY <1>1, BoundsAssumption DEF TypeInv, CountType
  <1>3. CountType' /\ IndexType'
    <2>1. crossed' \in BOOLEAN
      <3>1. crossed' = FALSE
        BY <1>1
      <3> QED BY <3>1
    <2>2. 0 \in 0..MaxLoads + 1
      BY BoundsAssumption
    <2>3. fetch' \subseteq 1..MaxLoads /\ index' = 0
      BY <1>1, <1>2 DEF Empty
    <2> QED BY <1>1, <1>2, <2>1, <2>2, <2>3 DEF TypeInv, CountType, IndexType
  <1>4. PageType'
    <2>1. files \cup {Base} \subseteq Ids
      BY DEF TypeInv, ListType, Ids
    <2> QED BY <1>1, <2>1, LoadingType, KeepsTypes DEF PageType
  <1>5. UiType' /\ SlotType'
    BY <1>1, EmptyType, NoneTypes, KeepsTypes DEF UiType, NoUi, SlotType
  <1>6. TaskType'
    <2>1. task' \in [Threads -> Task] /\ \A t \in Threads : task'[t] = NoTask
      BY <1>1, NoneTypes
    <2> QED BY <1>1, <2>1, NoneTypes, KeepsTypes DEF TaskType
  <1>7. DiskType'
    <2>1. taint' \subseteq Items
      BY <1>1 DEF TypeInv, DiskType
    <2>2. last' \in [Items -> 0..MaxTasks]
      BY <1>1, <1>2
    <2> QED BY <1>1, <2>1, <2>2, KeepsTypes DEF TypeInv, DiskType
  <1>8. ListType'
    BY <1>1 DEF TypeInv, ListType
  <1> QED BY <1>3, <1>4, <1>5, <1>6, <1>7, <1>8 DEF TypeInv

-----------------------------------------------------------------------------
(* The types, step by step of a thread. *)

LEMMA GotoType ==
    ASSUME TypeInv, UNCHANGED kind, NEW t \in Threads, NEW a \in Places, Goto(t, a)
    PROVE  TaskType'
  <1> DEFINE r == [task[t] EXCEPT !.at = a]
  <1>1. task[t] \in Task /\ Fits(task[t])
    BY DEF TypeInv, TaskType
  <1>2. r \in Task /\ r.op = task[t].op /\ r.id = task[t].id
    BY <1>1 DEF Task
  <1>3. task' = [task EXCEPT ![t] = r]
    BY DEF Goto
  <1> HIDE DEF r
  <1>4. Fits(r)
    BY <1>1, <1>2 DEF Fits
  <1> QED BY <1>2, <1>3, <1>4, TaskSet DEF TypeInv

LEMMA EndType ==
    ASSUME TypeInv, UNCHANGED kind, NEW t \in Threads, NEW k \in BOOLEAN,
           task' = [task EXCEPT ![t].at = "report", ![t].ok = k]
    PROVE  TaskType'
  <1> DEFINE r == [task[t] EXCEPT !.at = "report", !.ok = k]
  <1>1. task[t] \in Task /\ Fits(task[t])
    BY DEF TypeInv, TaskType
  <1>2. r \in Task /\ r.op = task[t].op /\ r.id = task[t].id
    BY <1>1 DEF Task, Places
  <1>3. task' = [task EXCEPT ![t] = r]
    BY DEF TypeInv, TaskType
  <1> HIDE DEF r
  <1>4. Fits(r)
    BY <1>1, <1>2 DEF Fits
  <1> QED BY <1>2, <1>3, <1>4, TaskSet DEF TypeInv

LEMMA ListStepType ==
    ASSUME TypeInv, UNCHANGED kind, NEW t \in Threads, NEW a \in Places, NEW s \in Seq(Ids),
           task' = [task EXCEPT ![t].at = a, ![t].ids = s]
    PROVE  TaskType'
  <1> DEFINE r == [task[t] EXCEPT !.at = a, !.ids = s]
  <1>1. task[t] \in Task /\ Fits(task[t])
    BY DEF TypeInv, TaskType
  <1>2. r \in Task /\ r.op = task[t].op /\ r.id = task[t].id
    BY <1>1 DEF Task
  <1>3. task' = [task EXCEPT ![t] = r]
    BY DEF TypeInv, TaskType
  <1> HIDE DEF r
  <1>4. Fits(r)
    BY <1>1, <1>2 DEF Fits
  <1> QED BY <1>2, <1>3, <1>4, TaskSet DEF TypeInv

LEMMA DoneType ==
    ASSUME TypeInv, UNCHANGED kind, NEW t \in Threads, NEW a \in Places, NEW k \in BOOLEAN,
           Done(t, a, k)
    PROVE  TaskType'
  <1> DEFINE r == [task[t] EXCEPT !.at = a, !.ok = k, !.ids = <<>>]
  <1>1. task[t] \in Task /\ Fits(task[t])
    BY DEF TypeInv, TaskType
  <1>2. r \in Task /\ r.op = task[t].op /\ r.id = task[t].id
    BY <1>1, EmptyType DEF Task
  <1>3. task' = [task EXCEPT ![t] = r]
    BY DEF TypeInv, TaskType, Done
  <1> HIDE DEF r
  <1>4. Fits(r)
    BY <1>1, <1>2 DEF Fits
  <1> QED BY <1>2, <1>3, <1>4, TaskSet DEF TypeInv

(* A step of a thread that does not report leaves the page, the slots and the index alone. *)
LEMMA StillTypes ==
    ASSUME TypeInv, Still, TaskType', DiskType', ListType'
    PROVE  TypeInv'
  <1>1. UNCHANGED <<kind, page, have, installing, choice, ui, slot, deploySlot, index, started,
                    loads, fetch, crossed>>
    BY DEF Still, pageVars, slotVars, loadVars
  <1> QED BY <1>1, KeepsTypes DEF TypeInv

(* What a download or a deletion does to its item's directory. *)
LEMMA DiskSet ==
    ASSUME TypeInv, UNCHANGED kind, NEW i \in Items, NEW d \in {"none", "dir", "part", "whole"},
           disk' = [disk EXCEPT ![i] = d] \/ disk' = disk,
           last' = last \/ \E t \in 0..MaxTasks : last' = [last EXCEPT ![i] = t],
           taint' \subseteq taint \cup {i}
    PROVE  DiskType'
  <1>1. /\ disk' \in [Items -> {"none", "dir", "part", "whole"}]
        /\ last' \in [Items -> 0..MaxTasks] /\ taint' \subseteq Items
    BY DEF TypeInv, DiskType
  <1> QED BY <1>1, KeepsTypes DEF DiskType

LEMMA DownloadTypes ==
    ASSUME TypeInv, NEW t \in Threads, Mkdir(t) \/ Create(t) \/ Write(t)
    PROVE  TypeInv'
  <1> DEFINE i == task[t].id
             D == {"none", "dir", "part", "whole"}
  <1>1. /\ task[t].op = "download" /\ Still /\ UNCHANGED listVars
        /\ Fails(t) \/ Goto(t, "create") \/ Goto(t, "write") \/ Goto(t, "report")
    BY DEF Mkdir, Create, Write, At
  <1>2. UNCHANGED <<kind, files, list, deployed, doubt, reload>>
    BY <1>1 DEF Still, pageVars, listVars
  <1>3. i \in Items /\ disk[i] \in D
    <2>1. i \in Items
      BY <1>1 DEF TypeInv, TaskType, Fits
    <2> QED BY <2>1 DEF TypeInv, DiskType
  <1>4. TaskType'
    <2>1. Fails(t) => TaskType'
      BY <1>2, EndType DEF Fails
    <2>2. \A a \in Places : Goto(t, a) => TaskType'
      BY <1>2, GotoType
    <2> QED BY <1>1, <2>1, <2>2 DEF Places
  <1>5. t \in 0..MaxTasks /\ 0 \in 0..MaxTasks
    BY BoundsAssumption DEF Threads
  <1> HIDE DEF i, D
  <1>6. ASSUME NEW d \in D, disk' = [disk EXCEPT ![i] = d] \/ disk' = disk,
               last' = last \/ last' = [last EXCEPT ![i] = t] \/ last' = [last EXCEPT ![i] = 0],
               taint' \subseteq taint \cup {i}
        PROVE  DiskType'
    BY <1>2, <1>3, <1>5, <1>6, DiskSet DEF D
  <1>7. DiskType'
    <2>1. CASE Mkdir(t)
      <3>1. disk' = disk \/ disk' = [disk EXCEPT ![i] = IF disk[i] = "none" THEN "dir" ELSE disk[i]]
        BY <2>1 DEF Mkdir, i
      <3>2. UNCHANGED <<last, taint>>
        BY <2>1 DEF Mkdir
      <3>3. PICK d \in D : d = IF disk[i] = "none" THEN "dir" ELSE disk[i]
        BY <1>3 DEF D
      <3> QED BY <1>6, <3>1, <3>2, <3>3
    <2>2. CASE Create(t)
      <3>1. /\ disk' = disk \/ disk' = [disk EXCEPT ![i] = "part"]
            /\ last' = last \/ last' = [last EXCEPT ![i] = t]
            /\ taint' = taint \/ taint' = taint \cup {i}
        BY <2>2 DEF Create, i
      <3>2. "part" \in D
        BY DEF D
      <3> QED BY <1>6, <3>1, <3>2
    <2>3. CASE Write(t)
      <3>1. /\ \/ disk' = disk
               \/ disk' = [disk EXCEPT ![i] = IF last[i] = t THEN "whole" ELSE disk[i]]
               \/ disk' = [disk EXCEPT ![i] = IF disk[i] = "none" THEN disk[i] ELSE "dir"]
            /\ last' = last \/ last' = [last EXCEPT ![i] = 0]
        BY <2>3 DEF Write, i
      <3>2. taint' \subseteq taint \cup {i}
        BY <2>3 DEF Write, i
      <3>3. PICK d \in D : d = IF last[i] = t THEN "whole" ELSE disk[i]
        BY <1>3 DEF D
      <3>4. PICK e \in D : e = IF disk[i] = "none" THEN disk[i] ELSE "dir"
        BY <1>3 DEF D
      <3> QED BY <1>6, <3>1, <3>2, <3>3, <3>4
    <2> QED BY <2>1, <2>2, <2>3
  <1>8. ListType'
    BY <1>2, KeepsTypes
  <1> QED BY <1>1, <1>4, <1>7, <1>8, StillTypes

LEMMA RemoveTypes ==
    ASSUME TypeInv, NEW t \in Threads, RemoveDirAll(t)
    PROVE  TypeInv'
  <1> DEFINE i == task[t].id
  <1>1. task[t].op = "delete" /\ Still /\ Goto(t, "report") /\ UNCHANGED listVars
    BY DEF RemoveDirAll, At
  <1>2. UNCHANGED <<kind, files, list, deployed, doubt, reload>>
    BY <1>1 DEF Still, pageVars, listVars
  <1>3. i \in Items /\ disk[i] \in {"none", "dir", "part", "whole"}
    <2>1. i \in Items
      BY <1>1 DEF TypeInv, TaskType, Fits
    <2> QED BY <2>1 DEF TypeInv, DiskType
  <1>4. TaskType' /\ ListType'
    BY <1>1, <1>2, GotoType, KeepsTypes DEF Places
  <1>5. PICK left \in {"none", "dir", disk[i]} :
            /\ disk' = [disk EXCEPT ![i] = left]
            /\ last' = [last EXCEPT ![i] = IF left = "none" \/ left = "dir" THEN 0 ELSE last[i]]
            /\ taint' = IF left # "none" \/ Working(i) # {t} THEN taint \cup {i} ELSE taint
    BY DEF RemoveDirAll
  <1> HIDE DEF i
  <1>6. left \in {"none", "dir", "part", "whole"} /\ taint' \subseteq taint \cup {i}
    BY <1>3, <1>5
  <1>7. PICK n \in 0..MaxTasks : last' = [last EXCEPT ![i] = n]
    <2>1. last[i] \in 0..MaxTasks /\ 0 \in 0..MaxTasks
      BY <1>3, BoundsAssumption DEF TypeInv, DiskType
    <2> QED BY <1>5, <2>1
  <1>8. DiskType'
    BY <1>2, <1>3, <1>5, <1>6, <1>7, DiskSet
  <1> QED BY <1>1, <1>4, <1>8, StillTypes

LEMMA CopyTypes ==
    ASSUME TypeInv, NEW t \in Threads, CopyFiles(t)
    PROVE  TypeInv'
  <1>1. /\ task[t].op = "install" /\ Still /\ (Fails(t) \/ Goto(t, "read"))
        /\ UNCHANGED <<disk, last, taint, list, deployed, doubt, reload>>
    BY DEF CopyFiles, At, diskVars
  <1>2. kind' = kind
    BY <1>1 DEF Still, pageVars
  <1>3. task[t].id \in Schemas
    BY <1>1 DEF TypeInv, TaskType, Fits
  <1>4. files' \subseteq files \cup {task[t].id}
    BY DEF CopyFiles
  <1>5. ListType'
    BY <1>1, <1>3, <1>4 DEF TypeInv, ListType
  <1>6. TaskType'
    BY <1>1, <1>2, EndType, GotoType DEF Fails, Places
  <1> QED BY <1>1, <1>2, <1>5, <1>6, KeepsTypes, StillTypes

LEMMA ReadTypes ==
    ASSUME TypeInv, NEW t \in Threads, ReadSelected(t) \/ ReadRest(t)
    PROVE  TypeInv'
  <1>1. /\ Still /\ UNCHANGED <<disk, last, taint, files, list, deployed, doubt, reload>>
        /\ ReadSelected(t) => task[t].op = "install"
    BY DEF ReadSelected, ReadRest, At, diskVars, listVars
  <1>2. kind' = kind
    BY <1>1 DEF Still, pageVars
  <1>3. \E s \in Seq(Ids) : task' = [task EXCEPT ![t].at = "list", ![t].ids = s]
    <2>1. CASE ReadSelected(t)
      <3>1. task[t].id \in Ids
        BY <1>1, <2>1 DEF TypeInv, TaskType, Fits, Ids
      <3>2. <<task[t].id>> \in Seq(Ids)
        BY <3>1, SingleType
      <3>3. GetSelectedSchema \in Seq(Ids)
        <4>1. list \in Seq(Ids)
          BY DEF TypeInv, ListType
        <4>2. CASE list = <<>>
          BY <4>2, EmptyType DEF GetSelectedSchema
        <4>3. CASE list # <<>>
          <5>1. Head(list) \in Ids
            BY <4>1, <4>3, HeadType
          <5>2. <<Head(list)>> \in Seq(Ids)
            BY <5>1, SingleType
          <5> QED BY <4>3, <5>2 DEF GetSelectedSchema
        <4> QED BY <4>2, <4>3
      <3>4. GetSelectedSchema \o <<task[t].id>> \in Seq(Ids)
        BY <3>2, <3>3, ConcatType
      <3> QED BY <2>1, <3>4 DEF ReadSelected
    <2>2. CASE ReadRest(t)
      <3>1. PICK first \in files \cup {Base} : task' = [task EXCEPT ![t].at = "list", ![t].ids = <<first>>]
        BY <2>2 DEF ReadRest
      <3>2. <<first>> \in Seq(Ids)
        <4>1. first \in Ids
          BY <3>1 DEF TypeInv, ListType, Ids
        <4> QED BY <4>1, SingleType
      <3> QED BY <3>1, <3>2
    <2> QED BY <2>1, <2>2
  <1>4. TaskType'
    BY <1>2, <1>3, ListStepType DEF Places
  <1> QED BY <1>1, <1>2, <1>4, KeepsTypes, StillTypes

LEMMA SetListTypes ==
    ASSUME TypeInv, NEW t \in Threads, SetSchemaList(t)
    PROVE  TypeInv'
  <1>1. /\ Still /\ UNCHANGED <<disk, last, taint, files, deployed, reload>>
        /\ list' = task[t].ids \/ list' = list \/ list' \in Prefixes(task[t].ids)
        /\ doubt' = doubt \/ doubt' = TRUE
        /\ Done(t, "deploy", TRUE) \/ Done(t, "report", FALSE)
    BY DEF SetSchemaList, diskVars
  <1>2. kind' = kind
    BY <1>1 DEF Still, pageVars
  <1>3. task[t].ids \in Seq(Ids) /\ list \in Seq(Ids)
    BY DEF TypeInv, TaskType, Task, ListType
  <1>4. ListType'
    <2>1. list' \in Seq(Ids)
      BY <1>1, <1>3, PrefixType
    <2> QED BY <1>1, <2>1 DEF TypeInv, ListType
  <1>5. TaskType'
    BY <1>1, <1>2, DoneType DEF Places
  <1> QED BY <1>1, <1>2, <1>4, <1>5, KeepsTypes, StillTypes

LEMMA DeployStepTypes ==
    ASSUME TypeInv, NEW t \in Threads, DeployStep(t) \/ BuildStep(t)
    PROVE  TypeInv'
  <1>1. Still /\ UNCHANGED <<disk, last, taint, files, list, reload>>
    BY DEF DeployStep, BuildStep, diskVars
  <1>2. kind' = kind
    BY <1>1 DEF Still, pageVars
  <1>3. /\ list \in Seq(Ids) /\ task[t].ids \in Seq(Ids)
        /\ reload' \in [busy : BOOLEAN, ids : Seq(Ids)]
    BY <1>1 DEF TypeInv, ListType, TaskType, Task
  <1>4. CASE DeployStep(t)
    <2>1. DeployReads /\ task' = [task EXCEPT ![t].at = "build", ![t].ids = list]
      BY <1>4 DEF DeployStep
    <2>2. TaskType'
      BY <1>2, <1>3, <2>1, ListStepType DEF Places
    <2>3. ListType'
      BY <1>1, <1>3, <2>1, DeployReadsType
    <2> QED BY <1>1, <1>2, <2>2, <2>3, KeepsTypes, StillTypes
  <1>5. CASE BuildStep(t)
    <2>1. PICK k \in BOOLEAN : DeployWrites(task[t].ids) /\ Done(t, "report", k)
      BY <1>5 DEF BuildStep
    <2>2. TaskType'
      BY <1>2, <2>1, DoneType DEF Places
    <2>3. ListType'
      BY <1>1, <1>3, <2>1, DeployWritesType
    <2> QED BY <1>1, <1>2, <2>2, <2>3, KeepsTypes, StillTypes
  <1> QED BY <1>4, <1>5

LEMMA ReportTypes ==
    ASSUME TypeInv, NEW t \in Threads, Report(t)
    PROVE  TypeInv'
  <1> DEFINE i == task[t].id
             said == [op |-> task[t].op, id |-> i, ok |-> task[t].ok]
  <1>1. /\ UNCHANGED <<kind, page, have, installing, choice, ui, index, started, loads, fetch,
                       crossed, disk, files, list, deployed, doubt, reload>>
        /\ task' = [task EXCEPT ![t] = NoTask]
        /\ last' = [j \in Items |-> IF last[j] = t THEN 0 ELSE last[j]]
        /\ IF i = None THEN deploySlot' = TRUE /\ UNCHANGED <<slot, taint>>
           ELSE /\ slot' = said
                /\ taint' = IF slot = NoResult THEN taint ELSE taint \cup {slot.id}
                /\ UNCHANGED deploySlot
    BY DEF Report, pageVars, loadVars, listVars
  <1>2. TaskType'
    BY <1>1, NoneTypes, TaskSet DEF TypeInv
  <1>3. SlotType'
    <2>1. CASE i = None
      <3>1. deploySlot' \in BOOLEAN /\ slot' = slot
        BY <1>1, <2>1
      <3> QED BY <1>1, <3>1, KeepsTypes DEF TypeInv, SlotType
    <2>2. CASE i # None
      <3>1. task[t] \in Task /\ Fits(task[t])
        BY DEF TypeInv, TaskType
      <3>2. task[t].op \in Ops \ {"none", "deploy"}
        BY <2>2, <3>1 DEF Fits, Task
      <3>3. said \in Outcome /\ Fits(said) /\ said.op # "none"
        BY <3>1, <3>2 DEF Outcome, Fits, Task
      <3> HIDE DEF said
      <3>4. slot' = said /\ deploySlot' = deploySlot
        BY <1>1, <2>2
      <3> QED BY <1>1, <3>3, <3>4, KeepsTypes DEF TypeInv, SlotType
    <2> QED BY <2>1, <2>2
  <1>4. DiskType'
    <2>1. taint' \subseteq Items
      <3>1. slot # NoResult => slot.id \in Items
        BY DEF TypeInv, SlotType, Outcome, Ops, Fits
      <3>2. taint' = taint \/ (slot # NoResult /\ taint' = taint \cup {slot.id})
        BY <1>1
      <3> QED BY <3>1, <3>2 DEF TypeInv, DiskType
    <2>2. last' \in [Items -> 0..MaxTasks]
      BY <1>1, BoundsAssumption DEF TypeInv, DiskType
    <2> QED BY <1>1, <2>1, <2>2, KeepsTypes DEF TypeInv, DiskType
  <1> QED BY <1>1, <1>2, <1>3, <1>4, KeepsTypes DEF TypeInv

LEMMA NextTypes == TypeInv /\ [Next]_vars => TypeInv'
  <1> SUFFICES ASSUME TypeInv, [Next]_vars PROVE TypeInv'
    OBVIOUS
  <1>1. ASSUME NEW n \in 1..MaxLoads, Answer(n) PROVE TypeInv'
    BY <1>1, AnswerTypes
  <1>2. CASE Refresh \/ PollBackground \/ Reopen
    BY <1>2, RefreshTypes, PollTypes, ReopenTypes
  <1>3. ASSUME NEW i, \/ i \in Schemas /\ \/ DownloadMarketSchema(i) \/ InstallMarketSchema(i)
                                          \/ UninstallMarketSchema(i)
                      \/ i \in Models /\ (DownloadMarketModel(i) \/ DeleteMarketModel(i))
        PROVE  TypeInv'
    BY <1>3, BeginTypes
  <1>4. CASE StartDeploy
    BY <1>4, StartDeployTypes
  <1>5. ASSUME NEW i \in Ids, SaveSchema(i) PROVE TypeInv'
    BY <1>5, SaveSchemaTypes
  <1>6. CASE SaveSchemaList \/ SaveSchemaDeploy \/ SaveSchemaBuild
    BY <1>6, SaveSchemaListTypes, SaveSchemaDeployTypes
  <1>9. CASE ServerDeploys \/ ServerBuilds
    BY <1>9, ServerTypes
  <1>7. ASSUME NEW t \in Threads, ThreadStep(t) PROVE TypeInv'
    BY <1>7, DownloadTypes, RemoveTypes, CopyTypes, ReadTypes, SetListTypes, DeployStepTypes,
       ReportTypes
    DEF ThreadStep
  <1>8. CASE UNCHANGED vars
    BY <1>8, KeepsTypes DEF TypeInv, vars, pageVars, slotVars, loadVars, diskVars, listVars
  <1> QED
    BY <1>1, <1>2, <1>3, <1>4, <1>5, <1>6, <1>7, <1>8, <1>9 DEF Next

(* Every variable holds what its declaration says: the lists are lists of schemas the
   program knows, a result is about an item of its kind, and the page calls nothing else
   downloaded or installed. *)
THEOREM TypeCorrect == Spec => []TypeOK
  <1>1. TypeInv => TypeOK
    <2> SUFFICES ASSUME TypeInv PROVE TypeOK
      OBVIOUS
    <2>1. /\ loads \in 1..MaxLoads /\ started \in 0..MaxTasks /\ kind \in Kinds
          /\ crossed \in BOOLEAN
      BY DEF TypeInv, CountType
    <2>2. /\ page \in [loading : BOOLEAN, loaded : BOOLEAN, shown : 0..MaxLoads,
                       got : SUBSET Items, busy : Items \cup {None}]
          /\ have \subseteq Ids /\ installing \in Schemas \cup {None} /\ choice \subseteq Ids
      BY DEF TypeInv, PageType, Page
    <2>3. /\ ui.at \in {"idle", "list", "deploy", "build"} /\ ui.id \in Ids \cup {None}
          /\ ui.ids \in Seq(Ids)
      BY DEF TypeInv, UiType
    <2>4. fetch \subseteq 1..MaxLoads /\ index \in 0..MaxLoads + 1
      BY DEF TypeInv, IndexType
    <2>5. /\ slot \in [op : {"none", "download", "delete", "install", "uninstall"},
                       id : Items \cup {None}, ok : BOOLEAN]
          /\ deploySlot \in BOOLEAN
      BY DEF TypeInv, SlotType, Outcome, Ops
    <2>6. \A t \in Threads :
            /\ task[t].op \in {"none", "download", "delete", "install", "uninstall", "deploy"}
            /\ task[t].id \in Items \cup {None} /\ task[t].ok \in BOOLEAN
            /\ task[t].at \in {"mkdir", "create", "write", "remove", "copy", "read", "list",
                               "deploy", "build", "report", "end"}
            /\ task[t].ids \in Seq(Ids)
      BY DEF TypeInv, TaskType, Task, Ops, Places
    <2>7. /\ disk \in [Items -> {"none", "dir", "part", "whole"}]
          /\ last \in [Items -> 0..MaxTasks] /\ taint \subseteq Items
      BY DEF TypeInv, DiskType
    <2>8. /\ files \subseteq Schemas /\ list \in Seq(Ids) /\ deployed \in Seq(Ids)
          /\ doubt \in BOOLEAN /\ reload \in [busy : BOOLEAN, ids : Seq(Ids)]
      BY DEF TypeInv, ListType
    <2> QED BY <2>1, <2>2, <2>3, <2>4, <2>5, <2>6, <2>7, <2>8 DEF TypeOK
  <1> QED BY <1>1, InitTypes, NextTypes, PTL DEF Spec

=============================================================================
