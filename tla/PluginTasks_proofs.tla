------------------------- MODULE PluginTasks_proofs -------------------------
(***************************************************************************)
(* Proofs about the plugin pages' threads, for any number of plugins and    *)
(* threads.                                                                *)
(***************************************************************************)
EXTENDS PluginTasks, TLAPS

Agree(record, d) == d = IF record = "none" THEN "none" ELSE "whole"

\* Every copy of p's record that is or will be in the registry agrees with the
\* directory: what threads that work on other plugins will write back, and the
\* file itself when nobody has it half-written.
Sound(p) ==
  /\ \A w \in Workers : Rewriting(w) /\ task[w].plugin # p =>
       Agree(task[w].read[p], dirs[p])
  /\ (\A w \in Workers : ~At(w, "write")) => Agree(registry[p], dirs[p])

\* A free thread is blank; another has a plugin and does what its kind does.
ThreadOK(t) ==
  /\ t.pc = "free" => t.kind = "none" /\ t.plugin = NoPlugin
  /\ t.pc # "free" => t.kind # "none" /\ t.plugin \in Plugins
  /\ t.kind = "toggle" => t.on # "none"
  /\ t.pc \in {"fetch", "open", "clear", "extract"} => t.kind = "get"
  /\ t.pc = "remove" => t.kind = "uninstall"

TaskInv == \A w \in Workers : ThreadOK(task[w])

TypeInv == TypeOK /\ TaskInv

\* Threads on one plugin, and threads rewriting the registry at once, are not
\* "alone", and the plugin of a thread that is not alone is excused.
AloneInv ==
  /\ \A w \in Workers : Busy(w) /\ ~task[w].alone => task[w].plugin \in excused
  /\ \A v, w \in Workers :
       /\ v # w
       /\ \/ Busy(v) /\ task[v].plugin = task[w].plugin
          \/ Rewriting(v) /\ Rewriting(w)
       => ~task[v].alone /\ ~task[w].alone

\* Where an undisturbed thread is in its work on its plugin.
StageInv ==
  \A w \in Workers :
    LET p == task[w].plugin
        kind == task[w].kind
        before == \/ task[w].pc \in {"fetch", "open", "clear", "remove"}
                  \/ At(w, "read") /\ kind = "toggle"
        during == At(w, "read") \/ Rewriting(w)
    IN  task[w].alone =>
          /\ before /\ p \notin excused => Sound(p)
          /\ during /\ kind = "get" => dirs[p] = "whole"
          /\ during /\ kind = "uninstall" => dirs[p] = "none"
          /\ Rewriting(w) /\ kind = "toggle" /\ p \notin excused =>
               dirs[p] = "whole"
          /\ At(w, "report") /\ (p \notin excused \/ (task[w].ok /\ kind # "toggle"))
               => Sound(p)

\* A plugin on which no thread works is sound unless it is excused.
RestInv ==
  \A p \in Plugins \ excused :
    (\A w \in Workers : task[w].plugin # p) => Sound(p)

DiskInv == AloneInv /\ StageInv /\ RestInv

(* Types *)

LEMMA NoRecordsType == NoRecords \in [Plugins -> Records]
  BY DEF NoRecords, Records

LEMMA FreeType == Free \in TaskStates /\ ThreadOK(Free)
  BY NoRecordsType DEF Free, TaskStates, ThreadOK, Kinds, Phases, Records

\* What a step makes of its thread is a thread again.
LEMMA GotoType ==
    ASSUME NEW t \in TaskStates, ThreadOK(t), t.pc # "free", NEW pc \in Phases \ {"free"},
           pc \in {"fetch", "open", "clear", "extract"} => t.kind = "get",
           pc = "remove" => t.kind = "uninstall"
    PROVE  /\ [t EXCEPT !.pc = pc] \in TaskStates
           /\ ThreadOK([t EXCEPT !.pc = pc])
  BY DEF TaskStates, ThreadOK

LEMMA EndedType ==
    ASSUME NEW t \in TaskStates, ThreadOK(t), t.pc # "free", NEW ok \in BOOLEAN
    PROVE  Ended(t, ok) \in TaskStates /\ ThreadOK(Ended(t, ok))
  BY NoRecordsType DEF TaskStates, ThreadOK, Ended, Phases, Records

LEMMA AloneType ==
    ASSUME NEW t \in TaskStates, ThreadOK(t)
    PROVE  /\ [t EXCEPT !.alone = FALSE] \in TaskStates
           /\ ThreadOK([t EXCEPT !.alone = FALSE])
  BY DEF TaskStates, ThreadOK

Threads == {t \in TaskStates : ThreadOK(t)}

\* A step that changes one thread, and one that disturbs all of them.
LEMMA OneThread ==
    ASSUME TypeInv, NEW w \in Workers, NEW t \in Threads, task' = [task EXCEPT ![w] = t]
    PROVE  task' \in [Workers -> TaskStates] /\ TaskInv'
  BY DEF TypeInv, TypeOK, TaskInv, Threads

LEMMA AllThreads ==
    ASSUME TypeInv, NEW w \in Workers, NEW t \in Threads, Lossy([task EXCEPT ![w] = t])
    PROVE  /\ task' \in [Workers -> TaskStates] /\ TaskInv'
           /\ excused' \subseteq Plugins /\ missed' \in BOOLEAN
  <1>1. \A v \in Workers : [task EXCEPT ![w] = t][v] \in Threads
    BY DEF TypeInv, TypeOK, TaskInv, Threads
  <1>2. \A v \in Workers : /\ [[task EXCEPT ![w] = t][v] EXCEPT !.alone = FALSE] \in TaskStates
                           /\ ThreadOK([[task EXCEPT ![w] = t][v] EXCEPT !.alone = FALSE])
    BY <1>1, AloneType DEF Threads
  <1> QED BY <1>2 DEF Lossy, TaskInv

LEMMA StartType ==
    ASSUME TypeInv, NEW w \in Workers, NEW kind \in Kinds \ {"none"}, NEW p \in Plugins,
           NEW pc \in {"fetch", "remove", "read"}, NEW on \in Records,
           pc = "fetch" => kind = "get", pc = "remove" => kind = "uninstall",
           kind = "toggle" => on # "none", Start(w, kind, p, pc, on)
    PROVE  /\ task' \in [Workers -> TaskStates] /\ TaskInv'
           /\ excused' \subseteq Plugins
           /\ started' \in 0 .. MaxTasks
  <1> DEFINE others == {v \in Workers : Busy(v) /\ task[v].plugin = p}
             new == [Free EXCEPT !.kind = kind, !.plugin = p, !.pc = pc, !.on = on,
                                 !.alone = others = {}]
  <1>1. new \in TaskStates /\ ThreadOK(new)
    <2> HIDE DEF others
    <2> QED BY NoRecordsType DEF Free, TaskStates, ThreadOK, Kinds, Phases, Records
  <1>2. \A v \in Workers : /\ task[v] \in TaskStates /\ ThreadOK(task[v])
                           /\ [task[v] EXCEPT !.alone = FALSE] \in TaskStates
                           /\ ThreadOK([task[v] EXCEPT !.alone = FALSE])
    BY AloneType DEF TypeInv, TypeOK, TaskInv
  <1>3. task' = [v \in Workers |->
                   IF v = w THEN new
                   ELSE IF v \in others THEN [task[v] EXCEPT !.alone = FALSE]
                   ELSE task[v]]
    BY DEF Start
  <1> HIDE DEF new, others
  <1>4. \A v \in Workers : task'[v] \in TaskStates /\ ThreadOK(task'[v])
    BY <1>1, <1>2, <1>3
  <1>5. task' \in [Workers -> TaskStates] /\ TaskInv'
    BY <1>3, <1>4 DEF TaskInv
  <1>6. excused' \subseteq Plugins
    BY DEF Start, TypeInv, TypeOK
  <1>7. started' \in 0 .. MaxTasks
    <2>1. started < MaxTasks /\ started' = started + 1
      BY DEF Start
    <2> QED BY <2>1, PluginAssumption DEF TypeInv, TypeOK
  <1> QED BY <1>5, <1>6, <1>7

\* A failing thread.
LEMMA FailsType ==
    ASSUME TypeInv, NEW w \in Workers, Busy(w), NEW spoilt \in SUBSET Plugins,
           Fails(w, spoilt)
    PROVE  task' \in [Workers -> TaskStates] /\ TaskInv' /\ excused' \subseteq Plugins
  <1>1. Ended(task[w], FALSE) \in Threads
    BY EndedType DEF TypeInv, TypeOK, TaskInv, Busy, Threads
  <1> QED BY <1>1, OneThread DEF Fails, TypeInv, TypeOK

\* A thread that goes on.
LEMMA OnwardType ==
    ASSUME TypeInv, NEW w \in Workers, Busy(w), NEW pc \in Phases \ {"free"},
           pc \in {"fetch", "open", "clear", "extract"} => task[w].kind = "get",
           pc = "remove" => task[w].kind = "uninstall", Goto(w, pc)
    PROVE  task' \in [Workers -> TaskStates] /\ TaskInv'
  <1>1. [task[w] EXCEPT !.pc = pc] \in Threads
    BY GotoType DEF TypeInv, TypeOK, TaskInv, Busy, Threads
  <1> QED BY <1>1, OneThread DEF Goto

LEMMA PluginType ==
    ASSUME TypeInv, NEW w \in Workers, Busy(w)
    PROVE  task[w].plugin \in Plugins /\ {task[w].plugin} \in SUBSET Plugins
  BY DEF TypeInv, TaskInv, ThreadOK, Busy

\* The steps that start a thread.
LEMMA PageStepsKeepTypes ==
    ASSUME TypeInv, NEW w \in Workers, NEW p \in Plugins,
           Get(w, p) \/ Uninstall(w, p) \/ Toggle(w, p)
    PROVE  TypeInv'
  <1>1. CASE Get(w, p)
    <2>1. task' \in [Workers -> TaskStates] /\ TaskInv' /\ excused' \subseteq Plugins
            /\ started' \in 0 .. MaxTasks
      BY <1>1, StartType DEF Get, Kinds, Records
    <2> QED BY <1>1, <2>1 DEF Get, TypeInv, TypeOK
  <1>2. CASE Uninstall(w, p)
    <2>1. task' \in [Workers -> TaskStates] /\ TaskInv' /\ excused' \subseteq Plugins
            /\ started' \in 0 .. MaxTasks
      BY <1>2, StartType DEF Uninstall, Kinds, Records
    <2> QED BY <1>2, <2>1 DEF Uninstall, TypeInv, TypeOK
  <1>3. CASE Toggle(w, p)
    <2> DEFINE on == IF installed[p] = "on" THEN "off" ELSE "on"
    <2>1. Start(w, "toggle", p, "read", on) /\ on \in Records /\ on # "none"
      BY <1>3 DEF Toggle, Records
    <2> HIDE DEF on
    <2>2. task' \in [Workers -> TaskStates] /\ TaskInv' /\ excused' \subseteq Plugins
            /\ started' \in 0 .. MaxTasks
      BY <2>1, StartType DEF Kinds
    <2> QED BY <1>3, <2>2 DEF Toggle, TypeInv, TypeOK
  <1> QED BY <1>1, <1>2, <1>3

\* The steps a thread makes.
LEMMA ThreadStepsKeepTypes ==
    ASSUME TypeInv, NEW w \in Workers, Step(w)
    PROVE  TypeInv'
  <1> DEFINE Kept == task' \in [Workers -> TaskStates] /\ TaskInv'
                       /\ excused' \subseteq Plugins
  <1>0. /\ task[w] \in TaskStates /\ ThreadOK(task[w])
        /\ {} \in SUBSET Plugins /\ excused \subseteq Plugins
    BY DEF TypeInv, TypeOK, TaskInv
  <1>1. CASE Fetch(w)
    <2>1. Busy(w) /\ task[w].kind = "get"
      BY <1>0, <1>1 DEF Fetch, At, Busy, ThreadOK
    <2>2. Kept
      BY <1>0, <1>1, <2>1, OnwardType, FailsType DEF Fetch, Phases
    <2> QED BY <1>1, <2>2 DEF Fetch, OnDisk, TypeInv, TypeOK
  <1>2. CASE Open(w)
    <2>1. Busy(w) /\ task[w].kind = "get" /\ task[w].plugin \in Plugins
      BY <1>0, <1>2 DEF Open, At, Busy, ThreadOK
    <2>2. ASSUME NEW found \in Listed
          PROVE  [task[w] EXCEPT !.pc = "clear", !.old = found[task[w].plugin]] \in Threads
      BY <1>0, <2>1, <2>2, NoRecordsType
      DEF Listed, Threads, TaskStates, ThreadOK, Phases, TypeInv, TypeOK, Busy
    <2>3. ASSUME NEW found \in Listed, UNCHANGED excused,
                 task' = [task EXCEPT ![w] = [@ EXCEPT !.pc = "clear",
                                                       !.old = found[task[w].plugin]]]
          PROVE  TypeInv'
      <3> DEFINE new == [task[w] EXCEPT !.pc = "clear", !.old = found[task[w].plugin]]
      <3>1. new \in Threads /\ task' = [task EXCEPT ![w] = new]
        BY <2>2, <2>3
      <3> HIDE DEF new
      <3>2. Kept
        BY <1>0, <2>3, <3>1, OneThread
      <3> QED BY <1>2, <3>2 DEF Open, OnDisk, TypeInv, TypeOK
    <2>4. CASE Fails(w, {})
      <3>1. Kept
        BY <1>0, <2>1, <2>4, FailsType
      <3> QED BY <1>2, <3>1 DEF Open, OnDisk, TypeInv, TypeOK
    <2> QED BY <1>2, <2>3, <2>4 DEF Open
  <1>3. CASE Clear(w)
    <2>1. Busy(w) /\ task[w].kind = "get" /\ task[w].plugin \in Plugins
      BY <1>0, <1>3 DEF Clear, At, Busy, ThreadOK
    <2>2. Kept
      BY <1>0, <1>3, <2>1, OnwardType, FailsType, PluginType DEF Clear, Phases
    <2>3. dirs' \in [Plugins -> {"none", "partial", "whole"}]
      BY <1>3, <2>1 DEF Clear, TypeInv, TypeOK
    <2> QED BY <1>3, <2>2, <2>3 DEF Clear, OnDisk, TypeInv, TypeOK
  <1>4. CASE Extract(w)
    <2>1. Busy(w) /\ task[w].kind = "get" /\ task[w].plugin \in Plugins
      BY <1>0, <1>4 DEF Extract, At, Busy, ThreadOK
    <2>2. Kept
      BY <1>0, <1>4, <2>1, OnwardType, FailsType, PluginType DEF Extract, Phases
    <2>3. dirs' \in [Plugins -> {"none", "partial", "whole"}]
      BY <1>4, <2>1 DEF Extract, TypeInv, TypeOK
    <2> QED BY <1>4, <2>2, <2>3 DEF Extract, OnDisk, TypeInv, TypeOK
  <1>5. CASE Remove(w)
    <2>1. Busy(w) /\ task[w].plugin \in Plugins
      BY <1>0, <1>5 DEF Remove, At, Busy, ThreadOK
    <2>2. Kept
      BY <1>0, <1>5, <2>1, OnwardType, FailsType, PluginType DEF Remove, Phases
    <2>3. dirs' \in [Plugins -> {"none", "partial", "whole"}]
      BY <1>5, <2>1 DEF Remove, TypeInv, TypeOK
    <2> QED BY <1>5, <2>2, <2>3 DEF Remove, OnDisk, TypeInv, TypeOK
  <1>6. CASE Read(w)
    <2>1. PICK found \in Listed :
            IF task[w].kind = "toggle" /\ found[task[w].plugin] = "none"
            THEN Fails(w, {}) /\ UNCHANGED missed
            ELSE LET next == [task EXCEPT ![w] = [@ EXCEPT !.pc = "truncate",
                                                           !.read = found]]
                 IN  IF found # registry \/ \E v \in Workers \ {w} : Rewriting(v)
                     THEN Lossy(next)
                     ELSE task' = next /\ UNCHANGED <<excused, missed>>
      BY <1>6 DEF Read
    <2> DEFINE new == [task[w] EXCEPT !.pc = "truncate", !.read = found]
    <2>2. Busy(w)
      BY <1>6 DEF Read, At, Busy
    <2>3. new \in Threads
      BY <1>0, <2>2, NoRecordsType
      DEF Listed, Threads, TaskStates, ThreadOK, Phases, TypeInv, TypeOK, Busy
    <2>4. Kept /\ missed' \in BOOLEAN
      <3>1. CASE Fails(w, {}) /\ UNCHANGED missed
        BY <1>0, <2>2, <3>1, FailsType DEF TypeInv, TypeOK
      <3>2. CASE Lossy([task EXCEPT ![w] = new])
        BY <2>3, <3>2, AllThreads
      <3>3. CASE task' = [task EXCEPT ![w] = new] /\ UNCHANGED <<excused, missed>>
        BY <1>0, <2>3, <3>3, OneThread DEF TypeInv, TypeOK
      <3> QED BY <2>1, <3>1, <3>2, <3>3
    <2> QED BY <1>6, <2>4 DEF Read, OnDisk, TypeInv, TypeOK
  <1>7. CASE Truncate(w)
    <2>1. Busy(w) /\ "write" \in Phases \ {"free"}
      BY <1>7 DEF Truncate, At, Busy, Phases
    <2>2. Kept
      BY <1>0, <1>7, <2>1, OnwardType, FailsType, PluginType DEF Truncate
    <2> QED BY <1>7, <2>2, NoRecordsType DEF Truncate, OnDisk, TypeInv, TypeOK
  <1>8. CASE Write(w)
    <2>1. Busy(w)
      BY <1>8 DEF Write, At, Busy
    <2>2. Ended(task[w], TRUE) \in Threads /\ Ended(task[w], FALSE) \in Threads
      BY <1>0, <2>1, EndedType DEF Threads, Busy
    <2>3. NewRecord(w) \in Records
      BY <1>0 DEF NewRecord, TaskStates, Records
    <2>4. CASE /\ registry' = [task[w].read EXCEPT ![task[w].plugin] = NewRecord(w)]
               /\ task' = [task EXCEPT ![w] = Ended(@, TRUE)]
               /\ UNCHANGED <<excused, missed>>
      <3>1. Kept
        BY <1>0, <2>2, <2>4, OneThread
      <3>2. registry' \in [Plugins -> Records]
        BY <1>0, <2>3, <2>4 DEF TaskStates
      <3> QED BY <1>8, <2>4, <3>1, <3>2 DEF Write, OnDisk, TypeInv, TypeOK
    <2>5. CASE Lossy([task EXCEPT ![w] = Ended(@, FALSE)]) /\ UNCHANGED registry
      <3>1. Kept /\ missed' \in BOOLEAN
        BY <2>2, <2>5, AllThreads
      <3> QED BY <1>8, <2>5, <3>1 DEF Write, OnDisk, TypeInv, TypeOK
    <2> QED BY <1>8, <2>4, <2>5 DEF Write
  <1>9. CASE Report(w)
    <2>1. Free \in Threads
      BY FreeType DEF Threads
    <2>2. Result(w) \in Results
      BY <1>0 DEF Result, NoResult, Results, TaskStates, Kinds, Records
    <2>3. Kept
      BY <1>0, <1>9, <2>1, OneThread DEF Report
    <2> QED BY <1>9, <2>2, <2>3 DEF Report, TypeInv, TypeOK
  <1> QED BY <1>1, <1>2, <1>3, <1>4, <1>5, <1>6, <1>7, <1>8, <1>9 DEF Step

LEMMA RelistType ==
    ASSUME TypeInv, Relist
    PROVE  installed' \in [Plugins -> Records] /\ missed' \in BOOLEAN
  BY NoRecordsType DEF Relist, Listed, TypeInv, TypeOK

LEMMA NextKeepsTypes ==
    ASSUME TypeInv, [Next]_vars
    PROVE  TypeInv'
  <1>1. CASE RefreshPlugins
    BY <1>1, RelistType DEF RefreshPlugins, TypeInv, TypeOK, TaskInv
  <1>2. CASE Poll
    <2>1. installed' \in [Plugins -> Records] /\ missed' \in BOOLEAN
      <3>1. CASE Relist
        BY <3>1, RelistType
      <3>2. CASE installed' = Switched /\ UNCHANGED missed
        BY <3>2 DEF Switched, Results, TypeInv, TypeOK
      <3> QED BY <1>2, <3>1, <3>2 DEF Poll
    <2>2. slot' \in Results
      BY <1>2 DEF Poll, NoResult, Results, Kinds, Records
    <2> QED BY <1>2, <2>1, <2>2
            DEF Poll, DownloadingAfterPoll, TypeInv, TypeOK, TaskInv
  <1>3. CASE Reopen
    <2>1. Spoilt \subseteq Plugins
      BY DEF Spoilt, TypeInv, TypeOK, TaskInv, ThreadOK, TaskStates
    <2>2. task' \in [Workers -> TaskStates] /\ TaskInv'
      BY <1>3, FreeType DEF Reopen, TaskInv
    <2>3. slot' \in Results
      BY <1>3 DEF Reopen, NoResult, Results, Kinds, Records
    <2>4. installed' \in [Plugins -> Records] /\ missed' \in BOOLEAN
      BY <1>3, NoRecordsType DEF Reopen, Listed, TypeInv, TypeOK
    <2> QED BY <1>3, <2>1, <2>2, <2>3, <2>4 DEF Reopen, TypeInv, TypeOK
  <1>4. CASE UNCHANGED vars
    BY <1>4 DEF vars, TypeInv, TypeOK, TaskInv
  <1> QED BY <1>1, <1>2, <1>3, <1>4, PageStepsKeepTypes, ThreadStepsKeepTypes DEF Next

(* What the steps leave alone *)

Others(w) == \A v \in Workers \ {w} : task'[v] = task[v]

\* A thread keeps its operation and its plugin until it ends.
SameJob(w) == /\ task'[w].kind = task[w].kind
              /\ task'[w].plugin = task[w].plugin
              /\ task'[w].on = task[w].on

LEMMA GotoShape ==
    ASSUME TypeInv, NEW w \in Workers, NEW pc, Goto(w, pc)
    PROVE  /\ Others(w) /\ SameJob(w)
           /\ task'[w].pc = pc /\ task'[w].alone = task[w].alone
           /\ task'[w].read = task[w].read /\ task'[w].ok = task[w].ok
  BY DEF TypeInv, TypeOK, TaskStates, Goto, Others, SameJob

LEMMA EndedShape ==
    ASSUME TypeInv, NEW w \in Workers, NEW ok \in BOOLEAN,
           task' = [task EXCEPT ![w] = Ended(@, ok)]
    PROVE  /\ Others(w) /\ SameJob(w)
           /\ task'[w].pc = "report" /\ task'[w].alone = task[w].alone
           /\ task'[w].ok = ok
  BY DEF TypeInv, TypeOK, TaskStates, Ended, Others, SameJob

LEMMA FailsShape ==
    ASSUME TypeInv, NEW w \in Workers, NEW spoilt, Fails(w, spoilt)
    PROVE  /\ Others(w) /\ SameJob(w)
           /\ task'[w].pc = "report" /\ task'[w].alone = task[w].alone
           /\ task'[w].ok = FALSE
           /\ excused' = excused \cup spoilt
  BY EndedShape DEF Fails

LEMMA OpenShape ==
    ASSUME TypeInv, NEW w \in Workers, NEW old,
           task' = [task EXCEPT ![w] = [@ EXCEPT !.pc = "clear", !.old = old]]
    PROVE  /\ Others(w) /\ SameJob(w)
           /\ task'[w].pc = "clear" /\ task'[w].alone = task[w].alone
  BY DEF TypeInv, TypeOK, TaskStates, Others, SameJob

LEMMA ReadShape ==
    ASSUME TypeInv, NEW w \in Workers, NEW found,
           task' = [task EXCEPT ![w] = [@ EXCEPT !.pc = "truncate", !.read = found]]
    PROVE  /\ Others(w) /\ SameJob(w)
           /\ task'[w].pc = "truncate" /\ task'[w].alone = task[w].alone
           /\ task'[w].read = found
  BY DEF TypeInv, TypeOK, TaskStates, Others, SameJob

LEMMA LossyShape ==
    ASSUME TypeInv, NEW w \in Workers, NEW t \in TaskStates,
           t.kind = task[w].kind, t.plugin = task[w].plugin, t.on = task[w].on,
           Lossy([task EXCEPT ![w] = t])
    PROVE  /\ \A v \in Workers : SameJob(v) /\ task'[v].alone = FALSE
           /\ \A v \in Workers \ {w} : task'[v].pc = task[v].pc
           /\ task'[w].pc = t.pc
           /\ excused' = Plugins
  BY DEF TypeInv, TypeOK, TaskStates, Lossy, SameJob

\* The two steps that may end in it.
LEMMA ReadIsLossy ==
    ASSUME TypeInv, NEW w \in Workers, NEW found \in Listed,
           Lossy([task EXCEPT ![w] = [@ EXCEPT !.pc = "truncate", !.read = found]])
    PROVE  /\ \A v \in Workers : SameJob(v) /\ task'[v].alone = FALSE
           /\ \A v \in Workers \ {w} : task'[v].pc = task[v].pc
           /\ task'[w].pc = "truncate"
           /\ excused' = Plugins
  <1> DEFINE t == [task[w] EXCEPT !.pc = "truncate", !.read = found]
  <1>1. /\ t \in TaskStates /\ t.kind = task[w].kind /\ t.plugin = task[w].plugin
        /\ t.on = task[w].on /\ t.pc = "truncate"
    BY NoRecordsType DEF Listed, TypeInv, TypeOK, TaskStates, Phases
  <1>2. Lossy([task EXCEPT ![w] = t])
    OBVIOUS
  <1> QED BY <1>1, <1>2, LossyShape

LEMMA WriteIsLossy ==
    ASSUME TypeInv, NEW w \in Workers, Lossy([task EXCEPT ![w] = Ended(@, FALSE)])
    PROVE  /\ \A v \in Workers : SameJob(v) /\ task'[v].alone = FALSE
           /\ \A v \in Workers \ {w} : task'[v].pc = task[v].pc
           /\ task'[w].pc = "report"
           /\ excused' = Plugins
  <1> DEFINE t == Ended(task[w], FALSE)
  <1>1. /\ t \in TaskStates /\ t.kind = task[w].kind /\ t.plugin = task[w].plugin
        /\ t.on = task[w].on /\ t.pc = "report"
    <2>1. task[w] \in TaskStates
      BY DEF TypeInv, TypeOK
    <2> QED BY <2>1, NoRecordsType DEF TaskStates, Phases, Ended, Records
  <1>2. Lossy([task EXCEPT ![w] = t])
    OBVIOUS
  <1> QED BY <1>1, <1>2, LossyShape

LEMMA StartShape ==
    ASSUME TypeInv, NEW w \in Workers, NEW kind \in Kinds, NEW p \in Plugins,
           NEW pc \in Phases, NEW on \in Records, Start(w, kind, p, pc, on)
    PROVE  /\ task[w].pc = "free"
           /\ task'[w].kind = kind /\ task'[w].plugin = p /\ task'[w].pc = pc
           /\ \A v \in Workers \ {w} :
                /\ SameJob(v) /\ task'[v].pc = task[v].pc
                /\ task'[v].read = task[v].read /\ task'[v].ok = task[v].ok
                /\ task'[v].alone <=> task[v].alone /\ task[v].plugin # p
           /\ task'[w].alone => \A v \in Workers \ {w} : task[v].plugin # p
           /\ excused' \in {excused, excused \cup {p}}
           /\ ~task'[w].alone => p \in excused'
  <1> DEFINE others == {v \in Workers : Busy(v) /\ task[v].plugin = p}
             new == [Free EXCEPT !.kind = kind, !.plugin = p, !.pc = pc, !.on = on,
                                 !.alone = others = {}]
  <1>1. /\ ~Busy(w)
        /\ excused' = IF others = {} THEN excused ELSE excused \cup {p}
        /\ task' = [v \in Workers |->
                   IF v = w THEN new
                   ELSE IF v \in others THEN [task[v] EXCEPT !.alone = FALSE]
                   ELSE task[v]]
    BY DEF Start
  <1>2. others = {v \in Workers \ {w} : task[v].plugin = p}
    BY <1>1, PluginAssumption DEF TypeInv, TaskInv, ThreadOK, Busy
  <1>3. /\ new.kind = kind /\ new.plugin = p /\ new.pc = pc
        /\ new.alone = (others = {})
    BY DEF Free
  <1>4. others = {} <=> \A v \in Workers \ {w} : task[v].plugin # p
    BY <1>2
  <1> HIDE DEF new
  <1>5. ASSUME NEW v \in Workers \ {w}
        PROVE  /\ SameJob(v) /\ task'[v].pc = task[v].pc
               /\ task'[v].read = task[v].read /\ task'[v].ok = task[v].ok
               /\ task'[v].alone <=> task[v].alone /\ task[v].plugin # p
    <2>1. task[v] \in TaskStates
      BY DEF TypeInv, TypeOK
    <2>2. v \in others <=> task[v].plugin = p
      BY <1>2
    <2> HIDE DEF others
    <2> QED BY <1>1, <2>1, <2>2 DEF TaskStates, SameJob
  <1> HIDE DEF others
  <1> QED BY <1>1, <1>3, <1>4, <1>5 DEF Busy

(* The page's download *)

LEMMA InitTypes ==
    ASSUME Init PROVE TypeInv
  <1>1. TaskInv /\ task \in [Workers -> TaskStates]
    BY FreeType DEF Init, TaskInv
  <1>2. slot \in Results
    BY DEF Init, NoResult, Results, Kinds, Records
  <1>3. dirs \in [Plugins -> {"none", "partial", "whole"}]
    BY DEF Init
  <1>4. started \in 0 .. MaxTasks
    BY PluginAssumption DEF Init
  <1> QED BY <1>1, <1>2, <1>3, <1>4 DEF Init, TypeInv, TypeOK

\* Types are right in every reachable state of the plugin pages, whatever fails on
\* the disk and whenever the window is closed.
THEOREM TypeCorrect == Spec => []TypeOK
  <1>1. Init => TypeInv
    BY InitTypes
  <1>2. TypeInv /\ [Next]_vars => TypeInv'
    BY NextKeepsTypes
  <1>3. TypeInv => TypeOK
    BY DEF TypeInv
  <1> QED BY <1>1, <1>2, <1>3, PTL DEF Spec

LEMMA NextKeepsDownload ==
    ASSUME TypeInv, DownloadIsAlive, [Next]_vars
    PROVE  DownloadIsAlive'
  <1>1. ASSUME NEW w \in Workers, NEW p \in Plugins, Get(w, p)
        PROVE  DownloadIsAlive'
    <2>1. downloading' = p /\ Start(w, "get", p, "fetch", "none")
      BY <1>1 DEF Get
    <2>2. task'[w].kind = "get" /\ task'[w].plugin = p
      BY <2>1, StartShape DEF Kinds, Phases, Records
    <2> QED BY <2>1, <2>2 DEF DownloadIsAlive
  <1>2. ASSUME NEW w \in Workers, NEW p \in Plugins, Uninstall(w, p) \/ Toggle(w, p)
        PROVE  DownloadIsAlive'
    <2>1. /\ ~Busy(w) /\ UNCHANGED <<downloading, slot>>
          /\ \A v \in Workers \ {w} : /\ task'[v].kind = task[v].kind
                                      /\ task'[v].plugin = task[v].plugin
      <3>1. PICK kind \in Kinds, pc \in Phases, on \in Records : Start(w, kind, p, pc, on)
        BY <1>2 DEF Uninstall, Toggle, Kinds, Phases, Records
      <3> QED BY <1>2, <3>1, StartShape DEF Uninstall, Toggle, SameJob, Busy
    <2>2. task[w].kind # "get"
      BY <2>1 DEF TypeInv, TaskInv, ThreadOK, Busy
    <2> QED BY <2>1, <2>2 DEF DownloadIsAlive
  <1>3. ASSUME NEW w \in Workers, Step(w), ~Report(w)
        PROVE  DownloadIsAlive'
    <2>1. /\ UNCHANGED <<downloading, slot>>
          /\ \A v \in Workers : /\ task'[v].kind = task[v].kind
                                /\ task'[v].plugin = task[v].plugin
      <3>1. CASE Fetch(w) \/ Clear(w) \/ Extract(w) \/ Remove(w) \/ Truncate(w)
        BY <3>1, GotoShape, FailsShape
        DEF Fetch, Clear, Extract, Remove, Truncate, OnDisk, Others, SameJob
      <3>2. CASE Open(w)
        BY <3>2, OpenShape, FailsShape DEF Open, OnDisk, Others, SameJob
      <3>3. CASE Read(w)
        BY <3>3, ReadShape, ReadIsLossy, FailsShape DEF Read, OnDisk, Others, SameJob
      <3>4. CASE Write(w)
        BY <3>4, EndedShape, WriteIsLossy DEF Write, OnDisk, Others, SameJob
      <3> QED BY <1>3, <3>1, <3>2, <3>3, <3>4 DEF Step
    <2> QED BY <2>1 DEF DownloadIsAlive
  <1>4. ASSUME NEW w \in Workers, Report(w)
        PROVE  DownloadIsAlive'
    <2>1. task[w].kind # "none"
      BY <1>4 DEF Report, At, TypeInv, TaskInv, ThreadOK
    <2>2. Result(w).kind # "none"
      BY <2>1 DEF Result, NoResult
    <2> QED BY <1>4, <2>2 DEF Report, NoResult, DownloadIsAlive
  <1>5. CASE RefreshPlugins
    BY <1>5 DEF RefreshPlugins, DownloadIsAlive
  <1>6. CASE Poll \/ Reopen
    BY <1>6 DEF Poll, DownloadingAfterPoll, Reopen, DownloadIsAlive
  <1>7. CASE UNCHANGED vars
    BY <1>7 DEF vars, DownloadIsAlive
  <1> QED BY <1>1, <1>2, <1>3, <1>4, <1>5, <1>6, <1>7 DEF Next

\* The page is never left saying "downloading" by a thread that is over, for any
\* number of plugins and threads, although results are lost in the slot.
THEOREM DownloadIsAliveAlways == Spec => []DownloadIsAlive
  <1>1. Init => TypeInv /\ DownloadIsAlive
    BY InitTypes DEF Init, DownloadIsAlive
  <1>2. TypeInv /\ DownloadIsAlive /\ [Next]_vars => TypeInv' /\ DownloadIsAlive'
    BY NextKeepsTypes, NextKeepsDownload
  <1> QED BY <1>1, <1>2, PTL DEF Spec

(* Registry and directories *)

LEMMA InitDisk ==
    ASSUME Init PROVE DiskInv
  <1>1. \A w \in Workers : task[w].pc = "free" /\ task[w].alone
    BY DEF Init, Free
  <1>2. \A p \in Plugins : Sound(p)
    BY <1>1 DEF Init, Sound, Agree, Rewriting, At
  <1> QED BY <1>1, <1>2 DEF DiskInv, AloneInv, StageInv, RestInv, Busy, Rewriting, At

\* A step of one thread outside the registry, which leaves the files alone.
LEMMA QuietStep ==
    ASSUME TypeInv, DiskInv, NEW w \in Workers, Busy(w), ~Rewriting(w),
           Others(w), SameJob(w), task'[w].alone = task[w].alone,
           UNCHANGED <<registry, dirs, excused>>,
           \/ task[w].pc \in {"fetch", "open", "clear", "remove"}
           \/ At(w, "read") /\ task[w].kind = "toggle",
           \/ task'[w].pc \in {"fetch", "open", "clear", "remove"}
           \/ task'[w].pc = "report" /\ task'[w].ok = FALSE
    PROVE  DiskInv'
  <1>1. \A v \in Workers : (Rewriting(v))' <=> Rewriting(v)
    BY DEF Others, Rewriting
  <1>2. \A v \in Workers : (At(v, "write"))' <=> At(v, "write")
    BY DEF Others, Rewriting, At
  <1>3. \A v \in Workers : SameJob(v) /\ task'[v].alone = task[v].alone
    BY DEF Others, SameJob
  <1>4. \A p \in Plugins : Sound(p) => Sound(p)'
    BY <1>1, <1>2, <1>3 DEF Sound, Others, SameJob, Rewriting
  <1>5. AloneInv'
    BY <1>1, <1>3 DEF DiskInv, AloneInv, Others, SameJob, Busy
  <1>6. StageInv'
    BY <1>1, <1>3, <1>4, PluginType DEF DiskInv, StageInv, Others, SameJob, At, Busy, Rewriting
  <1>7. RestInv'
    BY <1>3, <1>4 DEF DiskInv, RestInv, SameJob
  <1> QED BY <1>5, <1>6, <1>7 DEF DiskInv

\* A thread fails and may leave its plugin half done.
LEMMA SpoilingStep ==
    ASSUME TypeInv, DiskInv, NEW w \in Workers, Busy(w), ~At(w, "write"),
           Others(w), SameJob(w), task'[w].alone = task[w].alone,
           task'[w].pc = "report", task'[w].ok = FALSE,
           excused' = excused \cup {task[w].plugin}, UNCHANGED registry,
           \A q \in Plugins \ {task[w].plugin} : dirs'[q] = dirs[q]
    PROVE  DiskInv'
  <1>1. \A v \in Workers : (Rewriting(v))' => Rewriting(v)
    BY DEF Others, Rewriting
  <1>2. \A v \in Workers : (At(v, "write"))' <=> At(v, "write")
    BY DEF Others, At
  <1>3. \A v \in Workers : SameJob(v) /\ task'[v].alone = task[v].alone
    BY DEF Others, SameJob
  <1>4. \A q \in Plugins \ {task[w].plugin} : Sound(q) => Sound(q)'
    BY <1>1, <1>2, <1>3 DEF Sound, Others, SameJob, Rewriting
  <1>5. AloneInv'
    BY <1>1, <1>3 DEF DiskInv, AloneInv, Others, SameJob, Busy
  <1>6. StageInv'
    <2>1. \A v \in Workers \ {w} : Busy(v) /\ task[v].alone => task[v].plugin # task[w].plugin
      BY DEF DiskInv, AloneInv
    <2> QED BY <1>1, <1>3, <1>4, <2>1, PluginType
            DEF DiskInv, StageInv, Others, SameJob, At, Busy, Rewriting
  <1>7. RestInv'
    BY <1>3, <1>4 DEF DiskInv, RestInv, SameJob
  <1> QED BY <1>5, <1>6, <1>7 DEF DiskInv

\* A thread changes its plugin's directory.
LEMMA DirectoryStep ==
    ASSUME TypeInv, DiskInv, NEW w \in Workers, Busy(w), ~Rewriting(w),
           Others(w), SameJob(w), task'[w].alone = task[w].alone,
           UNCHANGED <<registry, excused>>,
           \A q \in Plugins \ {task[w].plugin} : dirs'[q] = dirs[q],
           \/ task'[w].pc = "extract"
           \/ /\ task'[w].pc = "read" /\ task[w].kind \in {"get", "uninstall"}
              /\ task[w].alone =>
                   dirs'[task[w].plugin] = IF task[w].kind = "get" THEN "whole" ELSE "none"
    PROVE  DiskInv'
  <1>1. \A v \in Workers : (Rewriting(v))' <=> Rewriting(v)
    BY DEF Others, Rewriting
  <1>2. \A v \in Workers : (At(v, "write"))' <=> At(v, "write")
    BY DEF Others, At, Rewriting
  <1>3. \A v \in Workers : SameJob(v) /\ task'[v].alone = task[v].alone
    BY DEF Others, SameJob
  <1>4. \A q \in Plugins \ {task[w].plugin} : Sound(q) => Sound(q)'
    BY <1>1, <1>2, <1>3 DEF Sound, Others, SameJob, Rewriting
  <1>5. AloneInv'
    BY <1>1, <1>3 DEF DiskInv, AloneInv, Others, SameJob, Busy
  <1>6. StageInv'
    <2>1. \A v \in Workers \ {w} : Busy(v) /\ task[v].alone => task[v].plugin # task[w].plugin
      BY DEF DiskInv, AloneInv
    <2> QED BY <1>1, <1>3, <1>4, <2>1, PluginType
            DEF DiskInv, StageInv, Others, SameJob, At, Busy, Rewriting
  <1>7. RestInv'
    BY <1>3, <1>4 DEF DiskInv, RestInv, SameJob
  <1> QED BY <1>5, <1>6, <1>7 DEF DiskInv

\* A thread reads the registry while no other is rewriting it.
LEMMA ReadingStep ==
    ASSUME TypeInv, DiskInv, NEW w \in Workers, At(w, "read"),
           \A v \in Workers \ {w} : ~Rewriting(v),
           Others(w), SameJob(w), task'[w].alone = task[w].alone,
           task'[w].pc = "truncate", task'[w].read = registry,
           task[w].kind = "toggle" => registry[task[w].plugin] # "none",
           UNCHANGED <<registry, dirs, excused>>
    PROVE  DiskInv'
  <1>1. \A v \in Workers : ~At(v, "write") /\ (Rewriting(v))' => v = w
    BY DEF Others, Rewriting, At
  <1>2. \A v \in Workers : ~(At(v, "write"))'
    BY DEF Others, Rewriting, At
  <1>3. \A v \in Workers : SameJob(v) /\ task'[v].alone = task[v].alone
    BY DEF Others, SameJob
  <1>4. \A q \in Plugins : Sound(q) => Sound(q)'
    BY <1>1, <1>2 DEF Sound, Others, Rewriting, At
  <1>5. AloneInv'
    BY <1>1, <1>3 DEF DiskInv, AloneInv, Others, SameJob, Busy, Rewriting, At
  <1>6. StageInv'
    <2>1. Sound(task[w].plugin) => Agree(registry[task[w].plugin], dirs[task[w].plugin])
      BY DEF Sound, Rewriting, At
    <2> QED BY <1>3, <1>4, <2>1, PluginType
            DEF DiskInv, StageInv, Others, SameJob, At, Busy, Rewriting, Agree
  <1>7. RestInv'
    BY <1>3, <1>4 DEF DiskInv, RestInv, SameJob
  <1> QED BY <1>5, <1>6, <1>7 DEF DiskInv

\* A thread empties the file: what it read is all there is of the registry.
LEMMA TruncatingStep ==
    ASSUME TypeInv, DiskInv, NEW w \in Workers, At(w, "truncate"),
           Others(w), SameJob(w), task'[w].alone = task[w].alone,
           task'[w].pc = "write", task'[w].read = task[w].read,
           UNCHANGED <<dirs, excused>>
    PROVE  DiskInv'
  <1>1. \A v \in Workers : (Rewriting(v))' <=> Rewriting(v)
    BY DEF Others, Rewriting, At
  <1>2. (At(w, "write"))'
    BY DEF At
  <1>3. \A v \in Workers : /\ SameJob(v) /\ task'[v].alone = task[v].alone
                           /\ task'[v].read = task[v].read
    BY DEF Others, SameJob
  <1>4. \A q \in Plugins : Sound(q) => Sound(q)'
    BY <1>1, <1>2, <1>3 DEF Sound, SameJob
  <1>5. AloneInv'
    BY <1>1, <1>3 DEF DiskInv, AloneInv, Others, SameJob, Busy, At
  <1>6. StageInv'
    BY <1>1, <1>3, <1>4, PluginType DEF DiskInv, StageInv, Others, SameJob, At, Busy, Rewriting
  <1>7. RestInv'
    BY <1>3, <1>4 DEF DiskInv, RestInv, SameJob
  <1> QED BY <1>5, <1>6, <1>7 DEF DiskInv

\* A thread writes back what it read, with its own plugin's record changed.
LEMMA WritingStep ==
    ASSUME TypeInv, DiskInv, NEW w \in Workers, At(w, "write"),
           Others(w), SameJob(w), task'[w].alone = task[w].alone,
           task'[w].pc = "report",
           registry' = [task[w].read EXCEPT ![task[w].plugin] = NewRecord(w)],
           UNCHANGED <<dirs, excused>>
    PROVE  DiskInv'
  <1> DEFINE p == task[w].plugin
  <1>0. /\ task[w] \in TaskStates /\ ThreadOK(task[w])
        /\ p \in Plugins /\ Rewriting(w) /\ Busy(w)
    BY PluginType DEF TypeInv, TypeOK, TaskInv, At, Busy, Rewriting
  <1>1. \A v \in Workers : (Rewriting(v))' <=> v # w /\ Rewriting(v)
    BY DEF Others, Rewriting, At
  <1>2. \A v \in Workers : SameJob(v) /\ task'[v].alone = task[v].alone
    BY DEF Others, SameJob
  <1>3. registry'[p] = NewRecord(w) /\ \A q \in Plugins \ {p} : registry'[q] = task[w].read[q]
    BY <1>0 DEF TaskStates
  <1>4. \A q \in Plugins \ {p} : Sound(q) => Sound(q)'
    BY <1>0, <1>1, <1>2, <1>3 DEF Sound, SameJob, Others
  <1>5. task[w].alone /\ (task[w].kind # "toggle" \/ p \notin excused) => Sound(p)'
    <2> HAVE task[w].alone /\ (task[w].kind # "toggle" \/ p \notin excused)
    <2>1. \A v \in Workers : ~(Rewriting(v))'
      BY <1>0, <1>1 DEF DiskInv, AloneInv
    <2>2. dirs[p] = IF task[w].kind = "uninstall" THEN "none" ELSE "whole"
      BY <1>0 DEF DiskInv, StageInv, TaskStates, Kinds, ThreadOK, Busy
    <2>3. NewRecord(w) = "none" <=> task[w].kind = "uninstall"
      BY <1>0 DEF NewRecord, TaskStates, Kinds, ThreadOK, Busy
    <2>4. task'[w].plugin = p
      BY DEF SameJob
    <2> QED BY <1>3, <2>1, <2>2, <2>3, <2>4 DEF Sound, Agree
  <1> HIDE DEF p
  <1>6. AloneInv'
    BY <1>1, <1>2 DEF DiskInv, AloneInv, Others, SameJob, Busy, At
  <1>7. StageInv'
    <2>1. \A v \in Workers \ {w} : Busy(v) /\ task[v].alone => task[v].plugin # p
      BY DEF DiskInv, AloneInv, p
    <2>2. ASSUME NEW v \in Workers \ {w}
          PROVE  /\ task'[v] = task[v] /\ ((Rewriting(v))' <=> Rewriting(v))
                 /\ Busy(v) => task[v].plugin \in Plugins
      BY <1>1, PluginType DEF Others
    <2>3. \A v \in Workers \ {w} : Busy(v) /\ task[v].alone /\ Sound(task[v].plugin)
                                   => Sound(task[v].plugin)'
      BY <1>2, <1>4, <2>1, <2>2 DEF SameJob
    <2>4. task'[w].pc = "report" /\ task'[w].plugin = p /\ task'[w].kind = task[w].kind
      BY <1>2 DEF SameJob, p
    <2>5. ~(Rewriting(w))'
      BY <1>1
    <2> QED BY <1>2, <1>5, <2>2, <2>3, <2>4, <2>5 DEF DiskInv, StageInv, At, Busy, p
  <1>8. RestInv'
    BY <1>2, <1>4 DEF DiskInv, RestInv, SameJob, p
  <1> QED BY <1>6, <1>7, <1>8 DEF DiskInv

\* Nothing is vouched for any more.
LEMMA LossyStep ==
    ASSUME TypeInv', \A v \in Workers : task'[v].alone = FALSE, excused' = Plugins
    PROVE  DiskInv'
  BY DEF TypeInv, TaskInv, ThreadOK, DiskInv, AloneInv, StageInv, RestInv, Busy

\* A thread leaves its result and is gone.
LEMMA ReportingStep ==
    ASSUME TypeInv, DiskInv, NEW w \in Workers, Report(w)
    PROVE  DiskInv'
  <1> DEFINE p == task[w].plugin
             settled == task[w].ok /\ task[w].alone /\ task[w].kind # "toggle"
  <1>1. /\ At(w, "report") /\ Others(w) /\ UNCHANGED <<registry, dirs>>
        /\ excused' = IF settled THEN excused \ {p} ELSE excused
    BY DEF Report, Others
  <1>2. /\ task'[w].pc = "free" /\ task'[w].plugin = NoPlugin
        /\ p \in Plugins /\ Busy(w)
    BY <1>1, PluginType DEF Report, Free, TypeInv, TypeOK, At, Busy
  <1>3. \A v \in Workers : (Rewriting(v))' <=> Rewriting(v)
    BY <1>1, <1>2 DEF Others, Rewriting, At
  <1>4. \A v \in Workers : (At(v, "write"))' <=> At(v, "write")
    BY <1>1, <1>2 DEF Others, At
  <1>5. \A q \in Plugins : Sound(q) => Sound(q)'
    BY <1>1, <1>2, <1>3, <1>4 DEF Sound, Others, Rewriting, At
  <1>6. \A v \in Workers \ {w} :
          Busy(v) /\ task[v].plugin = p => ~task[w].alone /\ ~task[v].alone
    BY DEF DiskInv, AloneInv
  <1>7. ~task[w].alone => p \in excused
    BY <1>2 DEF DiskInv, AloneInv
  <1>8. task[w].alone /\ (p \notin excused \/ settled) => Sound(p)
    BY <1>1 DEF DiskInv, StageInv
  <1> HIDE DEF p, settled
  <1>9. AloneInv'
    <2>1. \A v \in Workers \ {w} :
            Busy(v) /\ ~task[v].alone => task[v].plugin \in excused'
      BY <1>1, <1>6 DEF DiskInv, AloneInv, settled
    <2>2. ASSUME NEW u \in Workers, NEW v \in Workers, u # v,
                 \/ (Busy(u))' /\ task'[u].plugin = task'[v].plugin
                 \/ (Rewriting(u))' /\ (Rewriting(v))'
          PROVE  ~task'[u].alone /\ ~task'[v].alone
      <3>1. u # w /\ Busy(u) /\ task[u].plugin \in Plugins
        BY <1>1, <1>2, <2>2, PluginType DEF Others, Busy, Rewriting
      <3>2. v # w
        BY <1>1, <1>2, <2>2, <3>1, PluginAssumption DEF Others, Rewriting
      <3> QED BY <1>1, <1>3, <2>2, <3>1, <3>2 DEF DiskInv, AloneInv, Others
    <2> QED BY <1>1, <1>2, <2>1, <2>2 DEF AloneInv, Others, Busy
  <1>10. StageInv'
    <2>1. ASSUME NEW v \in Workers \ {w}, Busy(v), task[v].alone
          PROVE  task[v].plugin \in Plugins /\ task[v].plugin # p
      BY <1>6, <2>1, PluginType
    <2> QED BY <1>1, <1>2, <1>3, <1>5, <2>1
            DEF DiskInv, StageInv, Others, At, Busy, Rewriting
  <1>11. RestInv'
    <2>1. ASSUME NEW q \in Plugins \ excused', \A v \in Workers : task'[v].plugin # q
          PROVE  Sound(q)'
      <3>1. CASE q = p
        BY <1>1, <1>5, <1>7, <1>8, <2>1, <3>1 DEF settled
      <3>2. CASE q # p
        BY <1>1, <1>5, <2>1, <3>2 DEF DiskInv, RestInv, Others, p
      <3> QED BY <3>1, <3>2
    <2> QED BY <2>1 DEF RestInv
  <1> QED BY <1>9, <1>10, <1>11 DEF DiskInv

\* The page starts a thread.
LEMMA StartingStep ==
    ASSUME TypeInv, DiskInv, NEW w \in Workers, NEW kind \in Kinds, NEW p \in Plugins,
           NEW pc \in Phases, NEW on \in Records, Start(w, kind, p, pc, on),
           pc \in {"fetch", "remove"} \/ (pc = "read" /\ kind = "toggle"),
           UNCHANGED <<registry, dirs>>
    PROVE  DiskInv'
  <1>1. /\ task[w].pc = "free" /\ task[w].plugin = NoPlugin /\ NoPlugin \notin Plugins
        /\ task'[w].kind = kind /\ task'[w].plugin = p /\ task'[w].pc = pc
        /\ task'[w].alone => \A v \in Workers \ {w} : task[v].plugin # p
        /\ excused' \in {excused, excused \cup {p}}
        /\ ~task'[w].alone => p \in excused'
    BY StartShape, PluginAssumption DEF TypeInv, TaskInv, ThreadOK
  <1>2. \A v \in Workers \ {w} :
          /\ SameJob(v) /\ task'[v].pc = task[v].pc
          /\ task'[v].read = task[v].read /\ task'[v].ok = task[v].ok
          /\ task'[v].alone <=> task[v].alone /\ task[v].plugin # p
    BY StartShape
  <1>3. ~Rewriting(w) /\ ~(Rewriting(w))'
    BY <1>1 DEF Rewriting
  <1>4. \A v \in Workers : /\ (Rewriting(v))' <=> Rewriting(v)
                           /\ (At(v, "write"))' <=> At(v, "write")
    BY <1>1, <1>2, <1>3 DEF Rewriting, At
  <1>5. \A q \in Plugins : Sound(q) => Sound(q)'
    BY <1>2, <1>3, <1>4 DEF Sound, SameJob
  <1>6. AloneInv'
    <2>1. \A v \in Workers : (Busy(v))' /\ ~task'[v].alone => task'[v].plugin \in excused'
      BY <1>1, <1>2 DEF DiskInv, AloneInv, SameJob, Busy
    <2>2. ASSUME NEW u \in Workers, NEW v \in Workers, u # v,
                 \/ (Busy(u))' /\ task'[u].plugin = task'[v].plugin
                 \/ (Rewriting(u))' /\ (Rewriting(v))'
          PROVE  ~task'[u].alone /\ ~task'[v].alone
      <3>1. CASE u = w
        <4>1. task[v].plugin = p
          BY <1>1, <1>2, <1>3, <2>2, <3>1 DEF SameJob
        <4> QED BY <1>1, <1>2, <2>2, <3>1, <4>1
      <3>2. CASE v = w
        <4>1. task[u].plugin = p
          BY <1>1, <1>2, <1>3, <2>2, <3>2 DEF SameJob
        <4> QED BY <1>1, <1>2, <2>2, <3>2, <4>1
      <3>3. CASE u # w /\ v # w
        BY <1>2, <1>4, <2>2, <3>3 DEF DiskInv, AloneInv, SameJob, Busy
      <3> QED BY <3>1, <3>2, <3>3
    <2> QED BY <2>1, <2>2 DEF AloneInv
  <1>7. StageInv'
    <2>1. task'[w].alone /\ p \notin excused' => Sound(p)'
      BY <1>1, <1>5 DEF DiskInv, RestInv
    <2>2. ASSUME NEW v \in Workers \ {w}, Busy(v), task'[v].alone
          PROVE  /\ task[v].plugin \in Plugins \ {p} /\ task[v].alone
                 /\ task[v].plugin \in excused' <=> task[v].plugin \in excused
                 /\ Sound(task[v].plugin) => Sound(task[v].plugin)'
      BY <1>1, <1>2, <1>5, <2>2, PluginType DEF SameJob
    <2> QED BY <1>1, <1>2, <1>3, <1>4, <2>1, <2>2
            DEF DiskInv, StageInv, SameJob, At, Busy, Rewriting
  <1>8. RestInv'
    <2>1. ASSUME NEW q \in Plugins \ excused', \A v \in Workers : task'[v].plugin # q
          PROVE  \A v \in Workers : task[v].plugin # q
      BY <1>1, <1>2, <2>1 DEF SameJob
    <2> QED BY <1>1, <1>5, <2>1 DEF DiskInv, RestInv
  <1> QED BY <1>6, <1>7, <1>8 DEF DiskInv

\* The window is closed and the application started again.
LEMMA ReopeningStep ==
    ASSUME TypeInv, DiskInv, Reopen
    PROVE  DiskInv'
  <1>1. /\ \A w \in Workers : task'[w].pc = "free" /\ task'[w].alone
        /\ excused' = excused \cup Spoilt /\ UNCHANGED <<registry, dirs>>
    BY DEF Reopen, Free
  <1>2. ASSUME NEW p \in Plugins \ excused' PROVE Sound(p)
    <2>1. p \notin excused /\ p \notin Spoilt
      BY <1>1
    <2>2. \A w \in Workers : task[w].plugin = p =>
            /\ task[w].alone /\ Busy(w)
            /\ task[w].pc \notin {"extract", "read", "truncate", "write"}
      BY <2>1, PluginAssumption
      DEF Spoilt, At, Busy, DiskInv, AloneInv, TypeInv, TaskInv, ThreadOK
    <2>3. ASSUME NEW w \in Workers, task[w].plugin = p PROVE Sound(p)
      <3>1. task[w].pc \in {"fetch", "open", "clear", "remove", "report"} /\ task[w].alone
        BY <2>2, <2>3 DEF Busy, TypeInv, TypeOK, TaskStates, Phases
      <3> QED BY <2>1, <2>3, <3>1 DEF DiskInv, StageInv, At
    <2> QED BY <2>1, <2>3 DEF DiskInv, RestInv
  <1>3. \A p \in Plugins \ excused' : \A w \in Workers : ~At(w, "write")
    BY <1>1 DEF Spoilt
  <1>4. \A p \in Plugins \ excused' : Sound(p)'
    BY <1>1, <1>2, <1>3 DEF Sound, Rewriting, At
  <1> QED BY <1>1, <1>4 DEF DiskInv, AloneInv, StageInv, RestInv, Busy, Rewriting, At

\* The steps of a thread.
LEMMA ThreadStepsKeepDisk ==
    ASSUME TypeInv, DiskInv, NEW w \in Workers, Step(w)
    PROVE  DiskInv'
  <1>0. TypeInv' /\ ThreadOK(task[w])
    BY ThreadStepsKeepTypes DEF TypeInv, TaskInv
  <1>1. CASE Fetch(w)
    <2>1. /\ Busy(w) /\ ~Rewriting(w) /\ task[w].pc = "fetch"
          /\ UNCHANGED <<registry, dirs, excused>>
          /\ Goto(w, "open") \/ Fails(w, {})
      BY <1>1 DEF Fetch, Fails, At, Busy, Rewriting
    <2> QED BY <2>1, GotoShape, FailsShape, QuietStep
  <1>2. CASE Open(w)
    <2>1. /\ Busy(w) /\ ~Rewriting(w) /\ task[w].pc = "open"
          /\ UNCHANGED <<registry, dirs, excused>>
      BY <1>2 DEF Open, Fails, At, Busy, Rewriting
    <2>2. /\ Others(w) /\ SameJob(w) /\ task'[w].alone = task[w].alone
          /\ task'[w].pc = "clear" \/ (task'[w].pc = "report" /\ task'[w].ok = FALSE)
      BY <1>2, OpenShape, FailsShape DEF Open
    <2> QED BY <2>1, <2>2, QuietStep
  <1>3. CASE Clear(w)
    <2>1. /\ Busy(w) /\ ~Rewriting(w) /\ ~At(w, "write") /\ UNCHANGED registry
          /\ \A q \in Plugins \ {task[w].plugin} : dirs'[q] = dirs[q]
      BY <1>3 DEF Clear, At, Busy, Rewriting, TypeInv, TypeOK
    <2>2. CASE Goto(w, "extract") /\ UNCHANGED excused
      BY <2>1, <2>2, GotoShape, DirectoryStep
    <2>3. CASE Fails(w, {task[w].plugin})
      BY <2>1, <2>3, FailsShape, SpoilingStep
    <2> QED BY <1>3, <2>2, <2>3 DEF Clear
  <1>4. CASE Extract(w)
    <2>1. /\ Busy(w) /\ ~Rewriting(w) /\ ~At(w, "write") /\ UNCHANGED registry
          /\ \A q \in Plugins \ {task[w].plugin} : dirs'[q] = dirs[q]
          /\ task[w].kind = "get" /\ task[w].plugin \in Plugins
      BY <1>0, <1>4 DEF Extract, At, Busy, Rewriting, ThreadOK, TypeInv, TypeOK
    <2>2. CASE Goto(w, "read") /\ UNCHANGED excused /\ ~Fails(w, {task[w].plugin})
      <3>1. task[w].alone => dirs'[task[w].plugin] = "whole"
        BY <1>4, <2>1, <2>2 DEF Extract, TypeInv, TypeOK
      <3> QED BY <2>1, <2>2, <3>1, GotoShape, DirectoryStep
    <2>3. CASE Fails(w, {task[w].plugin})
      BY <2>1, <2>3, FailsShape, SpoilingStep
    <2> QED BY <1>4, <2>2, <2>3 DEF Extract
  <1>5. CASE Remove(w)
    <2>1. /\ Busy(w) /\ ~Rewriting(w) /\ ~At(w, "write") /\ UNCHANGED registry
          /\ \A q \in Plugins \ {task[w].plugin} : dirs'[q] = dirs[q]
          /\ task[w].kind = "uninstall" /\ task[w].plugin \in Plugins
      BY <1>0, <1>5 DEF Remove, At, Busy, Rewriting, ThreadOK, TypeInv, TypeOK
    <2>2. CASE Goto(w, "read") /\ UNCHANGED excused /\ ~Fails(w, {task[w].plugin})
      <3>1. dirs'[task[w].plugin] = "none"
        BY <1>5, <2>1, <2>2 DEF Remove, TypeInv, TypeOK
      <3> QED BY <2>1, <2>2, <3>1, GotoShape, DirectoryStep
    <2>3. CASE Fails(w, {task[w].plugin})
      BY <2>1, <2>3, FailsShape, SpoilingStep
    <2> QED BY <1>5, <2>2, <2>3 DEF Remove
  <1>6. CASE Read(w)
    <2>1. /\ At(w, "read") /\ Busy(w) /\ ~Rewriting(w)
          /\ UNCHANGED <<registry, dirs>>
      BY <1>6 DEF Read, At, Busy, Rewriting
    <2>2. PICK found \in Listed :
            IF task[w].kind = "toggle" /\ found[task[w].plugin] = "none"
            THEN Fails(w, {}) /\ UNCHANGED missed
            ELSE LET next == [task EXCEPT ![w] = [@ EXCEPT !.pc = "truncate",
                                                           !.read = found]]
                 IN  IF found # registry \/ \E v \in Workers \ {w} : Rewriting(v)
                     THEN Lossy(next)
                     ELSE task' = next /\ UNCHANGED <<excused, missed>>
      BY <1>6 DEF Read
    <2> DEFINE next == [task EXCEPT ![w] = [@ EXCEPT !.pc = "truncate", !.read = found]]
    <2>3. CASE task[w].kind = "toggle" /\ Fails(w, {})
      <3>1. UNCHANGED excused
        BY <2>3 DEF Fails
      <3> QED BY <2>1, <2>3, <3>1, FailsShape, QuietStep
    <2>4. CASE Lossy(next)
      BY <1>0, <2>4, ReadIsLossy, LossyStep
    <2>5. CASE /\ task[w].kind = "toggle" => registry[task[w].plugin] # "none"
               /\ \A v \in Workers \ {w} : ~Rewriting(v)
               /\ found = registry /\ task' = next /\ UNCHANGED excused
      BY <2>1, <2>5, ReadShape, ReadingStep
    <2> QED BY <2>2, <2>3, <2>4, <2>5
  <1>7. CASE Truncate(w)
    <2>1. /\ At(w, "truncate") /\ Busy(w) /\ ~At(w, "write") /\ UNCHANGED dirs
      BY <1>7 DEF Truncate, At, Busy
    <2>2. CASE Goto(w, "write") /\ UNCHANGED excused
      BY <2>1, <2>2, GotoShape, TruncatingStep
    <2>3. CASE UNCHANGED registry /\ Fails(w, {task[w].plugin})
      BY <2>1, <2>3, FailsShape, SpoilingStep
    <2> QED BY <1>7, <2>2, <2>3 DEF Truncate
  <1>8. CASE Write(w)
    <2>1. At(w, "write") /\ UNCHANGED dirs
      BY <1>8 DEF Write
    <2>2. CASE /\ registry' = [task[w].read EXCEPT ![task[w].plugin] = NewRecord(w)]
               /\ task' = [task EXCEPT ![w] = Ended(@, TRUE)]
               /\ UNCHANGED excused
      BY <2>1, <2>2, EndedShape, WritingStep
    <2>3. CASE Lossy([task EXCEPT ![w] = Ended(@, FALSE)])
      BY <1>0, <2>3, WriteIsLossy, LossyStep
    <2> QED BY <1>8, <2>2, <2>3 DEF Write
  <1>9. CASE Report(w)
    BY <1>9, ReportingStep
  <1> QED BY <1>1, <1>2, <1>3, <1>4, <1>5, <1>6, <1>7, <1>8, <1>9 DEF Step

LEMMA NextKeepsDisk ==
    ASSUME TypeInv, DiskInv, [Next]_vars
    PROVE  DiskInv'
  <1>1. ASSUME NEW w \in Workers, NEW p \in Plugins,
               Get(w, p) \/ Uninstall(w, p) \/ Toggle(w, p)
        PROVE  DiskInv'
    <2>1. PICK kind \in Kinds, pc \in Phases, on \in Records :
            /\ Start(w, kind, p, pc, on)
            /\ pc \in {"fetch", "remove"} \/ (pc = "read" /\ kind = "toggle")
      BY <1>1 DEF Get, Uninstall, Toggle, Kinds, Phases, Records
    <2>2. UNCHANGED <<registry, dirs>>
      BY <1>1 DEF Get, Uninstall, Toggle
    <2> QED BY <2>1, <2>2, StartingStep
  <1>2. CASE \E w \in Workers : Step(w)
    BY <1>2, ThreadStepsKeepDisk
  <1>3. CASE Reopen
    BY <1>3, ReopeningStep
  <1>4. CASE RefreshPlugins \/ Poll \/ UNCHANGED vars
    <2>1. UNCHANGED <<registry, dirs, task, excused>>
      BY <1>4 DEF RefreshPlugins, Poll, vars
    <2> QED BY <2>1 DEF DiskInv, AloneInv, StageInv, RestInv, Sound, Busy, Rewriting, At
  <1> QED BY <1>1, <1>2, <1>3, <1>4 DEF Next

\* For any number of plugins and threads, whatever fails and whenever the window is
\* closed: the directory and the record of a plugin agree, unless its last change
\* failed half-way or was disturbed.
THEOREM RegistryMatchesDiskAlways == Spec => []RegistryMatchesDisk
  <1>1. Init => TypeInv /\ DiskInv
    BY InitTypes, InitDisk
  <1>2. TypeInv /\ DiskInv /\ [Next]_vars => TypeInv' /\ DiskInv'
    BY NextKeepsTypes, NextKeepsDisk
  <1>3. DiskInv => RegistryMatchesDisk
    BY DEF DiskInv, RestInv, Sound, Agree, RegistryMatchesDisk
  <1> QED BY <1>1, <1>2, <1>3, PTL DEF Spec

(* What the page shows *)

\* p's record is x, in the registry and in every copy that will be written back
\* by a thread that works on another plugin.
Recorded(p, x) ==
  /\ \A w \in Workers : Rewriting(w) /\ task[w].plugin # p => task[w].read[p] = x
  /\ (\A w \in Workers : ~At(w, "write")) => registry[p] = x

\* A thread about to change its plugin's record, or with the news of it.
Written(w) == Rewriting(w) \/ (At(w, "report") /\ task[w].ok)
Working(p) == \E w \in Workers : task[w].plugin = p /\ Written(w)

SlotInv ==
  /\ slot.kind \in {"none", "error"} => slot.plugin = NoPlugin
  /\ slot.kind = "none" => slot = NoResult
  /\ slot.kind = "toggle" => slot.on # "none"

\* A switch that has been written is the record, unless the next change of the
\* plugin is there already.
SwitchOK(p) ==
  /\ \A w \in Workers : task[w].plugin = p /\ task[w].kind = "toggle" =>
       /\ At(w, "truncate") => Recorded(p, task[w].read[p]) /\ task[w].read[p] # "none"
       /\ At(w, "report") /\ task[w].ok => Recorded(p, task[w].on)
  /\ slot.kind = "toggle" /\ slot.plugin = p => Working(p) \/ Recorded(p, slot.on)

\* The page shows the record, or the news are on their way; and it knows of the
\* plugin a thread switches, without which it would not take the result.
PageOK(p) ==
  /\ Working(p) \/ slot.plugin = p \/ Recorded(p, installed[p])
  /\ \A w \in Workers : task[w].plugin = p /\ task[w].kind = "toggle" =>
       /\ At(w, "read") => Recorded(p, "none") \/ installed[p] # "none"
       /\ Written(w) => installed[p] # "none"
  /\ slot.kind = "toggle" /\ slot.plugin = p => Working(p) \/ installed[p] # "none"

FileOK ==
  /\ \A v, w \in Workers : v # w => ~(Rewriting(v) /\ Rewriting(w))
  /\ \A w \in Workers : At(w, "truncate") => task[w].read = registry

ShownInv ==
  /\ SlotInv
  /\ \A p \in Plugins \ excused : SwitchOK(p)
  /\ ~missed => FileOK /\ \A p \in Plugins \ excused : PageOK(p)

Keeps(p) == \A x \in Records : Recorded(p, x) => Recorded(p, x)'

LEMMA RecordTypes ==
    ASSUME TypeInv
    PROVE  /\ \A w \in Workers, p \in Plugins : task[w].read[p] \in Records
           /\ \A w \in Workers : task[w].on \in Records
           /\ \A p \in Plugins : installed[p] \in Records /\ registry[p] \in Records
           /\ slot.on \in Records /\ "none" \in Records
  BY DEF TypeInv, TypeOK, TaskStates, Results, Records

LEMMA InitShown ==
    ASSUME Init PROVE ShownInv
  <1>1. \A w \in Workers : task[w].pc = "free" /\ task[w].kind = "none"
    BY DEF Init, Free
  <1>2. \A w \in Workers : ~Rewriting(w) /\ ~Written(w) /\ ~At(w, "write") /\ ~At(w, "truncate")
    BY <1>1 DEF Rewriting, Written, At
  <1>3. slot.kind = "none" /\ slot.plugin = NoPlugin
    BY DEF Init, NoResult
  <1>4. \A p \in Plugins : Recorded(p, installed[p])
    BY <1>2 DEF Init, Recorded
  <1> QED BY <1>1, <1>2, <1>3, <1>4
          DEF Init, ShownInv, SlotInv, SwitchOK, PageOK, FileOK

\* A plugin nothing disturbs has at most one thread.
LEMMA OneWorker ==
    ASSUME TypeInv, DiskInv, NEW w \in Workers, NEW v \in Workers, v # w, Busy(w),
           task[w].plugin \notin excused
    PROVE  /\ task[v].plugin # task[w].plugin /\ task[w].alone
           /\ Rewriting(w) => ~Rewriting(v)
  <1>1. task[w].alone
    BY DEF DiskInv, AloneInv
  <1> QED BY <1>1 DEF DiskInv, AloneInv

\* A step away from the registry and the page.
LEMMA QuietShown ==
    ASSUME TypeInv, ShownInv, NEW w \in Workers, Others(w), SameJob(w),
           ~Written(w), ~(Written(w))',
           task'[w].pc = "read" => task[w].kind # "toggle",
           UNCHANGED <<registry, slot, installed, missed>>, excused \subseteq excused'
    PROVE  ShownInv'
  <1>1. \A v \in Workers : /\ (Rewriting(v))' <=> Rewriting(v)
                           /\ (Written(v))' <=> Written(v)
                           /\ (At(v, "write"))' <=> At(v, "write")
                           /\ (At(v, "truncate"))' <=> At(v, "truncate")
                           /\ Rewriting(v) => task'[v] = task[v]
                           /\ Written(v) => task'[v] = task[v]
    BY DEF Others, Written, Rewriting, At
  <1>2. \A v \in Workers : SameJob(v)
    BY DEF Others, SameJob
  <1>3. \A p \in Plugins : \A x : Recorded(p, x) <=> Recorded(p, x)'
    BY <1>1, <1>2 DEF Recorded, SameJob
  <1>4. \A p \in Plugins : Working(p) <=> Working(p)'
    BY <1>1, <1>2 DEF Working, SameJob
  <1>5. ASSUME NEW p \in Plugins, SwitchOK(p) PROVE SwitchOK(p)'
    <2>1. \A v \in Workers : (At(v, "truncate"))' => task'[v].read = task[v].read
      BY <1>1 DEF Rewriting, At
    <2>2. \A v \in Workers : (At(v, "report"))' /\ task'[v].ok => At(v, "report") /\ task[v].ok
      BY <1>1 DEF Written, Rewriting, At
    <2> QED BY <1>1, <1>2, <1>3, <1>4, <1>5, <2>1, <2>2 DEF SwitchOK, SameJob
  <1>6. ASSUME NEW p \in Plugins, PageOK(p) PROVE PageOK(p)'
    <2>1. \A v \in Workers : (At(v, "read"))' /\ task[v].kind = "toggle" => At(v, "read")
      BY DEF Others, At
    <2> QED BY <1>1, <1>2, <1>3, <1>4, <1>6, <2>1 DEF PageOK, SameJob
  <1>7. FileOK => FileOK'
    BY <1>1 DEF FileOK, Rewriting, At
  <1>8. SlotInv'
    BY DEF ShownInv, SlotInv
  <1> QED BY <1>5, <1>6, <1>7, <1>8 DEF ShownInv

\* Plugins other than that of the thread that makes the step.
LEMMA OtherPlugin ==
    ASSUME TypeInv, NEW w \in Workers, Others(w), SameJob(w),
           UNCHANGED <<slot, installed>>,
           NEW p \in Plugins, p # task[w].plugin, Keeps(p)
    PROVE  /\ SwitchOK(p) => SwitchOK(p)'
           /\ PageOK(p) => PageOK(p)'
  <1>1. \A v \in Workers : task'[v].plugin = p => task'[v] = task[v]
    BY DEF Others, SameJob
  <1>2. \A v \in Workers : task[v].plugin = p => task'[v] = task[v]
    BY DEF Others
  <1>3. Working(p) <=> Working(p)'
    BY <1>1, <1>2 DEF Working, Written, Rewriting, At
  <1>4. ASSUME SwitchOK(p) PROVE SwitchOK(p)'
    <2>1. ASSUME NEW v \in Workers, task'[v].plugin = p, task'[v].kind = "toggle"
          PROVE  /\ (At(v, "truncate"))' =>
                      Recorded(p, task[v].read[p])' /\ task'[v].read[p] # "none"
                 /\ (At(v, "report"))' /\ task'[v].ok => Recorded(p, task[v].on)'
      <3>1. task'[v] = task[v] /\ task[v].read[p] \in Records /\ task[v].on \in Records
        BY <1>1, <2>1, RecordTypes
      <3> QED BY <1>4, <2>1, <3>1 DEF SwitchOK, Keeps, At, Recorded
    <2>2. slot.on \in Records
      BY RecordTypes
    <2> QED BY <1>3, <1>4, <2>1, <2>2 DEF SwitchOK, Keeps, Recorded
  <1>5. ASSUME PageOK(p) PROVE PageOK(p)'
    <2>1. installed[p] \in Records /\ "none" \in Records
      BY RecordTypes
    <2>2. Recorded(p, installed[p]) => (Recorded(p, installed[p]))'
      BY <2>1 DEF Keeps, Recorded
    <2>3. Recorded(p, "none") => Recorded(p, "none")'
      BY <2>1 DEF Keeps
    <2> QED BY <1>1, <1>3, <1>5, <2>2, <2>3 DEF PageOK, At, Written, Rewriting
  <1> QED BY <1>4, <1>5

\* The plugin of the thread that makes a step on the registry.
LEMMA OwnPlugin ==
    ASSUME TypeInv, DiskInv, NEW w \in Workers, Busy(w), Others(w), SameJob(w),
           UNCHANGED <<slot, installed>>,
           NEW p \in Plugins \ excused, p = task[w].plugin, (Written(w))',
           task[w].kind = "toggle" =>
             /\ (At(w, "truncate"))' =>
                  Recorded(p, task[w].read[p])' /\ task'[w].read[p] # "none"
             /\ (At(w, "report"))' => Recorded(p, task[w].on)'
    PROVE  /\ SwitchOK(p)'
           /\ (task[w].kind = "toggle" => installed[p] # "none") => PageOK(p)'
  <1>1. ASSUME NEW v \in Workers, task'[v].plugin = p PROVE v = w
    <2>1. v # w => task[v].plugin # p
      BY OneWorker
    <2> QED BY <1>1, <2>1 DEF Others
  <1>2. task'[w].plugin = p /\ task'[w].kind = task[w].kind
    BY DEF SameJob
  <1>3. Working(p)'
    BY <1>2 DEF Working
  <1>4. SwitchOK(p)'
    BY <1>1, <1>2, <1>3 DEF SwitchOK
  <1>5. ASSUME task[w].kind = "toggle" => installed[p] # "none" PROVE PageOK(p)'
    <2>1. ~(At(w, "read"))'
      BY DEF Written, Rewriting, At
    <2> QED BY <1>1, <1>2, <1>3, <1>5, <2>1 DEF PageOK
  <1> QED BY <1>4, <1>5

\* Both, for a step of an undisturbed thread that leaves the page alone.
LEMMA RegistryStep ==
    ASSUME TypeInv, DiskInv, ShownInv, NEW w \in Workers, Busy(w), Others(w), SameJob(w),
           UNCHANGED <<slot, installed, missed, excused>>, (Written(w))',
           \A p \in Plugins \ {task[w].plugin} : Keeps(p),
           task[w].plugin \notin excused /\ task[w].kind = "toggle" =>
             /\ (At(w, "truncate"))' =>
                  /\ Recorded(task[w].plugin, task[w].read[task[w].plugin])'
                  /\ task'[w].read[task[w].plugin] # "none"
             /\ (At(w, "report"))' => Recorded(task[w].plugin, task[w].on)'
             /\ ~missed => installed[task[w].plugin] # "none",
           ~missed => FileOK'
    PROVE  ShownInv'
  <1>0. PICK q \in Plugins : q = task[w].plugin /\ q = task'[w].plugin
    BY PluginType DEF SameJob
  <1>1. ASSUME NEW p \in Plugins \ excused, p # q
        PROVE  /\ SwitchOK(p)'
               /\ ~missed => PageOK(p)'
    BY <1>0, <1>1, OtherPlugin DEF ShownInv
  <1>2. ASSUME q \notin excused
        PROVE  /\ SwitchOK(q)'
               /\ ~missed => PageOK(q)'
    <2>1. task[w].kind = "toggle" =>
             /\ (At(w, "truncate"))' =>
                  Recorded(q, task[w].read[q])' /\ task'[w].read[q] # "none"
             /\ (At(w, "report"))' => Recorded(q, task[w].on)'
      BY <1>0, <1>2 DEF Recorded
    <2>2. task[w].kind = "toggle" /\ ~missed => installed[q] # "none"
      BY <1>0, <1>2
    <2> QED BY <1>0, <1>2, <2>1, <2>2, OwnPlugin
  <1>3. SlotInv'
    BY DEF ShownInv, SlotInv
  <1>4. \A p \in Plugins \ excused' : SwitchOK(p)' /\ (~missed => PageOK(p)')
    BY <1>1, <1>2
  <1> QED BY <1>3, <1>4 DEF ShownInv

\* A thread reads the registry while no other is rewriting it.
LEMMA ReadShown ==
    ASSUME TypeInv, DiskInv, ShownInv, NEW w \in Workers, At(w, "read"),
           \A v \in Workers \ {w} : ~Rewriting(v),
           Others(w), SameJob(w), task'[w].pc = "truncate", task'[w].read = registry,
           task[w].kind = "toggle" => registry[task[w].plugin] # "none",
           UNCHANGED <<registry, slot, installed, missed, excused>>
    PROVE  ShownInv'
  <1> DEFINE q == task[w].plugin
  <1>1. \A v \in Workers : ~At(v, "write") /\ ~(At(v, "write"))' /\ ((Rewriting(v))' => v = w)
    BY DEF Others, Rewriting, At
  <1>2. Busy(w) /\ (Written(w))' /\ ~Rewriting(w) /\ q \in Plugins /\ task'[w].plugin = q
    BY PluginType DEF Busy, At, Written, Rewriting, SameJob
  <1>3. \A p \in Plugins : Keeps(p)
    BY <1>1 DEF Keeps, Recorded
  <1>4. Recorded(q, registry[q])'
    BY <1>1, <1>2 DEF Recorded
  <1>5. ASSUME q \notin excused, task[w].kind = "toggle", ~missed PROVE installed[q] # "none"
    <2>1. Recorded(q, "none") \/ installed[q] # "none"
      BY <1>2, <1>5 DEF ShownInv, PageOK
    <2>2. registry[q] # "none"
      BY <1>5
    <2>3. ~Recorded(q, "none")
      BY <1>1, <2>2 DEF Recorded
    <2> QED BY <2>1, <2>3
  <1>6. FileOK'
    BY <1>1, <1>2 DEF FileOK, Rewriting, At, Others
  <1>7. ~(At(w, "report"))' /\ (task[w].kind = "toggle" => task'[w].read[q] # "none")
    BY DEF At
  <1>8. Recorded(q, task[w].read[q])'
    BY <1>4 DEF Recorded
  <1> QED BY <1>2, <1>3, <1>5, <1>6, <1>7, <1>8, RegistryStep

LEMMA TruncateShown ==
    ASSUME TypeInv, DiskInv, ShownInv, NEW w \in Workers, At(w, "truncate"),
           Others(w), SameJob(w), task'[w].pc = "write", task'[w].read = task[w].read,
           UNCHANGED <<slot, installed, missed, excused>>
    PROVE  ShownInv'
  <1> DEFINE q == task[w].plugin
  <1>1. (At(w, "write"))' /\ ~(At(w, "truncate"))' /\ ~(At(w, "report"))'
    BY DEF At
  <1>2. Busy(w) /\ (Written(w))' /\ Rewriting(w) /\ Written(w) /\ q \in Plugins
    BY PluginType DEF Busy, At, Written, Rewriting
  <1>3. \A v \in Workers : /\ (Rewriting(v))' <=> Rewriting(v)
                           /\ SameJob(v) /\ task'[v].read = task[v].read
    BY <1>1, <1>2 DEF Others, Rewriting, At, SameJob
  <1>4. \A p \in Plugins : Keeps(p)
    BY <1>1, <1>3 DEF Keeps, Recorded, SameJob
  <1>5. ASSUME q \notin excused, task[w].kind = "toggle", ~missed PROVE installed[q] # "none"
    BY <1>2, <1>5 DEF ShownInv, PageOK
  <1>6. ASSUME ~missed PROVE FileOK'
    <2>1. \A v \in Workers : v # w => ~Rewriting(v)
      BY <1>2, <1>6 DEF ShownInv, FileOK
    <2> QED BY <1>1, <1>3, <2>1 DEF FileOK, Rewriting, At, Others
  <1> QED BY <1>1, <1>2, <1>4, <1>5, <1>6, RegistryStep

LEMMA WriteShown ==
    ASSUME TypeInv, DiskInv, ShownInv, NEW w \in Workers, At(w, "write"),
           Others(w), SameJob(w), task'[w].pc = "report", task'[w].ok = TRUE,
           registry' = [task[w].read EXCEPT ![task[w].plugin] = NewRecord(w)],
           UNCHANGED <<slot, installed, missed, excused>>
    PROVE  ShownInv'
  <1> DEFINE q == task[w].plugin
  <1>1. (At(w, "report"))' /\ ~(At(w, "truncate"))' /\ ~(Rewriting(w))'
    BY DEF At, Rewriting
  <1>2. Busy(w) /\ (Written(w))' /\ Rewriting(w) /\ Written(w) /\ q \in Plugins
    BY PluginType DEF Busy, At, Written, Rewriting
  <1>3. \A v \in Workers : ((Rewriting(v))' <=> v # w /\ Rewriting(v)) /\ SameJob(v)
    BY <1>1 DEF Others, Rewriting, SameJob
  <1>4. registry'[q] = NewRecord(w) /\ \A p \in Plugins \ {q} : registry'[p] = task[w].read[p]
    BY <1>2 DEF TypeInv, TypeOK, TaskStates
  <1>5. \A p \in Plugins \ {q} : Keeps(p)
    BY <1>2, <1>3, <1>4 DEF Keeps, Recorded, SameJob, Others
  <1>6. ASSUME q \notin excused, task[w].kind = "toggle"
        PROVE  /\ Recorded(q, task[w].on)'
               /\ ~missed => installed[q] # "none"
    <2>1. \A v \in Workers : ~(Rewriting(v))'
      BY <1>2, <1>3, <1>6, OneWorker
    <2>2. NewRecord(w) = task[w].on /\ task'[w].on = task[w].on
      BY <1>6 DEF NewRecord, SameJob
    <2>3. Recorded(q, task[w].on)'
      BY <1>3, <1>4, <2>1, <2>2 DEF Recorded, SameJob
    <2>4. ~missed => installed[q] # "none"
      BY <1>2, <1>6 DEF ShownInv, PageOK
    <2> QED BY <2>3, <2>4
  <1>7. ASSUME ~missed PROVE FileOK'
    <2>1. \A v \in Workers : v # w => ~Rewriting(v)
      BY <1>2, <1>7 DEF ShownInv, FileOK
    <2>2. \A v \in Workers : ~(Rewriting(v))'
      BY <1>3, <2>1
    <2> QED BY <2>2 DEF FileOK, Rewriting, At
  <1> QED BY <1>1, <1>2, <1>5, <1>6, <1>7, RegistryStep

\* The file could not be emptied.
LEMMA TruncateFailsShown ==
    ASSUME TypeInv, DiskInv, ShownInv, NEW w \in Workers, At(w, "truncate"),
           Others(w), SameJob(w), task'[w].pc = "report", task'[w].ok = FALSE,
           excused' = excused \cup {task[w].plugin},
           UNCHANGED <<registry, slot, installed, missed>>
    PROVE  ShownInv'
  <1>1. \A v \in Workers : ((Rewriting(v))' <=> v # w /\ Rewriting(v)) /\ SameJob(v)
    BY DEF Others, Rewriting, SameJob, At
  <1>2. \A v \in Workers : (At(v, "write"))' <=> At(v, "write")
    BY DEF Others, At
  <1>3. \A p \in Plugins : Keeps(p)
    BY <1>1, <1>2 DEF Keeps, Recorded, SameJob, Others
  <1>4. ASSUME NEW p \in Plugins \ excused'
        PROVE  SwitchOK(p)' /\ (~missed => PageOK(p)')
    BY <1>3, <1>4, OtherPlugin DEF ShownInv
  <1>5. ~missed => FileOK'
    BY <1>1 DEF ShownInv, FileOK, Others, Rewriting, At
  <1>6. SlotInv'
    BY DEF ShownInv, SlotInv
  <1> QED BY <1>4, <1>5, <1>6 DEF ShownInv

\* Nothing is vouched for any more.
LEMMA LossyShown ==
    ASSUME ShownInv, excused' = Plugins, missed' = TRUE, slot' = slot
    PROVE  ShownInv'
  BY DEF ShownInv, SlotInv

\* A thread leaves its result and is gone.
LEMMA ReportShown ==
    ASSUME TypeInv, DiskInv, ShownInv, NEW w \in Workers, Report(w)
    PROVE  ShownInv'
  <1> DEFINE settled == task[w].ok /\ task[w].alone /\ task[w].kind # "toggle"
  <1>0. PICK q \in Plugins : q = task[w].plugin
    BY PluginType DEF Report, At, Busy
  <1>1. /\ At(w, "report") /\ Others(w) /\ UNCHANGED <<registry, installed>>
        /\ slot' = Result(w) /\ missed' = (missed \/ slot # NoResult)
        /\ excused' = IF settled THEN excused \ {q} ELSE excused
    BY <1>0 DEF Report, Others
  <1>a. ~missed' => ~missed /\ slot = NoResult
    BY <1>1, Zenon
  <1>2. /\ task'[w].pc = "free" /\ task'[w].plugin = NoPlugin /\ task'[w].kind = "none"
        /\ q \in Plugins /\ Busy(w) /\ task[w].kind \in {"get", "uninstall", "toggle"}
        /\ ~(Written(w))' /\ ~Rewriting(w) /\ NoPlugin \notin Plugins
    <2>1. Busy(w)
      BY <1>1 DEF Busy, At
    <2>2. task[w] \in TaskStates /\ ThreadOK(task[w])
      BY DEF TypeInv, TypeOK, TaskInv
    <2>3. task[w].kind \in {"get", "uninstall", "toggle"}
      BY <2>1, <2>2 DEF ThreadOK, TaskStates, Kinds, Busy
    <2>4. task'[w] = Free
      BY DEF Report, TypeInv, TypeOK
    <2> QED BY <1>0, <1>1, <2>1, <2>3, <2>4, PluginAssumption
            DEF Free, Written, Rewriting, At
  <1>3. /\ task[w].ok => /\ slot'.kind = task[w].kind /\ slot'.plugin = q
                         /\ slot'.on = task[w].on
        /\ ~task[w].ok => slot'.kind = "error" /\ slot'.plugin = NoPlugin
    BY <1>0, <1>1 DEF Result, NoResult
  <1>4. \A v \in Workers : /\ (Rewriting(v))' <=> Rewriting(v)
                           /\ (At(v, "write"))' <=> At(v, "write")
    BY <1>1, <1>2 DEF Others, Rewriting, Written, At
  <1>5. \A p \in Plugins : \A x : Recorded(p, x) => Recorded(p, x)'
    BY <1>1, <1>2, <1>4 DEF Recorded, Others
  <1>6. SlotInv'
    <2>1. task[w].kind = "toggle" => task[w].on # "none"
      BY DEF TypeInv, TaskInv, ThreadOK
    <2> QED BY <1>2, <1>3, <2>1 DEF SlotInv
  <1>7. \A v \in Workers : task'[v].plugin \in Plugins => v # w /\ task'[v] = task[v]
    BY <1>1, <1>2 DEF Others
  <1> HIDE DEF settled
  \* Other plugins keep their threads.
  <1>8. ASSUME NEW p \in Plugins \ excused', p # q
        PROVE  SwitchOK(p)' /\ (~missed' => PageOK(p)')
    <2>1. p \notin excused
      BY <1>1, <1>8
    <2>2. Working(p) <=> Working(p)'
      BY <1>0, <1>1, <1>7, <1>8 DEF Working, Written, Rewriting, At, Others
    <2>3. slot'.plugin # p
      BY <1>2, <1>3, <1>8
    <2>4. SwitchOK(p)'
      <3>1. ASSUME NEW v \in Workers, task'[v].plugin = p, task'[v].kind = "toggle"
            PROVE  /\ (At(v, "truncate"))' =>
                        Recorded(p, task[v].read[p])' /\ task'[v].read[p] # "none"
                   /\ (At(v, "report"))' /\ task'[v].ok => Recorded(p, task[v].on)'
        <4>1. task'[v] = task[v]
          BY <1>7, <3>1
        <4>2. SwitchOK(p)
          BY <2>1 DEF ShownInv
        <4>3. ASSUME (At(v, "truncate"))'
              PROVE  Recorded(p, task[v].read[p])' /\ task'[v].read[p] # "none"
          <5>1. PICK x : x = task[v].read[p]
            OBVIOUS
          <5>2. Recorded(p, x) /\ x # "none"
            BY <3>1, <4>1, <4>2, <4>3, <5>1 DEF SwitchOK, At
          <5>3. Recorded(p, x)'
            BY <1>5, <5>2
          <5> QED BY <4>1, <5>1, <5>2, <5>3 DEF Recorded
        <4>4. ASSUME (At(v, "report"))', task'[v].ok PROVE Recorded(p, task[v].on)'
          <5>1. PICK x : x = task[v].on
            OBVIOUS
          <5>2. Recorded(p, x)
            BY <3>1, <4>1, <4>2, <4>4, <5>1 DEF SwitchOK, At
          <5>3. Recorded(p, x)'
            BY <1>5, <5>2
          <5> QED BY <4>1, <5>1, <5>3 DEF Recorded
        <4> QED BY <4>3, <4>4
      <3> QED BY <2>3, <3>1 DEF SwitchOK
    <2>5. ASSUME ~missed' PROVE PageOK(p)'
      <3>1. PageOK(p) /\ slot.plugin = NoPlugin
        BY <1>a, <2>1, <2>5 DEF ShownInv, NoResult
      <3>2. Working(p) \/ Recorded(p, installed[p])
        BY <1>2, <3>1 DEF PageOK
      <3>3. Working(p)' \/ (Recorded(p, installed[p]))'
        BY <1>1, <1>5, <2>2, <3>2 DEF Recorded
      <3>4. ASSUME NEW v \in Workers, task'[v].plugin = p, task'[v].kind = "toggle"
            PROVE  /\ (At(v, "read"))' => Recorded(p, "none")' \/ installed'[p] # "none"
                   /\ (Written(v))' => installed'[p] # "none"
        <4>1. task'[v] = task[v]
          BY <1>7, <3>4
        <4> QED BY <1>1, <1>5, <3>1, <3>4, <4>1 DEF PageOK, At, Written, Rewriting
      <3> QED BY <2>3, <3>3, <3>4 DEF PageOK
    <2> QED BY <2>4, <2>5
  \* Its own, if nothing disturbed it, has none left.
  <1>9. ASSUME q \notin excused'
        PROVE  SwitchOK(q)' /\ (~missed' => PageOK(q)')
    <2>1. task[w].alone
      BY <1>0, <1>1, <1>2, <1>9 DEF DiskInv, AloneInv, settled
    <2>2. \A v \in Workers \ {w} : task[v].plugin # q
      BY <1>0, <1>2, <2>1 DEF DiskInv, AloneInv
    <2>3. \A v \in Workers : task'[v].plugin # q
      BY <1>2, <1>7, <2>2
    <2>4. ASSUME slot'.kind = "toggle", slot'.plugin = q
          PROVE  /\ Recorded(q, slot.on)'
                 /\ ~missed' => installed'[q] # "none"
      <3>1. task[w].ok /\ task[w].kind = "toggle" /\ slot'.on = task[w].on
        BY <1>2, <1>3, <2>4
      <3>2. q \notin excused
        BY <1>1, <1>9, <3>1 DEF settled
      <3>3. Recorded(q, task[w].on)
        BY <1>0, <1>1, <1>2, <3>1, <3>2 DEF ShownInv, SwitchOK
      <3>4. ASSUME ~missed' PROVE installed[q] # "none"
        <4>1. Written(w)
          BY <1>1, <3>1 DEF Written
        <4>2. ~missed /\ PageOK(q)
          BY <1>a, <3>2, <3>4 DEF ShownInv
        <4> QED BY <1>0, <3>1, <4>1, <4>2 DEF PageOK
      <3>5. Recorded(q, slot.on)'
        <4>1. PICK x : x = task[w].on
          OBVIOUS
        <4>2. Recorded(q, x)'
          BY <1>5, <3>3, <4>1
        <4> QED BY <3>1, <4>1, <4>2 DEF Recorded
      <3> QED BY <1>1, <3>4, <3>5
    <2>5. SwitchOK(q)'
      BY <2>3, <2>4 DEF SwitchOK
    <2>6. ASSUME ~missed' PROVE PageOK(q)'
      <3>1. slot'.plugin = q \/ Recorded(q, installed[q])'
        <4>1. CASE task[w].ok
          BY <1>3, <4>1
        <4>2. CASE ~task[w].ok
          <5>1. q \notin excused /\ ~missed /\ slot.plugin = NoPlugin
            BY <1>a, <1>1, <1>9, <2>6, <4>2 DEF settled, NoResult
          <5>2. ~Working(q)
            BY <1>0, <1>1, <1>2, <2>2, <4>2 DEF Working, Written, Rewriting
          <5>3. Recorded(q, installed[q])
            BY <1>2, <5>1, <5>2 DEF ShownInv, PageOK
          <5>4. PICK x : x = installed[q]
            OBVIOUS
          <5>5. Recorded(q, x)'
            BY <1>5, <5>3, <5>4
          <5> QED BY <1>1, <5>4, <5>5 DEF Recorded
        <4> QED BY <4>1, <4>2
      <3> QED BY <2>3, <2>4, <2>6, <3>1 DEF PageOK
    <2> QED BY <2>5, <2>6
  <1>10. ~missed' => FileOK'
    <2>1. FileOK => FileOK'
      BY <1>1, <1>2, <1>4 DEF FileOK, Others, Rewriting, Written, At
    <2> QED BY <1>a, <2>1 DEF ShownInv
  <1> QED BY <1>6, <1>8, <1>9, <1>10 DEF ShownInv

\* The page starts a thread.
LEMMA StartShown ==
    ASSUME TypeInv, ShownInv, NEW w \in Workers, NEW kind \in Kinds, NEW p \in Plugins,
           NEW pc \in Phases, NEW on \in Records, Start(w, kind, p, pc, on),
           pc \in {"fetch", "remove", "read"},
           installed[p] # "none" \/ kind # "toggle",
           UNCHANGED <<registry, slot, installed, missed>>
    PROVE  ShownInv'
  <1>1. /\ task[w].pc = "free" /\ task[w].plugin = NoPlugin /\ NoPlugin \notin Plugins
        /\ task'[w].kind = kind /\ task'[w].plugin = p /\ task'[w].pc = pc
        /\ excused \subseteq excused'
    BY StartShape, PluginAssumption DEF TypeInv, TaskInv, ThreadOK
  <1>2. \A v \in Workers \ {w} :
          /\ SameJob(v) /\ task'[v].pc = task[v].pc
          /\ task'[v].read = task[v].read /\ task'[v].ok = task[v].ok
    BY StartShape
  <1>3. \A v \in Workers : /\ (Rewriting(v))' <=> Rewriting(v)
                           /\ (Written(v))' <=> Written(v)
                           /\ (At(v, "write"))' <=> At(v, "write")
                           /\ (At(v, "truncate"))' <=> At(v, "truncate")
                           /\ (At(v, "report"))' <=> At(v, "report")
                           /\ Written(v) => v # w
    BY <1>1, <1>2 DEF Written, Rewriting, At
  <1>4. \A r \in Plugins : \A x : Recorded(r, x) <=> Recorded(r, x)'
    BY <1>1, <1>2, <1>3 DEF Recorded, SameJob, Written
  <1>5. \A r \in Plugins : Working(r) <=> Working(r)'
    BY <1>1, <1>2, <1>3 DEF Working, SameJob
  <1>6. ASSUME NEW r \in Plugins, SwitchOK(r) PROVE SwitchOK(r)'
    <2>1. ASSUME NEW v \in Workers, task'[v].plugin = r, task'[v].kind = "toggle"
          PROVE  /\ (At(v, "truncate"))' =>
                      Recorded(r, task[v].read[r])' /\ task'[v].read[r] # "none"
                 /\ (At(v, "report"))' /\ task'[v].ok => Recorded(r, task[v].on)'
      <3>1. CASE v = w
        BY <1>1, <3>1 DEF At
      <3>2. CASE v # w
        <4>1. /\ task'[v].read[r] = task[v].read[r] /\ task'[v].on = task[v].on
              /\ task[v].plugin = r /\ task[v].kind = "toggle" /\ task'[v].ok = task[v].ok
          BY <1>2, <2>1, <3>2 DEF SameJob
        <4>2. ASSUME (At(v, "truncate"))'
              PROVE  Recorded(r, task[v].read[r])' /\ task'[v].read[r] # "none"
          <5>1. Recorded(r, task[v].read[r]) /\ task[v].read[r] # "none"
            BY <1>3, <1>6, <4>1, <4>2 DEF SwitchOK
          <5>2. PICK x : x = task[v].read[r]
            OBVIOUS
          <5>3. Recorded(r, x)'
            BY <1>4, <5>1, <5>2
          <5> QED BY <4>1, <5>1, <5>2, <5>3 DEF Recorded
        <4>3. ASSUME (At(v, "report"))', task'[v].ok PROVE Recorded(r, task[v].on)'
          <5>1. Recorded(r, task[v].on)
            BY <1>3, <1>6, <4>1, <4>3 DEF SwitchOK
          <5>2. PICK x : x = task[v].on
            OBVIOUS
          <5>3. Recorded(r, x)'
            BY <1>4, <5>1, <5>2
          <5> QED BY <4>1, <5>2, <5>3 DEF Recorded
        <4> QED BY <4>2, <4>3
      <3> QED BY <3>1, <3>2
    <2> QED BY <1>4, <1>5, <1>6, <2>1 DEF SwitchOK, Recorded
  <1>7. ASSUME NEW r \in Plugins, PageOK(r) PROVE PageOK(r)'
    <2>1. ASSUME NEW v \in Workers, task'[v].plugin = r, task'[v].kind = "toggle"
          PROVE  /\ (At(v, "read"))' => Recorded(r, "none")' \/ installed'[r] # "none"
                 /\ (Written(v))' => installed'[r] # "none"
      <3>1. CASE v = w
        BY <1>1, <1>3, <2>1, <3>1
      <3>2. CASE v # w
        BY <1>2, <1>3, <1>4, <1>7, <2>1, <3>2 DEF PageOK, SameJob, At
      <3> QED BY <3>1, <3>2
    <2>2. Recorded(r, installed[r]) => Recorded(r, installed[r])'
      BY <1>4 DEF Recorded
    <2> QED BY <1>5, <1>7, <2>1, <2>2 DEF PageOK
  <1>8. FileOK => FileOK'
    BY <1>1, <1>2, <1>3 DEF FileOK, Rewriting, At
  <1>9. SlotInv'
    BY DEF ShownInv, SlotInv
  <1> QED BY <1>1, <1>6, <1>7, <1>8, <1>9 DEF ShownInv

\* What the page has looked up is the record of every plugin, unless it says
\* that it may have missed something.
LEMMA LookedUp ==
    ASSUME TypeInv, ~missed => FileOK, Relist, ~missed'
    PROVE  FileOK /\ \A p \in Plugins : Recorded(p, installed'[p])
  <1>1. /\ installed' = registry /\ \A w \in Workers : ~At(w, "write")
        /\ ~(missed /\ (\E w \in Workers : Rewriting(w)))
    BY DEF Relist
  <1>2. FileOK
    BY <1>1 DEF FileOK, Rewriting, At
  <1>3. \A w \in Workers : Rewriting(w) => task[w].read = registry
    BY <1>1, <1>2 DEF FileOK, Rewriting, At
  <1> QED BY <1>1, <1>2, <1>3 DEF Recorded

LEMMA RelistShown ==
    ASSUME TypeInv, ShownInv, Relist, slot' = slot \/ slot' = NoResult,
           UNCHANGED <<registry, task, excused>>
    PROVE  ShownInv'
  <1>1. \A p \in Plugins : \A x : Recorded(p, x) <=> Recorded(p, x)'
    BY DEF Recorded, Rewriting, At
  <1>2. \A p \in Plugins : Working(p) <=> Working(p)'
    BY DEF Working, Written, Rewriting, At
  <1>3. SlotInv'
    BY DEF ShownInv, SlotInv, NoResult
  <1>4. ASSUME NEW p \in Plugins, SwitchOK(p) PROVE SwitchOK(p)'
    <2>1. slot'.kind = "toggle" => slot' = slot
      BY DEF NoResult
    <2>2. ASSUME NEW w \in Workers, task[w].plugin = p, task[w].kind = "toggle"
          PROVE  /\ (At(w, "truncate"))' =>
                      Recorded(p, task[w].read[p])' /\ task'[w].read[p] # "none"
                 /\ (At(w, "report"))' /\ task'[w].ok => Recorded(p, task[w].on)'
      <3>1. At(w, "truncate") => Recorded(p, task[w].read[p]) /\ task[w].read[p] # "none"
        BY <1>4, <2>2 DEF SwitchOK
      <3>2. At(w, "report") /\ task[w].ok => Recorded(p, task[w].on)
        BY <1>4, <2>2 DEF SwitchOK
      <3>3. (At(w, "truncate"))' <=> At(w, "truncate")
        BY DEF At
      <3>4. (At(w, "report"))' <=> At(w, "report")
        BY DEF At
      <3>5. Recorded(p, task[w].read[p]) => Recorded(p, task[w].read[p])'
        BY DEF Recorded, Rewriting, At
      <3>6. Recorded(p, task[w].on) => Recorded(p, task[w].on)'
        BY DEF Recorded, Rewriting, At
      <3> QED BY <3>1, <3>2, <3>3, <3>4, <3>5, <3>6
    <2>3. Recorded(p, slot.on) /\ slot' = slot => Recorded(p, slot.on)'
      BY DEF Recorded, Rewriting, At
    <2> QED BY <1>2, <1>4, <2>1, <2>2, <2>3 DEF SwitchOK
  <1>5. ASSUME ~missed' PROVE FileOK' /\ \A p \in Plugins \ excused : PageOK(p)'
    <2>1. FileOK /\ \A p \in Plugins : Recorded(p, installed'[p])
      BY <1>5, LookedUp DEF ShownInv
    <2>2. FileOK'
      BY <2>1 DEF FileOK, Rewriting, At
    <2>3. ASSUME NEW p \in Plugins \ excused PROVE PageOK(p)'
      <3>1. (Recorded(p, installed[p]))'
        BY <2>1 DEF Recorded, Rewriting, At
      <3>2. installed'[p] = "none" => Recorded(p, "none")'
        BY <1>1, <2>1
      <3>3. installed'[p] = registry[p] /\ \A w \in Workers : ~At(w, "write")
        BY <1>5 DEF Relist
      <3>4. ASSUME NEW w \in Workers, task[w].plugin = p, task[w].kind = "toggle", Written(w)
            PROVE  registry[p] # "none"
        <4>1. SwitchOK(p)
          BY DEF ShownInv
        <4>2. CASE At(w, "report") /\ task[w].ok
          <5>1. Recorded(p, task[w].on)
            BY <3>4, <4>1, <4>2 DEF SwitchOK
          <5>2. task[w].on # "none"
            BY <3>4 DEF TypeInv, TaskInv, ThreadOK
          <5> QED BY <3>3, <5>1, <5>2 DEF Recorded
        <4>3. CASE At(w, "truncate")
          BY <3>3, <3>4, <4>1, <4>3 DEF SwitchOK, Recorded
        <4> QED BY <3>3, <3>4, <4>2, <4>3 DEF Written, Rewriting, At
      <3>5. ASSUME slot'.kind = "toggle", slot'.plugin = p
            PROVE  Working(p) \/ registry[p] # "none"
        <4>1. slot' = slot /\ SwitchOK(p) /\ slot.on # "none"
          BY <3>5 DEF ShownInv, SlotInv, NoResult
        <4>2. Working(p) \/ Recorded(p, slot.on)
          BY <3>5, <4>1 DEF SwitchOK
        <4> QED BY <3>3, <4>1, <4>2 DEF Recorded
      <3>6. \A w \in Workers : (Written(w))' <=> Written(w)
        BY DEF Written, Rewriting, At
      <3> QED BY <1>2, <3>1, <3>2, <3>3, <3>4, <3>5, <3>6 DEF PageOK
    <2> QED BY <2>2, <2>3
  <1> QED BY <1>3, <1>4, <1>5 DEF ShownInv

\* The page takes a result that it does not look up: a switch, or an error.
LEMMA SwitchedShown ==
    ASSUME TypeInv, ShownInv, slot # NoResult, ~Relisted, installed' = Switched,
           slot' = NoResult, UNCHANGED <<registry, task, excused, missed>>
    PROVE  ShownInv'
  <1>1. \A p \in Plugins : \A x : Recorded(p, x) <=> Recorded(p, x)'
    BY DEF Recorded, Rewriting, At
  <1>2. \A p \in Plugins : Working(p) <=> Working(p)'
    BY DEF Working, Written, Rewriting, At
  <1>3. slot'.kind = "none" /\ slot'.plugin = NoPlugin /\ SlotInv'
    BY DEF SlotInv, NoResult
  <1>4. slot.kind \in {"toggle", "error"} /\ (slot.kind = "error" => slot.plugin = NoPlugin)
    <2>1. slot.kind # "none"
      BY DEF ShownInv, SlotInv
    <2> QED BY <2>1 DEF ShownInv, SlotInv, Relisted, TypeInv, TypeOK, Results, Kinds
  <1>5. ASSUME NEW p \in Plugins, SwitchOK(p) PROVE SwitchOK(p)'
    <2>2. ASSUME NEW w \in Workers, task[w].plugin = p, task[w].kind = "toggle"
          PROVE  /\ (At(w, "truncate"))' =>
                      Recorded(p, task[w].read[p])' /\ task'[w].read[p] # "none"
                 /\ (At(w, "report"))' /\ task'[w].ok => Recorded(p, task[w].on)'
      <3>1. At(w, "truncate") => Recorded(p, task[w].read[p]) /\ task[w].read[p] # "none"
        BY <1>5, <2>2 DEF SwitchOK
      <3>2. At(w, "report") /\ task[w].ok => Recorded(p, task[w].on)
        BY <1>5, <2>2 DEF SwitchOK
      <3>3. (At(w, "truncate"))' <=> At(w, "truncate")
        BY DEF At
      <3>4. (At(w, "report"))' <=> At(w, "report")
        BY DEF At
      <3>5. Recorded(p, task[w].read[p]) => Recorded(p, task[w].read[p])'
        BY DEF Recorded, Rewriting, At
      <3>6. Recorded(p, task[w].on) => Recorded(p, task[w].on)'
        BY DEF Recorded, Rewriting, At
      <3> QED BY <3>1, <3>2, <3>3, <3>4, <3>5, <3>6
    <2> QED BY <1>3, <2>2 DEF SwitchOK
  <1>6. ASSUME NEW p \in Plugins \ excused, ~missed PROVE PageOK(p)'
    <2>1. PageOK(p) /\ SwitchOK(p) /\ p # NoPlugin
      BY <1>6, PluginAssumption DEF ShownInv
    <2>2. /\ installed'[p] = IF slot.kind = "toggle" /\ slot.plugin = p /\ installed[p] # "none"
                             THEN slot.on ELSE installed[p]
      BY DEF Switched, TypeInv, TypeOK
    <2>3. slot.kind = "toggle" => slot.on # "none"
      BY DEF ShownInv, SlotInv
    <2>4. installed'[p] = "none" => installed[p] = "none"
      BY <2>2, <2>3
    <2>5. Working(p) \/ Recorded(p, installed'[p])
      <3>1. CASE slot.kind = "toggle" /\ slot.plugin = p
        BY <2>1, <2>2, <3>1 DEF PageOK, SwitchOK
      <3>2. CASE ~(slot.kind = "toggle" /\ slot.plugin = p)
        <4>1. slot.plugin # p /\ installed'[p] = installed[p]
          BY <1>4, <2>1, <2>2, <3>2
        <4> QED BY <2>1, <4>1 DEF PageOK
      <3> QED BY <3>1, <3>2
    <2>6. Working(p)' \/ Recorded(p, installed[p])'
      BY <1>2, <2>5 DEF Recorded, Rewriting, At
    <2>7. \A w \in Workers : /\ (Written(w))' <=> Written(w)
                             /\ (At(w, "read"))' <=> At(w, "read")
      BY DEF Written, Rewriting, At
    <2>8. Recorded(p, "none") => Recorded(p, "none")'
      BY <1>1
    <2> QED BY <1>3, <2>1, <2>4, <2>6, <2>7, <2>8 DEF PageOK
  <1>7. FileOK => FileOK'
    BY DEF FileOK, Rewriting, At
  <1> QED BY <1>3, <1>5, <1>6, <1>7 DEF ShownInv

LEMMA ReopenShown ==
    ASSUME Reopen PROVE ShownInv'
  <1>1. \A w \in Workers : task'[w] = Free
    BY DEF Reopen
  <1>2. \A w \in Workers : task'[w].pc = "free" /\ task'[w].kind = "none"
    BY <1>1 DEF Free
  <1>3. \A w \in Workers : ~(Rewriting(w))' /\ ~(Written(w))' /\ ~(At(w, "write"))'
                           /\ ~(At(w, "truncate"))'
    BY <1>2 DEF Rewriting, Written, At
  <1>4. slot'.kind = "none" /\ SlotInv'
    BY DEF Reopen, SlotInv, NoResult
  <1>5. ~missed' => \A p \in Plugins : Recorded(p, installed[p])'
    BY <1>3 DEF Reopen, Recorded
  <1> QED BY <1>2, <1>3, <1>4, <1>5 DEF ShownInv, SwitchOK, PageOK, FileOK

LEMMA ThreadStepsKeepShown ==
    ASSUME TypeInv, DiskInv, ShownInv, NEW w \in Workers, Step(w)
    PROVE  ShownInv'
  <1>0. ThreadOK(task[w])
    BY DEF TypeInv, TaskInv
  <1>1. ASSUME ~Written(w), NEW spoilt, Fails(w, spoilt), UNCHANGED <<registry, OnDisk, missed>>
        PROVE  ShownInv'
    <2>1. /\ Others(w) /\ SameJob(w) /\ task'[w].pc = "report" /\ task'[w].ok = FALSE
          /\ excused \subseteq excused'
      BY <1>1, FailsShape
    <2>2. ~(Written(w))'
      BY <2>1 DEF Written, Rewriting, At
    <2> QED BY <1>1, <2>1, <2>2, QuietShown DEF OnDisk
  <1>2. ASSUME NEW pc \in {"open", "extract", "read"}, ~Written(w), Goto(w, pc),
               pc = "read" => task[w].kind # "toggle",
               UNCHANGED <<registry, OnDisk, missed, excused>>
        PROVE  ShownInv'
    <2>1. Others(w) /\ SameJob(w) /\ task'[w].pc = pc
      BY <1>2, GotoShape
    <2>2. ~(Written(w))'
      BY <2>1 DEF Written, Rewriting, At
    <2> QED BY <1>2, <2>1, <2>2, QuietShown DEF OnDisk
  <1>3. ASSUME NEW pc \in {"fetch", "open", "clear", "extract", "remove", "read"}, At(w, pc)
        PROVE  ~Written(w)
    BY <1>3 DEF At, Written, Rewriting
  <1>4. CASE Fetch(w)
    <2>1. ~Written(w) /\ UNCHANGED <<registry, OnDisk, missed>>
      BY <1>3, <1>4 DEF Fetch
    <2> QED BY <1>1, <1>2, <1>4, <2>1 DEF Fetch
  <1>5. CASE Open(w)
    <2>1. ~Written(w) /\ UNCHANGED <<registry, OnDisk, missed>>
      BY <1>3, <1>5 DEF Open
    <2>2. CASE Fails(w, {})
      BY <1>1, <2>1, <2>2
    <2>3. CASE ~Fails(w, {})
      <3>1. Others(w) /\ SameJob(w) /\ task'[w].pc = "clear" /\ UNCHANGED excused
        BY <1>5, <2>3, OpenShape DEF Open
      <3>2. ~(Written(w))'
        BY <3>1 DEF Written, Rewriting, At
      <3> QED BY <2>1, <3>1, <3>2, QuietShown DEF OnDisk
    <2> QED BY <2>2, <2>3
  <1>6. CASE Clear(w)
    <2>1. ~Written(w) /\ UNCHANGED <<registry, OnDisk, missed>>
      BY <1>3, <1>6 DEF Clear
    <2> QED BY <1>1, <1>2, <1>6, <2>1 DEF Clear
  <1>7. CASE Extract(w)
    <2>1. ~Written(w) /\ UNCHANGED <<registry, OnDisk, missed>> /\ task[w].kind = "get"
      BY <1>0, <1>3, <1>7 DEF Extract, ThreadOK, At
    <2> QED BY <1>1, <1>2, <1>7, <2>1 DEF Extract
  <1>8. CASE Remove(w)
    <2>1. ~Written(w) /\ UNCHANGED <<registry, OnDisk, missed>> /\ task[w].kind = "uninstall"
      BY <1>0, <1>3, <1>8 DEF Remove, ThreadOK, At
    <2> QED BY <1>1, <1>2, <1>8, <2>1 DEF Remove
  <1>9. CASE Read(w)
    <2>1. ~Written(w) /\ At(w, "read") /\ UNCHANGED <<registry, OnDisk>>
      BY <1>3, <1>9 DEF Read
    <2>2. PICK found \in Listed :
            IF task[w].kind = "toggle" /\ found[task[w].plugin] = "none"
            THEN Fails(w, {}) /\ UNCHANGED missed
            ELSE LET next == [task EXCEPT ![w] = [@ EXCEPT !.pc = "truncate",
                                                           !.read = found]]
                 IN  IF found # registry \/ \E v \in Workers \ {w} : Rewriting(v)
                     THEN Lossy(next)
                     ELSE task' = next /\ UNCHANGED <<excused, missed>>
      BY <1>9 DEF Read
    <2> DEFINE next == [task EXCEPT ![w] = [@ EXCEPT !.pc = "truncate", !.read = found]]
    <2>3. CASE Fails(w, {}) /\ UNCHANGED missed
      BY <1>1, <2>1, <2>3
    <2>4. CASE Lossy(next)
      BY <2>1, <2>4, LossyShown DEF Lossy, OnDisk
    <2>5. CASE /\ task[w].kind = "toggle" => registry[task[w].plugin] # "none"
               /\ \A v \in Workers \ {w} : ~Rewriting(v)
               /\ found = registry /\ task' = next /\ UNCHANGED <<excused, missed>>
      BY <2>1, <2>5, ReadShape, ReadShown DEF OnDisk
    <2> QED BY <2>2, <2>3, <2>4, <2>5
  <1>10. CASE Truncate(w)
    <2>1. At(w, "truncate") /\ UNCHANGED <<slot, installed, missed>>
      BY <1>10 DEF Truncate, OnDisk
    <2>2. CASE Goto(w, "write") /\ UNCHANGED excused
      BY <2>1, <2>2, GotoShape, TruncateShown
    <2>3. CASE UNCHANGED registry /\ Fails(w, {task[w].plugin})
      BY <2>1, <2>3, FailsShape, TruncateFailsShown
    <2> QED BY <1>10, <2>2, <2>3 DEF Truncate
  <1>11. CASE Write(w)
    <2>1. At(w, "write") /\ UNCHANGED <<slot, installed>>
      BY <1>11 DEF Write, OnDisk
    <2>2. CASE /\ registry' = [task[w].read EXCEPT ![task[w].plugin] = NewRecord(w)]
               /\ task' = [task EXCEPT ![w] = Ended(@, TRUE)]
               /\ UNCHANGED <<excused, missed>>
      BY <2>1, <2>2, EndedShape, WriteShown
    <2>3. CASE Lossy([task EXCEPT ![w] = Ended(@, FALSE)])
      BY <2>1, <2>3, LossyShown DEF Lossy
    <2> QED BY <1>11, <2>2, <2>3 DEF Write
  <1>12. CASE Report(w)
    BY <1>12, ReportShown
  <1> QED BY <1>4, <1>5, <1>6, <1>7, <1>8, <1>9, <1>10, <1>11, <1>12 DEF Step

LEMMA NextKeepsShown ==
    ASSUME TypeInv, DiskInv, ShownInv, [Next]_vars
    PROVE  ShownInv'
  <1>1. ASSUME NEW w \in Workers, NEW p \in Plugins,
               Get(w, p) \/ Uninstall(w, p) \/ Toggle(w, p)
        PROVE  ShownInv'
    <2>1. PICK kind \in Kinds, pc \in Phases, on \in Records :
            /\ Start(w, kind, p, pc, on)
            /\ pc \in {"fetch", "remove", "read"}
            /\ installed[p] # "none" \/ kind # "toggle"
      BY <1>1 DEF Get, Uninstall, Toggle, Kinds, Phases, Records
    <2>2. UNCHANGED <<registry, slot, installed, missed>>
      BY <1>1 DEF Get, Uninstall, Toggle
    <2> QED BY <2>1, <2>2, StartShown
  <1>2. CASE \E w \in Workers : Step(w)
    BY <1>2, ThreadStepsKeepShown
  <1>3. CASE Reopen
    BY <1>3, ReopenShown
  <1>4. CASE RefreshPlugins
    BY <1>4, RelistShown DEF RefreshPlugins
  <1>5. CASE Poll
    BY <1>5, RelistShown, SwitchedShown DEF Poll
  <1>6. CASE UNCHANGED vars
    BY <1>6 DEF vars, ShownInv, SlotInv, SwitchOK, PageOK, FileOK, Working, Written,
                Recorded, Rewriting, At, NoResult
  <1> QED BY <1>1, <1>2, <1>3, <1>4, <1>5, <1>6 DEF Next

\* For any number of plugins and threads: with all threads over and the last result
\* taken, the page shows what the registry holds, for every plugin whose changes
\* went through undisturbed and unless a result was replaced before the page took
\* it.  One slot for the results of all threads loses nothing else.
THEOREM PageMatchesRegistryAlways == Spec => []PageMatchesRegistry
  <1>1. Init => TypeInv /\ DiskInv /\ ShownInv
    BY InitTypes, InitDisk, InitShown
  <1>2. TypeInv /\ DiskInv /\ ShownInv /\ [Next]_vars => TypeInv' /\ DiskInv' /\ ShownInv'
    BY NextKeepsTypes, NextKeepsDisk, NextKeepsShown
  <1>3. ShownInv => PageMatchesRegistry
    <2>1. ASSUME ShownInv, \A w \in Workers : ~Busy(w), slot = NoResult, ~missed,
                 NEW p \in Plugins \ excused
          PROVE  installed[p] = registry[p]
      <3>1. PageOK(p)
        BY <2>1 DEF ShownInv
      <3>2. \A w \in Workers : ~Written(w) /\ ~At(w, "write")
        BY <2>1 DEF Busy, Written, Rewriting, At
      <3>3. slot.plugin # p
        BY <2>1, PluginAssumption DEF NoResult
      <3>4. Recorded(p, installed[p])
        BY <3>1, <3>2, <3>3 DEF PageOK, Working
      <3> QED BY <3>2, <3>4 DEF Recorded
    <2> QED BY <2>1 DEF PageMatchesRegistry
  <1> QED BY <1>1, <1>2, <1>3, PTL DEF Spec

=============================================================================
