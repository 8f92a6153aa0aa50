----------------------------- MODULE Installer -----------------------------
(***************************************************************************)
(* winxime-tsf-register, the program the installers run, beside the two    *)
(* others that touch the same registration: the server, which registers    *)
(* the DLL of its own directory at every start, and the applications that  *)
(* load the registered DLL and never let go of it.  A command is a list of *)
(* steps; each step is one action, so that the others move in between.     *)
(*                                                                         *)
(* Sources: winxime-tsf-register/src/main.rs, winxime-tsf/src/dll.rs,      *)
(* class_factory.rs, winxime-server/src/register.rs.                       *)
(***************************************************************************)
EXTENDS Naturals, Sequences

CONSTANTS
    Apps,            \* the processes that use text services
    Commands,        \* the commands of winxime-tsf-register that are run
    MaxRuns,         \* bound on the commands and server starts together
    InProgramFiles   \* the install directory is below "Program Files"

VARIABLES
    sysDll,   \* System32\winxime_tsf.dll exists
    dir,      \* the install directory, with its own DLL, exists
    data,     \* the user data directory exists
    run,      \* the Run value that starts the server at logon, in HKLM
    clsid,    \* which DLL HKLM\Software\Classes\CLSID\{..} names, or "none"
    tip,      \* the key HKLM\SOFTWARE\Microsoft\CTF\TIP\{..}
    profile,  \* the TSF profile is registered
    cats,     \* all seven categories are
    layout,   \* the user's input methods list it
    held,     \* the DLL an application has loaded
    used,     \* the applications that have created a text service since
    server,   \* "off", "starting" or "up"
    boot,     \* the steps of the starting server's registration still to do
    job,      \* the command that runs, or with at = 0 the last one
    verdict,  \* what -full-uninstall printed last
    dangling, \* the mishaps after which clsid may name no DLL, or be left behind
    runs      \* commands and server starts so far

diskVars == <<sysDll, dir, data, run>>
regVars  == <<clsid, tip, profile, cats, layout>>
srvVars  == <<server, boot>>
appVars  == <<held, used>>
vars     == <<diskVars, regVars, appVars, srvVars, job, verdict, dangling, runs>>

Dlls == {"system", "exe"}
Exists(d) == IF d = "system" THEN sysDll ELSE dir

\* The commands; those of Strict end at their first failing step.
Register == <<"regExe", "profile", "enable">>
CopyToSystem == <<"copy">>
CopyAndRegister == <<"copy", "regSystem", "profile", "enable">>
Unregister == <<"stop", "unprofile", "unregExe">>
RemoveFromSystem == <<"remove">>
UnregisterAndRemove == <<"stop", "unprofile", "unregSystem", "remove", "keys">>
FullUninstall ==
    <<"stop", "unprofile", "unregSystem", "remove", "keys", "data", "dir", "verify">>
RegisterUser == Register
UnregisterUser == Unregister
Install == CopyAndRegister
\* Mutant of Uninstall: the DLL is gone when it is to unregister itself.
UninstallRemoveFirst == <<"stop", "unprofile", "remove", "unregSystem">>

Uninstall == <<"stop", "unprofile", "unregSystem", "remove">>
RegisterOnly == <<"regSystem", "profile", "enable">>
UnregisterOnly == <<"unprofile", "unregSystem">>

Program == [register |-> Register, copyToSystem |-> CopyToSystem,
            copyAndRegister |-> CopyAndRegister, unregister |-> Unregister,
            removeFromSystem |-> RemoveFromSystem,
            unregisterAndRemove |-> UnregisterAndRemove,
            fullUninstall |-> FullUninstall, registerUser |-> RegisterUser,
            unregisterUser |-> UnregisterUser, install |-> Install,
            uninstall |-> Uninstall, registerOnly |-> RegisterOnly,
            unregisterOnly |-> UnregisterOnly, r |-> <<"profile">>,
            dll |-> <<"regExe">>, i |-> <<"enable">>, d |-> <<"disable">>,
            s |-> <<"stop">>, u |-> <<"unprofile">>]

Installs == {"copyAndRegister", "install", "registerOnly"}
Uninstalls == {"unregisterAndRemove", "fullUninstall", "uninstall"}
Strict == {"register", "copyToSystem", "copyAndRegister", "removeFromSystem",
           "registerUser", "install", "registerOnly", "r", "dll", "u"}

ASSUME CommandsAssumption == Commands \subseteq DOMAIN Program
ASSUME MaxRunsAssumption == MaxRuns \in Nat
ASSUME InProgramFilesAssumption == InProgramFiles \in BOOLEAN

Idle == job.at = 0

Init ==
    /\ sysDll = FALSE /\ dir = TRUE /\ data \in BOOLEAN /\ run \in BOOLEAN
    /\ clsid = "none" /\ tip = FALSE /\ profile = FALSE /\ cats = FALSE
    /\ layout = FALSE
    /\ held = [a \in Apps |-> "none"] /\ used = {}
    /\ server = "off" /\ boot = <<>>
    /\ job = [cmd |-> "s", at |-> 0, admin |-> FALSE, failed |-> FALSE,
              alone |-> TRUE, mapped |-> {}]
    /\ verdict = "none" /\ dangling = {} /\ runs = 0
----------------------------------------------------------------------------
(* The command.  Every step but the first few lines of main is an action. *)

Running(step) == ~Idle /\ Program[job.cmd][job.at] = step

\* The next step, or the end: of the list, or at a failure that exits.  A DLL
\* loaded stays in the process until then.
Advance(ok, loads) ==
    LET last == job.at = Len(Program[job.cmd]) \/ (~ok /\ job.cmd \in Strict)
    IN  job' = [job EXCEPT !.at = IF last THEN 0 ELSE @ + 1,
                           !.failed = @ \/ ~ok,
                           !.mapped = IF last THEN {} ELSE @ \cup loads]

Start(c, admin) ==
    /\ Idle /\ dir /\ runs < MaxRuns
    /\ runs' = runs + 1
    /\ job' = [cmd |-> c, at |-> 1, admin |-> admin, failed |-> FALSE,
               alone |-> TRUE, mapped |-> {}]
    /\ UNCHANGED <<diskVars, regVars, appVars, srvVars, verdict, dangling>>

InUse(d) == d \in job.mapped \/ \E a \in Apps : held[a] = d

\* The old DLL is removed first, the failure to do so ignored; then the new one
\* is copied, which the old one, if still there and loaded, prevents, and so may a
\* full disk or a wrong path.  Windows may or may not let a loaded DLL be removed.
Copy ==
    /\ Running("copy")
    /\ \E removed, copied \in BOOLEAN :
        /\ removed => job.admin /\ sysDll
        /\ job.admin /\ sysDll /\ ~InUse("system") => removed
        /\ copied => job.admin /\ (sysDll => removed)
        /\ sysDll' = (copied \/ (sysDll /\ ~removed))
        /\ dangling' = IF copied THEN dangling \ {"copy", "removed alone"}
                       ELSE IF removed THEN dangling \cup {"copy"} ELSE dangling
        /\ Advance(copied, {})
    /\ UNCHANGED <<dir, data, run, regVars, appVars, srvVars, verdict, runs>>

\* The DLL enters its own path (its module handle is set as it is loaded).
DoRegister(d) == clsid' = d /\ dangling' = {}

\* The DLL is loaded and called; either may fail, the call also after it has
\* entered the path.
RegisterDll(step, d) ==
    /\ Running(step)
    /\ \/ /\ Exists(d) /\ job.admin
          /\ DoRegister(d)
          /\ \E ok \in BOOLEAN : Advance(ok, {d})
       \/ /\ UNCHANGED <<clsid, dangling>>
          /\ \E loads \in SUBSET {e \in {d} : Exists(e)} : Advance(FALSE, loads)
    /\ UNCHANGED <<diskVars, tip, profile, cats, layout, appVars, srvVars, verdict, runs>>

\* The profile, then category by category; a failing one leaves the rest out.
RegisterProfile ==
    /\ Running("profile")
    /\ \/ /\ job.admin
          /\ profile' = TRUE /\ tip' = TRUE
          /\ \E all \in BOOLEAN : /\ cats' = (cats \/ all)
                                  /\ Advance(all, {})
       \/ UNCHANGED <<profile, tip, cats>> /\ Advance(FALSE, {})
    /\ UNCHANGED <<diskVars, clsid, layout, appVars, srvVars, verdict, dangling, runs>>

\* InstallLayoutOrTip, its result ignored; it takes effect for a registered profile.
SetLayout(step, on) ==
    /\ Running(step)
    /\ layout' = (on /\ (profile \/ layout))
    /\ Advance(TRUE, {})
    /\ UNCHANGED <<diskVars, clsid, tip, profile, cats, appVars, srvVars, verdict, dangling, runs>>

\* A server that serves is asked to shut down, and no answer is awaited; otherwise
\* taskkill ends it, or fails unnoticed.
Stop ==
    /\ Running("stop")
    /\ \/ server' = "off" /\ boot' = <<>>
       \/ UNCHANGED srvVars
    /\ Advance(TRUE, {})
    /\ UNCHANGED <<diskVars, regVars, appVars, verdict, dangling, runs>>

\* Categories, a failing one only reported; the profile; then the TIP key, which
\* stays while Windows keeps something below it.  The other key deleted, HKLM\CLSID\{..}, is not the one RegisterDll sets.
UnregisterProfile ==
    /\ Running("unprofile")
    /\ \/ /\ job.admin
          /\ cats' \in {FALSE, cats} /\ profile' = FALSE /\ tip' \in {FALSE, tip}
          /\ Advance(TRUE, {})
       \/ /\ job.admin => ~profile
          /\ cats' \in {cats, cats /\ ~job.admin}
          /\ UNCHANGED <<profile, tip>>
          /\ Advance(FALSE, {})
    /\ UNCHANGED <<diskVars, clsid, layout, appVars, srvVars, verdict, dangling, runs>>

\* What of the registration an unregistration leaves, told or not, is a mishap.
Kept == dangling' = IF clsid' = "none" /\ ~tip' THEN dangling \ {"kept"}
                    ELSE dangling \cup {"kept"}

\* Mutant of DoUnregister: only the TIP key is to be deleted.
DoUnregisterKeepsClsid == tip' = FALSE /\ UNCHANGED <<clsid, dangling>>

\* Two deletions, either of which may fail, whose results nobody looks at.  The layout
\* string built for InstallLayoutOrTip has one pair of braces too many and names no layout.
DoUnregister ==
    /\ IF job.admin THEN clsid' \in {clsid, "none"} /\ tip' \in {tip, FALSE}
                    ELSE UNCHANGED <<clsid, tip>>
    /\ Kept

\* DllUnregisterServer reports success whatever its deletions did; a DLL that is not
\* loaded, or does not have it, is reported.
UnregisterDll(step, d) ==
    /\ Running(step)
    /\ \/ Exists(d) /\ DoUnregister /\ Advance(TRUE, {d})
       \/ /\ UNCHANGED <<clsid, tip>> /\ Kept
          /\ \E loads \in SUBSET {e \in {d} : Exists(e)} : Advance(FALSE, loads)
    /\ UNCHANGED <<diskVars, profile, cats, layout, appVars, srvVars, verdict, runs>>

\* The step before has loaded the DLL into this very process.
Remove ==
    /\ Running("remove")
    /\ \E removed \in BOOLEAN :
        /\ removed => job.admin
        /\ job.admin /\ ~InUse("system") => removed
        /\ sysDll' = (sysDll /\ ~removed)
        /\ dangling' = IF removed /\ sysDll /\ job.cmd = "removeFromSystem"
                       THEN dangling \cup {"removed alone"} ELSE dangling
        /\ Advance(removed \/ ~sysDll, {})
    /\ UNCHANGED <<dir, data, run, regVars, appVars, srvVars, verdict, runs>>
----------------------------------------------------------------------------
RemoveKeys ==
    /\ Running("keys")
    /\ run' = (run /\ ~job.admin)
    /\ Advance(TRUE, {})
    /\ UNCHANGED <<sysDll, dir, data, regVars, appVars, srvVars, verdict, dangling, runs>>

\* A server started meanwhile keeps files of it open.
RemoveData ==
    /\ Running("data")
    /\ \E removed \in BOOLEAN :
        /\ server = "off" => removed
        /\ data' = (data /\ ~removed)
        /\ Advance(removed \/ ~data, {})
    /\ UNCHANGED <<sysDll, dir, run, regVars, appVars, srvVars, verdict, dangling, runs>>

\* The removal is only scheduled, for the time after the program's end, and only
\* below Program Files (RemoveDir).
ScheduleDir ==
    /\ Running("dir")
    /\ Advance(TRUE, {})
    /\ UNCHANGED <<diskVars, regVars, appVars, srvVars, verdict, dangling, runs>>

\* Verification looks at the DLL, the directories, HKLM\CLSID\{..} and the TIP key.
Verify ==
    /\ Running("verify")
    /\ verdict' = IF sysDll \/ data \/ (dir /\ InProgramFiles) \/ tip
                  THEN "incomplete" ELSE "complete"
    /\ Advance(TRUE, {})
    /\ UNCHANGED <<diskVars, regVars, appVars, srvVars, dangling, runs>>

\* The scheduled rmdir /s, some seconds after a -full-uninstall; files in use stay.
RemoveDir ==
    /\ Idle /\ verdict # "none" /\ InProgramFiles /\ dir
    /\ server = "off" /\ ~InUse("exe")
    /\ dir' = FALSE
    /\ dangling' = IF clsid = "exe" THEN dangling \cup {"directory"} ELSE dangling
    /\ UNCHANGED <<sysDll, data, run, regVars, appVars, srvVars, job, verdict, runs>>
----------------------------------------------------------------------------
\* Another installer unpacks the program again and enters the Run value.
Unpack ==
    /\ Idle /\ ~dir
    /\ dir' = TRUE /\ run' = TRUE /\ verdict' = "none"
    /\ dangling' = dangling \ {"directory"}
    /\ UNCHANGED <<sysDll, data, regVars, appVars, srvVars, job, runs>>
----------------------------------------------------------------------------
(* The server: it registers what lies beside it, and serves in any case. *)

\* Mutant of ServerStart: the profile is registered before the DLL.
ServerStartProfileFirst ==
    /\ server = "off" /\ dir /\ runs < MaxRuns
    /\ runs' = runs + 1
    /\ server' = "starting" /\ data' = TRUE
    /\ \E admin \in BOOLEAN :
        boot' = IF admin THEN <<"profile", "regExe", "enable">> ELSE <<>>
    /\ UNCHANGED <<sysDll, dir, run, regVars, appVars, job, verdict, dangling>>

ServerStart ==
    /\ server = "off" /\ dir /\ runs < MaxRuns
    /\ runs' = runs + 1
    /\ server' = "starting" /\ data' = TRUE
    /\ \E admin \in BOOLEAN :
        boot' = IF admin THEN <<"regExe", "profile", "enable">> ELSE <<>>
    /\ UNCHANGED <<sysDll, dir, run, regVars, appVars, job, verdict, dangling>>

Disturb == job' = [job EXCEPT !.alone = FALSE]

ServerRegisterDll ==
    /\ server = "starting" /\ boot # <<>> /\ Head(boot) = "regExe" /\ Disturb
    /\ \/ DoRegister("exe") /\ boot' \in {Tail(boot), <<>>}
       \/ boot' = <<>> /\ UNCHANGED <<clsid, dangling>>
    /\ UNCHANGED <<diskVars, tip, profile, cats, layout, appVars, server, verdict, runs>>

ServerRegisterProfile ==
    /\ server = "starting" /\ boot # <<>> /\ Head(boot) = "profile" /\ Disturb
    /\ \/ /\ profile' = TRUE /\ tip' = TRUE
          /\ \E all \in BOOLEAN :
              /\ cats' = (cats \/ all)
              /\ boot' = IF all THEN Tail(boot) ELSE <<>>
       \/ boot' = <<>> /\ UNCHANGED <<profile, tip, cats>>
    /\ UNCHANGED <<diskVars, clsid, layout, appVars, server, verdict, dangling, runs>>

ServerEnable ==
    /\ server = "starting" /\ boot # <<>> /\ Head(boot) = "enable"
    /\ layout' = (layout \/ profile)
    /\ boot' = <<>> /\ Disturb
    /\ UNCHANGED <<diskVars, clsid, tip, profile, cats, appVars, server, verdict, dangling, runs>>

\* ensure_registered has returned, with or without success; the pipe opens.
ServerUp ==
    /\ server = "starting" /\ boot = <<>>
    /\ server' = "up"
    /\ UNCHANGED <<diskVars, regVars, appVars, boot, job, verdict, dangling, runs>>

\* A server that was asked to, by Stop or from its tray menu, ends.
ServerExit ==
    /\ server = "up"
    /\ server' = "off"
    /\ UNCHANGED <<diskVars, regVars, appVars, boot, job, verdict, dangling, runs>>
----------------------------------------------------------------------------
(* The applications.  The count of instances is never lowered for a text     *)
(* service released, so a DLL that served one stays until the process ends.  *)

Load(a) ==
    /\ held[a] = "none" /\ layout /\ profile /\ clsid # "none" /\ Exists(clsid)
    /\ held' = [held EXCEPT ![a] = clsid]
    /\ UNCHANGED <<diskVars, regVars, used, srvVars, job, verdict, dangling, runs>>

CreateInstance(a) ==
    /\ held[a] # "none" /\ a \notin used
    /\ used' = used \cup {a}
    /\ UNCHANGED <<diskVars, regVars, held, srvVars, job, verdict, dangling, runs>>

CanUnloadNow(a) ==
    /\ held[a] # "none" /\ a \notin used
    /\ held' = [held EXCEPT ![a] = "none"]
    /\ UNCHANGED <<diskVars, regVars, used, srvVars, job, verdict, dangling, runs>>

AppExit(a) ==
    /\ a \in used
    /\ held' = [held EXCEPT ![a] = "none"] /\ used' = used \ {a}
    /\ UNCHANGED <<diskVars, regVars, srvVars, job, verdict, dangling, runs>>
----------------------------------------------------------------------------
Step == \/ Copy \/ RegisterDll("regSystem", "system") \/ RegisterDll("regExe", "exe")
        \/ RegisterProfile \/ SetLayout("enable", TRUE) \/ SetLayout("disable", FALSE)
        \/ Stop \/ UnregisterProfile
        \/ UnregisterDll("unregSystem", "system") \/ UnregisterDll("unregExe", "exe")
        \/ Remove \/ RemoveKeys \/ RemoveData \/ ScheduleDir \/ Verify

ServerStep == ServerStart \/ ServerRegisterDll \/ ServerRegisterProfile
              \/ ServerEnable \/ ServerUp \/ ServerExit

AppStep(a) == Load(a) \/ CreateInstance(a) \/ CanUnloadNow(a) \/ AppExit(a)

Next == \/ \E c \in Commands, admin \in BOOLEAN : Start(c, admin)
        \/ Step \/ RemoveDir \/ Unpack \/ ServerStep
        \/ \E a \in Apps : AppStep(a)

Spec == Init /\ [][Next]_vars
----------------------------------------------------------------------------
\* Every variable holds what its declaration says.
TypeOK ==
    /\ <<sysDll, dir, data, run>> \in BOOLEAN \X BOOLEAN \X BOOLEAN \X BOOLEAN
    /\ clsid \in Dlls \cup {"none"}
    /\ <<tip, profile, cats, layout>> \in BOOLEAN \X BOOLEAN \X BOOLEAN \X BOOLEAN
    /\ held \in [Apps -> Dlls \cup {"none"}] /\ used \subseteq Apps
    /\ server \in {"off", "starting", "up"}
    /\ boot \in {<<"regExe", "profile", "enable">>, <<"profile", "enable">>, <<"enable">>, <<>>}
    /\ job \in [cmd : DOMAIN Program, at : 0..8, admin : BOOLEAN,
                failed : BOOLEAN, alone : BOOLEAN, mapped : SUBSET Dlls]
    /\ verdict \in {"none", "complete", "incomplete"}
    /\ dangling \subseteq {"copy", "removed alone", "kept", "directory"}
    /\ runs \in 0..MaxRuns

\* The CLSID key names a DLL that is there, in every interleaving of the commands,
\* failing steps, servers starting and applications holding the DLL; the exceptions are
\* a copy that failed after the old DLL was removed, -remove-from-system by itself, an
\* unregistration that failed (told, or not: do_unregister drops the results of its
\* deletions) in a command that then goes on to delete the DLL all the same, and an
\* install directory removed although a server had registered the DLL in it.
RegisteredDllExists == clsid # "none" /\ ~Exists(clsid) => dangling # {}

\* An uninstallation none of whose steps reported a failure, none of whose deletions of
\* registry keys failed silently (dll.rs drops their results), and during and after
\* which no server registered itself, leaves neither DLL nor profile nor COM
\* registration behind, whatever was registered before it, whatever earlier commands
\* left undone, and whether or not the server was still ending (the layout is another
\* matter, see DoUnregister, and a category that is not unregistered is no failure).
CleanUninstall ==
    Idle /\ job.cmd \in Uninstalls /\ ~job.failed /\ job.alone /\ "kept" \notin dangling
        => ~sysDll /\ clsid = "none" /\ ~tip /\ ~profile

=============================================================================
