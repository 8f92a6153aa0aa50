------------------------- MODULE Installer_proofs -------------------------
(***************************************************************************)
(* For every set of applications and commands and any number of runs: type *)
(* correctness; the CLSID key names a DLL that is there, but for the named *)
(* mishaps; an undisturbed uninstallation leaves no registration.          *)
(***************************************************************************)
EXTENDS Installer, TLAPS

-----------------------------------------------------------------------------
(* What the command lists look like. *)

(* No list is empty or longer than eight steps. *)
LEMMA ProgramLengths ==
    ASSUME NEW c \in DOMAIN Program
    PROVE  Len(Program[c]) \in 1..8
  BY DEF Program, Register, CopyToSystem, CopyAndRegister, Unregister, RemoveFromSystem,
         UnregisterAndRemove, FullUninstall, RegisterUser, UnregisterUser, Install,
         Uninstall, RegisterOnly, UnregisterOnly

(* The uninstallations are the only programs, but for the one that does nothing else,
   which remove the DLL of System32; they begin alike. *)
LEMMA UninstallPrefix ==
    ASSUME NEW c \in Uninstalls
    PROVE  /\ c \in DOMAIN Program /\ c \notin Strict /\ c # "removeFromSystem"
           /\ Len(Program[c]) >= 4
           /\ Program[c][1] = "stop" /\ Program[c][2] = "unprofile"
           /\ Program[c][3] = "unregSystem" /\ Program[c][4] = "remove"
           /\ \A i \in 5..Len(Program[c]) : Program[c][i] \in {"keys", "data", "dir", "verify"}
  <1>1. c \in DOMAIN Program /\ c \notin Strict /\ c # "removeFromSystem"
    BY DEF Uninstalls, Program, Strict
  <1>2. CASE c = "uninstall"
    <2>1. Program[c] = <<"stop", "unprofile", "unregSystem", "remove">>
      BY <1>2 DEF Program, Uninstall
    <2> QED BY <1>1, <2>1
  <1>3. CASE c = "unregisterAndRemove"
    <2>1. Program[c] = <<"stop", "unprofile", "unregSystem", "remove", "keys">>
      BY <1>3 DEF Program, UnregisterAndRemove
    <2> QED BY <1>1, <2>1
  <1>4. CASE c = "fullUninstall"
    <2>1. Program[c] = <<"stop", "unprofile", "unregSystem", "remove", "keys",
                         "data", "dir", "verify">>
      BY <1>4 DEF Program, FullUninstall
    <2> QED BY <1>1, <2>1
  <1> QED BY <1>2, <1>3, <1>4 DEF Uninstalls

LEMMA WhoRemoves ==
    ASSUME NEW c \in DOMAIN Program, NEW i \in 1..Len(Program[c]), Program[c][i] = "remove"
    PROVE  c \in Uninstalls \cup {"removeFromSystem"}
  <1>1. ASSUME c \in {"register", "registerUser"} PROVE FALSE
    <2>1. Program[c] = <<"regExe", "profile", "enable">>
      BY <1>1 DEF Program, Register, RegisterUser
    <2> QED BY <2>1
  <1>2. ASSUME c \in {"copyToSystem"} PROVE FALSE
    <2>1. Program[c] = <<"copy">>
      BY <1>2 DEF Program, CopyToSystem
    <2> QED BY <2>1
  <1>3. ASSUME c \in {"copyAndRegister", "install"} PROVE FALSE
    <2>1. Program[c] = <<"copy", "regSystem", "profile", "enable">>
      BY <1>3 DEF Program, CopyAndRegister, Install
    <2> QED BY <2>1
  <1>4. ASSUME c \in {"unregister", "unregisterUser"} PROVE FALSE
    <2>1. Program[c] = <<"stop", "unprofile", "unregExe">>
      BY <1>4 DEF Program, Unregister, UnregisterUser
    <2> QED BY <2>1
  <1>5. ASSUME c \in {"registerOnly"} PROVE FALSE
    <2>1. Program[c] = <<"regSystem", "profile", "enable">>
      BY <1>5 DEF Program, RegisterOnly
    <2> QED BY <2>1
  <1>6. ASSUME c \in {"unregisterOnly"} PROVE FALSE
    <2>1. Program[c] = <<"unprofile", "unregSystem">>
      BY <1>6 DEF Program, UnregisterOnly
    <2> QED BY <2>1
  <1>7. ASSUME c \in {"r"} PROVE FALSE
    <2>1. Program[c] = <<"profile">>
      BY <1>7 DEF Program
    <2> QED BY <2>1
  <1>8. ASSUME c \in {"dll"} PROVE FALSE
    <2>1. Program[c] = <<"regExe">>
      BY <1>8 DEF Program
    <2> QED BY <2>1
  <1>9. ASSUME c \in {"i"} PROVE FALSE
    <2>1. Program[c] = <<"enable">>
      BY <1>9 DEF Program
    <2> QED BY <2>1
  <1>10. ASSUME c \in {"d"} PROVE FALSE
    <2>1. Program[c] = <<"disable">>
      BY <1>10 DEF Program
    <2> QED BY <2>1
  <1>11. ASSUME c \in {"s"} PROVE FALSE
    <2>1. Program[c] = <<"stop">>
      BY <1>11 DEF Program
    <2> QED BY <2>1
  <1>12. ASSUME c \in {"u"} PROVE FALSE
    <2>1. Program[c] = <<"unprofile">>
      BY <1>12 DEF Program
    <2> QED BY <2>1
  <1> QED BY <1>1, <1>2, <1>3, <1>4, <1>5, <1>6, <1>7, <1>8, <1>9, <1>10, <1>11, <1>12 DEF Program, Uninstalls

-----------------------------------------------------------------------------
(* Types. *)

(* A command under way is within its list. *)
PlaceInv == job.at <= Len(Program[job.cmd])

Jobs == [cmd : DOMAIN Program, at : 0..8, admin : BOOLEAN,
         failed : BOOLEAN, alone : BOOLEAN, mapped : SUBSET Dlls]

(* The types, in parts. *)
DiskType == sysDll \in BOOLEAN /\ dir \in BOOLEAN /\ data \in BOOLEAN /\ run \in BOOLEAN
RegType == /\ clsid \in Dlls \cup {"none"}
           /\ tip \in BOOLEAN /\ profile \in BOOLEAN /\ cats \in BOOLEAN /\ layout \in BOOLEAN
AppType == held \in [Apps -> Dlls \cup {"none"}] /\ used \subseteq Apps
Boots == {<<"regExe", "profile", "enable">>, <<"profile", "enable">>, <<"enable">>, <<>>}
SrvType == server \in {"off", "starting", "up"} /\ boot \in Boots
RestType == /\ verdict \in {"none", "complete", "incomplete"}
            /\ dangling \subseteq {"copy", "removed alone", "kept", "directory"}
            /\ runs \in 0..MaxRuns

TypeInv == DiskType /\ RegType /\ AppType /\ SrvType /\ RestType /\ job \in Jobs /\ PlaceInv

LEMMA TypeInvImplies == TypeInv => TypeOK
  BY DEF TypeInv, TypeOK, Jobs, DiskType, RegType, AppType, SrvType, RestType, Boots

(* What a step leaves alone keeps its type. *)
LEMMA Frame ==
    ASSUME TypeInv
    PROVE  /\ UNCHANGED diskVars => DiskType'
           /\ UNCHANGED regVars => RegType'
           /\ UNCHANGED appVars => AppType'
           /\ UNCHANGED srvVars => SrvType'
           /\ UNCHANGED <<verdict, dangling, runs>> => RestType'
           /\ UNCHANGED job => job' \in Jobs /\ PlaceInv'
  <1>1. UNCHANGED diskVars => DiskType'
    BY DEF TypeInv, diskVars, DiskType
  <1>2. UNCHANGED regVars => RegType'
    BY DEF TypeInv, regVars, RegType
  <1>3. UNCHANGED appVars => AppType'
    BY DEF TypeInv, appVars, AppType
  <1>4. UNCHANGED srvVars => SrvType'
    BY DEF TypeInv, srvVars, SrvType
  <1>5. UNCHANGED <<verdict, dangling, runs>> => RestType'
    BY DEF TypeInv, RestType
  <1>6. UNCHANGED job => job' \in Jobs /\ PlaceInv'
    BY DEF TypeInv, PlaceInv
  <1> QED BY <1>1, <1>2, <1>3, <1>4, <1>5, <1>6

LEMMA AdvanceType ==
    ASSUME job \in Jobs, PlaceInv, ~Idle, NEW ok \in BOOLEAN, NEW loads \in SUBSET Dlls,
           Advance(ok, loads)
    PROVE  /\ job' \in Jobs /\ PlaceInv'
           /\ job'.cmd = job.cmd /\ job'.admin = job.admin /\ job'.alone = job.alone
           /\ ~job'.failed => ~job.failed /\ ok
           /\ job'.at = 0 \/ job'.at = job.at + 1
           /\ job'.at = 0 => job.at = Len(Program[job.cmd]) \/ (~ok /\ job.cmd \in Strict)
  <1> DEFINE n == Len(Program[job.cmd])
             strict == ~ok /\ job.cmd \in Strict
             last == job.at = n \/ strict
             failed == job.failed \/ ~ok
             at == IF last THEN 0 ELSE job.at + 1
             mapped == IF last THEN {} ELSE job.mapped \cup loads
  <1>1. job.cmd \in DOMAIN Program /\ job.at \in 1..n /\ n \in 1..8
    BY ProgramLengths DEF Jobs, PlaceInv, Idle
  <1>2. job' = [job EXCEPT !.at = at, !.failed = failed, !.mapped = mapped]
    BY DEF Advance
  <1>3. failed \in BOOLEAN /\ mapped \in SUBSET Dlls
    <2>1. failed \in BOOLEAN
      OBVIOUS
    <2>2. mapped \in SUBSET Dlls
      BY DEF Jobs
    <2> QED BY <2>1, <2>2
  <1> HIDE DEF n, strict, failed, mapped
  <1>4. at \in 0..8 /\ at <= n /\ (at = 0 \/ at = job.at + 1) /\ (at = 0 => last)
    BY <1>1
  <1> HIDE DEF last, at
  <1>5. /\ job' \in Jobs
        /\ job'.cmd = job.cmd /\ job'.admin = job.admin /\ job'.alone = job.alone
        /\ job'.failed = failed /\ job'.at = at
    BY <1>2, <1>3, <1>4 DEF Jobs
  <1>6. ~job'.failed => ~job.failed /\ ok
    BY <1>5 DEF failed
  <1>7. PlaceInv'
    BY <1>4, <1>5 DEF PlaceInv, n
  <1>8. job'.at = 0 => job.at = Len(Program[job.cmd]) \/ (~ok /\ job.cmd \in Strict)
    BY <1>4, <1>5 DEF last, n, strict
  <1>9. job'.at = 0 \/ job'.at = job.at + 1
    BY <1>4, <1>5
  <1> QED BY <1>5, <1>6, <1>7, <1>8, <1>9

-----------------------------------------------------------------------------
LEMMA InitType == Init => TypeInv
  <1> SUFFICES ASSUME Init PROVE TypeInv
    OBVIOUS
  <1>1. job \in Jobs /\ PlaceInv
    <2>1. "s" \in DOMAIN Program
      BY DEF Program
    <2>2. Len(Program["s"]) \in 1..8
      BY <2>1, ProgramLengths
    <2> QED BY <2>1, <2>2 DEF Init, Jobs, PlaceInv
  <1>2. DiskType
    BY DEF Init, DiskType
  <1>3. RegType
    BY DEF Init, RegType
  <1>4. AppType /\ SrvType
    BY DEF Init, AppType, SrvType, Boots
  <1>5. RestType
    BY MaxRunsAssumption DEF Init, RestType
  <1> QED BY <1>1, <1>2, <1>3, <1>4, <1>5 DEF TypeInv

(* The steps of a command. *)
LEMMA StepType == TypeInv /\ Step => TypeInv'
  <1> SUFFICES ASSUME TypeInv, Step PROVE TypeInv'
    OBVIOUS
  <1>0. job \in Jobs /\ PlaceInv
    BY DEF TypeInv
  <1>1. CASE Copy
    <2>1. \E ok \in BOOLEAN : Advance(ok, {})
      BY <1>1, <1>0 DEF Copy, TypeInv, DiskType
    <2>2. job' \in Jobs /\ PlaceInv'
      BY <1>0, <1>1, <2>1, AdvanceType DEF Copy, Running
    <2>3. DiskType'
      BY <1>1 DEF Copy, TypeInv, DiskType
    <2>4. RestType'
      BY <1>1 DEF Copy, TypeInv, RestType
    <2>5. RegType' /\ AppType' /\ SrvType'
      BY <1>1, Frame DEF Copy
    <2> QED BY <2>2, <2>3, <2>4, <2>5 DEF TypeInv
  <1>2. ASSUME NEW d \in Dlls, NEW step, RegisterDll(step, d) PROVE TypeInv'
    <2>1. \E ok \in BOOLEAN, loads \in SUBSET Dlls : Advance(ok, loads)
      BY <1>2 DEF RegisterDll
    <2>2. job' \in Jobs /\ PlaceInv'
      BY <1>0, <1>2, <2>1, AdvanceType DEF RegisterDll, Running
    <2>3. RegType'
      BY <1>2 DEF RegisterDll, TypeInv, RegType, Dlls, DoRegister
    <2>4. RestType'
      BY <1>2 DEF RegisterDll, TypeInv, RestType, DoRegister
    <2>5. DiskType' /\ AppType' /\ SrvType'
      BY <1>2, Frame DEF RegisterDll
    <2> QED BY <2>2, <2>3, <2>4, <2>5 DEF TypeInv
  <1>3. CASE RegisterProfile
    <2>2. job' \in Jobs /\ PlaceInv'
      BY <1>0, <1>3, AdvanceType DEF RegisterProfile, Running
    <2>3. RegType'
      BY <1>3 DEF RegisterProfile, TypeInv, RegType, Dlls
    <2>4. DiskType' /\ AppType' /\ SrvType' /\ RestType'
      BY <1>3, Frame DEF RegisterProfile
    <2> QED BY <2>2, <2>3, <2>4 DEF TypeInv
  <1>4. ASSUME NEW on \in BOOLEAN, NEW step, SetLayout(step, on) PROVE TypeInv'
    <2>2. job' \in Jobs /\ PlaceInv'
      BY <1>0, <1>4, AdvanceType DEF SetLayout, Running
    <2>3. RegType'
      BY <1>4 DEF SetLayout, TypeInv, RegType, Dlls
    <2>4. DiskType' /\ AppType' /\ SrvType' /\ RestType'
      BY <1>4, Frame DEF SetLayout
    <2> QED BY <2>2, <2>3, <2>4 DEF TypeInv
  <1>5. CASE Stop
    <2>2. job' \in Jobs /\ PlaceInv'
      BY <1>0, <1>5, AdvanceType DEF Stop, Running
    <2>3. SrvType'
      BY <1>5 DEF Stop, TypeInv, SrvType, Boots, srvVars
    <2>4. DiskType' /\ RegType' /\ AppType' /\ RestType'
      BY <1>5, Frame DEF Stop
    <2> QED BY <2>2, <2>3, <2>4 DEF TypeInv
  <1>6. CASE UnregisterProfile
    <2>2. job' \in Jobs /\ PlaceInv'
      BY <1>0, <1>6, AdvanceType DEF UnregisterProfile, Running
    <2>3. RegType'
      BY <1>6 DEF UnregisterProfile, TypeInv, RegType, Dlls
    <2>4. DiskType' /\ AppType' /\ SrvType' /\ RestType'
      BY <1>6, Frame DEF UnregisterProfile
    <2> QED BY <2>2, <2>3, <2>4 DEF TypeInv
  <1>7. ASSUME NEW d \in Dlls, NEW step, UnregisterDll(step, d) PROVE TypeInv'
    <2>1. \E ok \in BOOLEAN, loads \in SUBSET Dlls : Advance(ok, loads)
      BY <1>7 DEF UnregisterDll
    <2>2. job' \in Jobs /\ PlaceInv'
      BY <1>0, <1>7, <2>1, AdvanceType DEF UnregisterDll, Running
    <2>3. RegType'
      BY <1>7 DEF UnregisterDll, TypeInv, RegType, Dlls, DoUnregister
    <2>4. RestType'
      BY <1>7 DEF UnregisterDll, TypeInv, RestType, DoUnregister, Kept
    <2>5. DiskType' /\ AppType' /\ SrvType'
      BY <1>7, Frame DEF UnregisterDll
    <2> QED BY <2>2, <2>3, <2>4, <2>5 DEF TypeInv
  <1>8. CASE Remove
    <2>1. \E ok \in BOOLEAN : Advance(ok, {})
      BY <1>8, <1>0 DEF Remove, TypeInv, DiskType
    <2>2. job' \in Jobs /\ PlaceInv'
      BY <1>0, <1>8, <2>1, AdvanceType DEF Remove, Running
    <2>3. DiskType'
      BY <1>8 DEF Remove, TypeInv, DiskType
    <2>4. RestType'
      BY <1>8 DEF Remove, TypeInv, RestType
    <2>5. RegType' /\ AppType' /\ SrvType'
      BY <1>8, Frame DEF Remove
    <2> QED BY <2>2, <2>3, <2>4, <2>5 DEF TypeInv
  <1>9. CASE RemoveKeys
    <2>2. job' \in Jobs /\ PlaceInv'
      BY <1>0, <1>9, AdvanceType DEF RemoveKeys, Running
    <2>3. DiskType'
      BY <1>9 DEF RemoveKeys, TypeInv, DiskType
    <2>4. RegType' /\ AppType' /\ SrvType' /\ RestType'
      BY <1>9, Frame DEF RemoveKeys
    <2> QED BY <2>2, <2>3, <2>4 DEF TypeInv
  <1>10. CASE RemoveData
    <2>1. \E ok \in BOOLEAN : Advance(ok, {})
      BY <1>10, <1>0 DEF RemoveData, TypeInv, DiskType
    <2>2. job' \in Jobs /\ PlaceInv'
      BY <1>0, <1>10, <2>1, AdvanceType DEF RemoveData, Running
    <2>3. DiskType'
      BY <1>10 DEF RemoveData, TypeInv, DiskType
    <2>4. RegType' /\ AppType' /\ SrvType' /\ RestType'
      BY <1>10, Frame DEF RemoveData
    <2> QED BY <2>2, <2>3, <2>4 DEF TypeInv
  <1>11. CASE ScheduleDir
    <2>2. job' \in Jobs /\ PlaceInv'
      BY <1>0, <1>11, AdvanceType DEF ScheduleDir, Running
    <2>3. DiskType' /\ RegType' /\ AppType' /\ SrvType' /\ RestType'
      BY <1>11, Frame DEF ScheduleDir
    <2> QED BY <2>2, <2>3 DEF TypeInv
  <1>12. CASE Verify
    <2>2. job' \in Jobs /\ PlaceInv'
      BY <1>0, <1>12, AdvanceType DEF Verify, Running
    <2>3. RestType'
      BY <1>12 DEF Verify, TypeInv, RestType
    <2>4. DiskType' /\ RegType' /\ AppType' /\ SrvType'
      BY <1>12, Frame DEF Verify
    <2> QED BY <2>2, <2>3, <2>4 DEF TypeInv
  <1>13. "system" \in Dlls /\ "exe" \in Dlls
    BY DEF Dlls
  <1> QED
    BY <1>1, <1>2, <1>3, <1>4, <1>5, <1>6, <1>7, <1>8, <1>9, <1>10, <1>11, <1>12, <1>13 DEF Step

LEMMA BootTail == ASSUME boot \in Boots, boot # <<>> PROVE Tail(boot) \in Boots
  <1>1. CASE boot = <<"regExe", "profile", "enable">>
    <2>1. Tail(boot) = <<"profile", "enable">>
      BY <1>1
    <2> QED BY <2>1 DEF Boots
  <1>2. CASE boot = <<"profile", "enable">>
    <2>1. Tail(boot) = <<"enable">>
      BY <1>2
    <2> QED BY <2>1 DEF Boots
  <1>3. CASE boot = <<"enable">>
    <2>1. Tail(boot) = <<>>
      BY <1>3
    <2> QED BY <2>1 DEF Boots
  <1> QED BY <1>1, <1>2, <1>3 DEF Boots

(* Every other action. *)
LEMMA NextType == TypeInv /\ [Next]_vars => TypeInv'
  <1> SUFFICES ASSUME TypeInv, [Next]_vars PROVE TypeInv'
    OBVIOUS
  <1>0. job \in Jobs /\ PlaceInv
    BY DEF TypeInv
  <1>1. CASE Step
    BY <1>1, StepType
  <1>2. ASSUME NEW c \in Commands, NEW admin \in BOOLEAN, Start(c, admin) PROVE TypeInv'
    <2>1. job' \in Jobs /\ PlaceInv'
      <3>1. c \in DOMAIN Program
        BY CommandsAssumption
      <3>2. Len(Program[c]) \in 1..8
        BY <3>1, ProgramLengths
      <3>3. job' = [cmd |-> c, at |-> 1, admin |-> admin, failed |-> FALSE,
                    alone |-> TRUE, mapped |-> {}]
        BY <1>2 DEF Start
      <3>4. job' \in Jobs
        BY <3>1, <3>3 DEF Jobs
      <3>5. job'.at = 1 /\ job'.cmd = c
        BY <3>3
      <3>6. PlaceInv'
        <4>1. 1 <= Len(Program[c])
          BY <3>2
        <4>2. job'.at <= Len(Program[job'.cmd])
          BY <4>1, <3>5, Zenon
        <4> QED BY <4>2 DEF PlaceInv
      <3> QED BY <3>4, <3>6
    <2>2. RestType'
      <3>1. runs' \in 0..MaxRuns
        <4>1. runs \in 0..MaxRuns /\ runs < MaxRuns /\ runs' = runs + 1
          BY <1>2 DEF Start, TypeInv, RestType
        <4> QED BY <4>1, MaxRunsAssumption
      <3> QED BY <1>2, <3>1 DEF Start, TypeInv, RestType
    <2>3. DiskType' /\ RegType' /\ AppType' /\ SrvType'
      BY <1>2, Frame DEF Start
    <2> QED BY <2>1, <2>2, <2>3 DEF TypeInv
  <1>3. CASE RemoveDir
    <2>1. DiskType'
      BY <1>3 DEF RemoveDir, TypeInv, DiskType
    <2>2. RestType'
      BY <1>3, MaxRunsAssumption DEF RemoveDir, TypeInv, RestType
    <2>3. RegType' /\ AppType' /\ SrvType' /\ (job' \in Jobs /\ PlaceInv')
      BY <1>3, Frame DEF RemoveDir
    <2> QED BY <2>1, <2>2, <2>3 DEF TypeInv
  <1>4. CASE Unpack
    <2>1. DiskType'
      BY <1>4 DEF Unpack, TypeInv, DiskType
    <2>2. RestType'
      BY <1>4, MaxRunsAssumption DEF Unpack, TypeInv, RestType
    <2>3. RegType' /\ AppType' /\ SrvType' /\ (job' \in Jobs /\ PlaceInv')
      BY <1>4, Frame DEF Unpack
    <2> QED BY <2>1, <2>2, <2>3 DEF TypeInv
  <1>5. CASE ServerStart
    <2>1. DiskType'
      BY <1>5 DEF ServerStart, TypeInv, DiskType
    <2>2. SrvType'
      BY <1>5 DEF ServerStart, TypeInv, SrvType, Boots
    <2>3. RestType'
      <3>1. runs' \in 0..MaxRuns
        <4>1. runs \in 0..MaxRuns /\ runs < MaxRuns /\ runs' = runs + 1
          BY <1>5 DEF ServerStart, TypeInv, RestType
        <4> QED BY <4>1, MaxRunsAssumption
      <3> QED BY <1>5, <3>1 DEF ServerStart, TypeInv, RestType
    <2>4. RegType' /\ AppType' /\ (job' \in Jobs /\ PlaceInv')
      BY <1>5, Frame DEF ServerStart
    <2> QED BY <2>1, <2>2, <2>3, <2>4 DEF TypeInv
  <1>6. CASE ServerRegisterDll
    <2>1. job' \in Jobs /\ PlaceInv'
      BY <1>0, <1>6 DEF ServerRegisterDll, Disturb, Jobs, PlaceInv
    <2>2. RegType'
      BY <1>6 DEF ServerRegisterDll, TypeInv, RegType, Dlls, DoRegister
    <2>3. SrvType'
      <3>1. boot' \in {Tail(boot), <<>>} /\ <<>> \in Boots
        BY <1>6 DEF ServerRegisterDll, Boots
      <3> QED BY <1>6, <3>1, BootTail DEF ServerRegisterDll, TypeInv, SrvType
    <2>4. RestType'
      BY <1>6, MaxRunsAssumption DEF ServerRegisterDll, TypeInv, RestType, DoRegister
    <2>5. DiskType' /\ AppType'
      BY <1>6, Frame DEF ServerRegisterDll
    <2> QED BY <2>1, <2>2, <2>3, <2>4, <2>5 DEF TypeInv
  <1>7. CASE ServerRegisterProfile
    <2>1. job' \in Jobs /\ PlaceInv'
      BY <1>0, <1>7 DEF ServerRegisterProfile, Disturb, Jobs, PlaceInv
    <2>2. RegType'
      BY <1>7 DEF ServerRegisterProfile, TypeInv, RegType, Dlls
    <2>3. SrvType'
      <3>1. boot' \in Boots
        BY <1>7, BootTail DEF ServerRegisterProfile, TypeInv, SrvType, Boots
      <3> QED BY <1>7, <3>1 DEF ServerRegisterProfile, TypeInv, SrvType
    <2>4. DiskType' /\ AppType' /\ RestType'
      BY <1>7, Frame DEF ServerRegisterProfile
    <2> QED BY <2>1, <2>2, <2>3, <2>4 DEF TypeInv
  <1>8. CASE ServerEnable
    <2>1. job' \in Jobs /\ PlaceInv'
      BY <1>0, <1>8 DEF ServerEnable, Disturb, Jobs, PlaceInv
    <2>2. RegType'
      BY <1>8 DEF ServerEnable, TypeInv, RegType, Dlls
    <2>3. SrvType'
      BY <1>8 DEF ServerEnable, TypeInv, SrvType, Boots
    <2>4. DiskType' /\ AppType' /\ RestType'
      BY <1>8, Frame DEF ServerEnable
    <2> QED BY <2>1, <2>2, <2>3, <2>4 DEF TypeInv
  <1>9. CASE ServerUp
    <2>1. SrvType'
      BY <1>9 DEF ServerUp, TypeInv, SrvType, Boots
    <2>2. DiskType' /\ RegType' /\ AppType' /\ RestType' /\ (job' \in Jobs /\ PlaceInv')
      BY <1>9, Frame DEF ServerUp
    <2> QED BY <2>1, <2>2 DEF TypeInv
  <1>15. CASE ServerExit
    <2>1. SrvType'
      BY <1>15 DEF ServerExit, TypeInv, SrvType, Boots
    <2>2. DiskType' /\ RegType' /\ AppType' /\ RestType' /\ (job' \in Jobs /\ PlaceInv')
      BY <1>15, Frame DEF ServerExit
    <2> QED BY <2>1, <2>2 DEF TypeInv
  <1>10. ASSUME NEW a \in Apps, Load(a) PROVE TypeInv'
    <2>1. AppType'
      BY <1>10 DEF Load, TypeInv, AppType, RegType, Dlls
    <2>2. DiskType' /\ RegType' /\ SrvType' /\ RestType' /\ (job' \in Jobs /\ PlaceInv')
      BY <1>10, Frame DEF Load
    <2> QED BY <2>1, <2>2 DEF TypeInv
  <1>11. ASSUME NEW a \in Apps, CreateInstance(a) PROVE TypeInv'
    <2>1. AppType'
      BY <1>11 DEF CreateInstance, TypeInv, AppType
    <2>2. DiskType' /\ RegType' /\ SrvType' /\ RestType' /\ (job' \in Jobs /\ PlaceInv')
      BY <1>11, Frame DEF CreateInstance
    <2> QED BY <2>1, <2>2 DEF TypeInv
  <1>12. ASSUME NEW a \in Apps, CanUnloadNow(a) PROVE TypeInv'
    <2>1. AppType'
      BY <1>12 DEF CanUnloadNow, TypeInv, AppType
    <2>2. DiskType' /\ RegType' /\ SrvType' /\ RestType' /\ (job' \in Jobs /\ PlaceInv')
      BY <1>12, Frame DEF CanUnloadNow
    <2> QED BY <2>1, <2>2 DEF TypeInv
  <1>13. ASSUME NEW a \in Apps, AppExit(a) PROVE TypeInv'
    <2>1. AppType'
      BY <1>13 DEF AppExit, TypeInv, AppType
    <2>2. DiskType' /\ RegType' /\ SrvType' /\ RestType' /\ (job' \in Jobs /\ PlaceInv')
      BY <1>13, Frame DEF AppExit
    <2> QED BY <2>1, <2>2 DEF TypeInv
  <1>14. CASE UNCHANGED vars
    BY <1>14, Frame DEF vars, TypeInv
  <1> QED
    BY <1>1, <1>2, <1>3, <1>4, <1>5, <1>6, <1>7, <1>8, <1>9, <1>10, <1>11, <1>12, <1>13, <1>14, <1>15
    DEF Next, ServerStep, AppStep

(* Type correctness, for every set of applications and commands and any bound: every
   variable of the model, the place in a command's list among them, keeps its type. *)
THEOREM TypeCorrect == Spec => []TypeOK
  <1>1. Spec => []TypeInv
    BY InitType, NextType, PTL DEF Spec
  <1> QED BY <1>1, TypeInvImplies, PTL

-----------------------------------------------------------------------------
(* An uninstallation's place in its list says what it has already done. *)

(* Step k of the command is behind it. *)
Past(k) == job.at = 0 \/ job.at > k

UninstallSteps == {"stop", "unprofile", "unregSystem", "remove", "keys", "data", "dir", "verify"}

LEMMA UninstallPlace ==
    ASSUME job \in Jobs, PlaceInv, NEW step, Running(step),
           NEW ok \in BOOLEAN, NEW loads \in SUBSET Dlls, Advance(ok, loads),
           job.cmd \in Uninstalls
    PROVE  /\ step \in UninstallSteps
           /\ Past(2)' => Past(2) \/ step = "unprofile"
           /\ Past(3)' => Past(3) \/ step = "unregSystem"
           /\ Past(4)' => Past(4) \/ step = "remove"
           /\ step = "unregSystem" => Past(2)
           /\ job'.at = 4 => step = "unregSystem"
           /\ step = "remove" => job.at = 4
  <1> DEFINE n == Len(Program[job.cmd])
  <1>1. ~Idle /\ step = Program[job.cmd][job.at] /\ job.at \in 0..8 /\ job.at <= n
    BY DEF Running, Jobs, PlaceInv
  <1>2. n \in 1..8 /\ n >= 4
    BY ProgramLengths, UninstallPrefix DEF Jobs
  <1>3. job.at \in 1..n
    BY <1>1, <1>2 DEF Idle
  <1>4. /\ job'.at = 0 \/ job'.at = job.at + 1
        /\ job'.at = 0 => job.at = n
    BY <1>1, AdvanceType, UninstallPrefix DEF n
  <1>5. /\ job.at = 1 => step = "stop"
        /\ job.at = 2 => step = "unprofile"
        /\ job.at = 3 => step = "unregSystem"
        /\ job.at = 4 => step = "remove"
    BY <1>1, UninstallPrefix
  <1>6. job.at > 4 => step \in {"keys", "data", "dir", "verify"}
    <2> SUFFICES ASSUME job.at > 4 PROVE step \in {"keys", "data", "dir", "verify"}
      OBVIOUS
    <2>1. job.at \in 5..n
      BY <1>2, <1>3
    <2> QED BY <1>1, <2>1, UninstallPrefix DEF n
  <1> HIDE DEF n
  <1>7. job.at \in {1, 2, 3, 4} \/ job.at > 4
    BY <1>2, <1>3
  <1>8. step \in UninstallSteps
    BY <1>5, <1>6, <1>7 DEF UninstallSteps
  <1>9. /\ step = "unregSystem" => job.at = 3
        /\ step = "remove" => job.at = 4
        /\ step = "unprofile" => job.at = 2
    BY <1>5, <1>6, <1>7
  <1>10. job.at \in Nat
    BY <1>2, <1>3
  <1>11. /\ Past(2)' => Past(2) \/ job.at = 2
         /\ Past(3)' => Past(3) \/ job.at = 3
         /\ Past(4)' => Past(4) \/ job.at = 4
         /\ job.at = 3 => Past(2)
         /\ job'.at = 4 => job.at = 3
    BY <1>2, <1>4, <1>10 DEF Past
  <1> QED BY <1>5, <1>8, <1>9, <1>11

(* What an uninstallation nobody disturbed has achieved so far. *)
Unregistered == (clsid = "none" /\ ~tip) \/ "kept" \in dangling

CleanInv ==
    job.cmd \in Uninstalls /\ ~job.failed /\ job.alone
        => /\ Past(2) => job.admin /\ ~profile
           /\ Past(3) => Unregistered
           /\ Past(4) => ~sysDll

(* A step that touches no registration cannot spoil it, nor can one that no
   uninstallation has. *)
LEMMA CleanFrame ==
    ASSUME TypeInv, CleanInv, NEW step, Running(step),
           NEW ok \in BOOLEAN, NEW loads \in SUBSET Dlls, Advance(ok, loads),
           \/ step \notin UninstallSteps
           \/ /\ step \notin {"unprofile", "unregSystem", "remove"}
              /\ UNCHANGED <<sysDll, clsid, tip, profile, dangling>>
    PROVE  CleanInv'
  <1> SUFFICES ASSUME job'.cmd \in Uninstalls, ~job'.failed, job'.alone
               PROVE  /\ Past(2)' => job'.admin /\ ~profile'
                      /\ Past(3)' => Unregistered'
                      /\ Past(4)' => ~sysDll'
    BY DEF CleanInv
  <1>1. job \in Jobs /\ PlaceInv /\ ~Idle
    BY DEF TypeInv, Running
  <1>2. job.cmd \in Uninstalls /\ ~job.failed /\ job.alone /\ job'.admin = job.admin
    BY <1>1, AdvanceType
  <1>3. /\ step \in UninstallSteps
        /\ Past(2)' => Past(2) \/ step = "unprofile"
        /\ Past(3)' => Past(3) \/ step = "unregSystem"
        /\ Past(4)' => Past(4) \/ step = "remove"
    BY <1>1, <1>2, UninstallPlace
  <1>4. (Past(2)' => Past(2)) /\ (Past(3)' => Past(3)) /\ (Past(4)' => Past(4))
    BY <1>3
  <1>5. UNCHANGED <<sysDll, clsid, tip, profile, dangling>>
    BY <1>3
  <1> QED BY <1>2, <1>4, <1>5 DEF CleanInv, Unregistered

LEMMA StepClean == TypeInv /\ CleanInv /\ Step => CleanInv'
  <1> SUFFICES ASSUME TypeInv, CleanInv, Step PROVE CleanInv'
    OBVIOUS
  <1>0. /\ job \in Jobs /\ PlaceInv
        /\ sysDll \in BOOLEAN /\ dir \in BOOLEAN /\ data \in BOOLEAN
    BY DEF TypeInv, DiskType
  <1>1. CASE Copy
    <2>1. \E ok \in BOOLEAN, loads \in SUBSET Dlls : Running("copy") /\ Advance(ok, loads)
      BY <1>0, <1>1 DEF Copy
    <2>2. "copy" \notin UninstallSteps
      BY <1>1 DEF Copy, UninstallSteps, diskVars, regVars
    <2> QED BY <2>1, <2>2, CleanFrame
  <1>2. CASE RegisterDll("regSystem", "system")
    <2>1. \E ok \in BOOLEAN, loads \in SUBSET Dlls : Running("regSystem") /\ Advance(ok, loads)
      BY <1>0, <1>2 DEF RegisterDll, Dlls
    <2>2. "regSystem" \notin UninstallSteps
      BY <1>2 DEF RegisterDll, Dlls, UninstallSteps, diskVars, regVars
    <2> QED BY <2>1, <2>2, CleanFrame
  <1>3. CASE RegisterDll("regExe", "exe")
    <2>1. \E ok \in BOOLEAN, loads \in SUBSET Dlls : Running("regExe") /\ Advance(ok, loads)
      BY <1>0, <1>3 DEF RegisterDll, Dlls
    <2>2. "regExe" \notin UninstallSteps
      BY <1>3 DEF RegisterDll, Dlls, UninstallSteps, diskVars, regVars
    <2> QED BY <2>1, <2>2, CleanFrame
  <1>4. CASE RegisterProfile
    <2>1. \E ok \in BOOLEAN, loads \in SUBSET Dlls : Running("profile") /\ Advance(ok, loads)
      BY <1>0, <1>4 DEF RegisterProfile
    <2>2. "profile" \notin UninstallSteps
      BY <1>4 DEF RegisterProfile, UninstallSteps, diskVars, regVars
    <2> QED BY <2>1, <2>2, CleanFrame
  <1>5. CASE SetLayout("enable", TRUE)
    <2>1. \E ok \in BOOLEAN, loads \in SUBSET Dlls : Running("enable") /\ Advance(ok, loads)
      BY <1>0, <1>5 DEF SetLayout
    <2>2. "enable" \notin UninstallSteps
      BY <1>5 DEF SetLayout, UninstallSteps, diskVars, regVars
    <2> QED BY <2>1, <2>2, CleanFrame
  <1>6. CASE SetLayout("disable", FALSE)
    <2>1. \E ok \in BOOLEAN, loads \in SUBSET Dlls : Running("disable") /\ Advance(ok, loads)
      BY <1>0, <1>6 DEF SetLayout
    <2>2. "disable" \notin UninstallSteps
      BY <1>6 DEF SetLayout, UninstallSteps, diskVars, regVars
    <2> QED BY <2>1, <2>2, CleanFrame
  <1>7. CASE Stop
    <2>1. \E ok \in BOOLEAN, loads \in SUBSET Dlls : Running("stop") /\ Advance(ok, loads)
      BY <1>0, <1>7 DEF Stop
    <2>2. "stop" \notin {"unprofile", "unregSystem", "remove"}
          /\ UNCHANGED <<sysDll, clsid, tip, profile, dangling>>
      BY <1>7 DEF Stop, UninstallSteps, diskVars, regVars
    <2> QED BY <2>1, <2>2, CleanFrame
  <1>8. CASE UnregisterProfile
    <2>1. Running("unprofile") /\ UNCHANGED <<clsid, sysDll, dangling>>
      BY <1>8 DEF UnregisterProfile, diskVars
    <2>2. PICK ok \in BOOLEAN, loads \in SUBSET Dlls :
                /\ Advance(ok, loads)
                /\ ok => job.admin /\ profile' = FALSE /\ tip' \in {FALSE, tip}
      BY <1>8 DEF UnregisterProfile
    <2> SUFFICES ASSUME job'.cmd \in Uninstalls, ~job'.failed, job'.alone
                 PROVE  /\ Past(2)' => job'.admin /\ ~profile'
                        /\ Past(3)' => Unregistered'
                        /\ Past(4)' => ~sysDll'
      BY DEF CleanInv
    <2>3. /\ job.cmd \in Uninstalls /\ ~job.failed /\ job.alone /\ job'.admin = job.admin
          /\ ok
      <3>1. /\ job'.cmd = job.cmd /\ job'.admin = job.admin /\ job'.alone = job.alone
            /\ ~job'.failed => ~job.failed /\ ok
        BY <1>0, <2>1, <2>2, AdvanceType DEF Running
      <3> QED BY <3>1
    <2>4. (Past(3)' => Past(3)) /\ (Past(4)' => Past(4))
      <3>1. /\ Past(3)' => Past(3) \/ "unprofile" = "unregSystem"
            /\ Past(4)' => Past(4) \/ "unprofile" = "remove"
        BY <1>0, <2>1, <2>2, <2>3, UninstallPlace
      <3> QED BY <3>1
    <2>5. Past(3) => Unregistered
      BY <2>3 DEF CleanInv
    <2>6. job.admin /\ profile' = FALSE /\ (~tip => ~tip')
      <3>1. job.admin /\ profile' = FALSE /\ (tip' = FALSE \/ tip' = tip)
        BY <2>2, <2>3
      <3>2. CASE tip' = FALSE
        BY <3>1, <3>2
      <3>3. CASE tip' = tip
        BY <3>1, <3>3
      <3> QED BY <3>1, <3>2, <3>3
    <2>7. Past(4) => ~sysDll
      BY <2>3 DEF CleanInv
    <2>8. Unregistered => Unregistered'
      BY <2>1, <2>6 DEF Unregistered
    <2> QED BY <2>1, <2>3, <2>4, <2>5, <2>6, <2>7, <2>8
  <1>9. CASE UnregisterDll("unregSystem", "system")
    <2>1. /\ Running("unregSystem") /\ UNCHANGED <<profile, sysDll>>
          /\ Kept
      BY <1>9 DEF UnregisterDll, DoUnregister, diskVars
    <2>2. PICK ok \in BOOLEAN, loads \in SUBSET Dlls : Advance(ok, loads)
      BY <1>9 DEF UnregisterDll, Dlls
    <2>5. Unregistered'
      BY <2>1 DEF Kept, Unregistered
    <2> SUFFICES ASSUME job'.cmd \in Uninstalls, ~job'.failed, job'.alone
                 PROVE  /\ Past(2)' => job'.admin /\ ~profile'
                        /\ Past(3)' => Unregistered'
                        /\ Past(4)' => ~sysDll'
      BY DEF CleanInv
    <2>3. /\ job.cmd \in Uninstalls /\ ~job.failed /\ job.alone /\ job'.admin = job.admin
          /\ ok
      <3>1. /\ job'.cmd = job.cmd /\ job'.admin = job.admin /\ job'.alone = job.alone
            /\ ~job'.failed => ~job.failed /\ ok
        BY <1>0, <2>1, <2>2, AdvanceType DEF Running
      <3> QED BY <3>1
    <2>4. Past(2) /\ (Past(4)' => Past(4))
      <3>1. /\ "unregSystem" = "unregSystem" => Past(2)
            /\ Past(4)' => Past(4) \/ "unregSystem" = "remove"
        BY <1>0, <2>1, <2>2, <2>3, UninstallPlace
      <3> QED BY <3>1
    <2> QED BY <2>1, <2>3, <2>4, <2>5 DEF CleanInv
  <1>10. CASE UnregisterDll("unregExe", "exe")
    <2>1. \E ok \in BOOLEAN, loads \in SUBSET Dlls : Running("unregExe") /\ Advance(ok, loads)
      BY <1>0, <1>10 DEF UnregisterDll, Exists, Dlls
    <2>2. "unregExe" \notin UninstallSteps
      BY <1>10 DEF UnregisterDll, Exists, Dlls, UninstallSteps, diskVars, regVars
    <2> QED BY <2>1, <2>2, CleanFrame
  <1>11. CASE Remove
    <2>1. Running("remove") /\ UNCHANGED <<clsid, tip, profile>> /\ dangling \subseteq dangling'
      BY <1>11 DEF Remove, regVars
    <2>2. PICK ok \in BOOLEAN, loads \in SUBSET Dlls : Advance(ok, loads) /\ (ok => ~sysDll')
      BY <1>0, <1>11 DEF Remove
    <2> SUFFICES ASSUME job'.cmd \in Uninstalls, ~job'.failed, job'.alone
                 PROVE  /\ Past(2)' => job'.admin /\ ~profile'
                        /\ Past(3)' => Unregistered'
                        /\ Past(4)' => ~sysDll'
      BY DEF CleanInv
    <2>3. /\ job.cmd \in Uninstalls /\ ~job.failed /\ job.alone /\ job'.admin = job.admin
          /\ ok
      <3>1. /\ job'.cmd = job.cmd /\ job'.admin = job.admin /\ job'.alone = job.alone
            /\ ~job'.failed => ~job.failed /\ ok
        BY <1>0, <2>1, <2>2, AdvanceType DEF Running
      <3> QED BY <3>1
    <2>4. (Past(2)' => Past(2)) /\ (Past(3)' => Past(3))
      <3>1. /\ Past(2)' => Past(2) \/ "remove" = "unprofile"
            /\ Past(3)' => Past(3) \/ "remove" = "unregSystem"
        BY <1>0, <2>1, <2>2, <2>3, UninstallPlace
      <3> QED BY <3>1
    <2>5. Unregistered => Unregistered'
      BY <2>1 DEF Unregistered
    <2> QED BY <2>1, <2>2, <2>3, <2>4, <2>5 DEF CleanInv
  <1>12. CASE RemoveKeys
    <2>1. \E ok \in BOOLEAN, loads \in SUBSET Dlls : Running("keys") /\ Advance(ok, loads)
      BY <1>0, <1>12 DEF RemoveKeys
    <2>2. "keys" \notin {"unprofile", "unregSystem", "remove"}
          /\ UNCHANGED <<sysDll, clsid, tip, profile, dangling>>
      BY <1>12 DEF RemoveKeys, UninstallSteps, diskVars, regVars
    <2> QED BY <2>1, <2>2, CleanFrame
  <1>13. CASE RemoveData
    <2>1. \E ok \in BOOLEAN, loads \in SUBSET Dlls : Running("data") /\ Advance(ok, loads)
      BY <1>0, <1>13 DEF RemoveData
    <2>2. "data" \notin {"unprofile", "unregSystem", "remove"}
          /\ UNCHANGED <<sysDll, clsid, tip, profile, dangling>>
      BY <1>13 DEF RemoveData, UninstallSteps, diskVars, regVars
    <2> QED BY <2>1, <2>2, CleanFrame
  <1>14. CASE ScheduleDir
    <2>1. \E ok \in BOOLEAN, loads \in SUBSET Dlls : Running("dir") /\ Advance(ok, loads)
      BY <1>0, <1>14 DEF ScheduleDir
    <2>2. "dir" \notin {"unprofile", "unregSystem", "remove"}
          /\ UNCHANGED <<sysDll, clsid, tip, profile, dangling>>
      BY <1>14 DEF ScheduleDir, UninstallSteps, diskVars, regVars
    <2> QED BY <2>1, <2>2, CleanFrame
  <1>15. CASE Verify
    <2>1. \E ok \in BOOLEAN, loads \in SUBSET Dlls : Running("verify") /\ Advance(ok, loads)
      BY <1>0, <1>15 DEF Verify
    <2>2. "verify" \notin {"unprofile", "unregSystem", "remove"}
          /\ UNCHANGED <<sysDll, clsid, tip, profile, dangling>>
      BY <1>15 DEF Verify, UninstallSteps, diskVars, regVars
    <2> QED BY <2>1, <2>2, CleanFrame
  <1> QED
    BY <1>1, <1>2, <1>3, <1>4, <1>5, <1>6, <1>7, <1>8, <1>9, <1>10, <1>11, <1>12, <1>13, <1>14, <1>15 DEF Step

LEMMA NextClean == TypeInv /\ CleanInv /\ [Next]_vars => CleanInv'
  <1> SUFFICES ASSUME TypeInv, CleanInv, [Next]_vars PROVE CleanInv'
    OBVIOUS
  <1>1. CASE Step
    BY <1>1, StepClean
  <1>2. ASSUME NEW c \in Commands, NEW admin \in BOOLEAN, Start(c, admin) PROVE CleanInv'
    <2>1. job'.at = 1
      BY <1>2 DEF Start
    <2>2. ~Past(2)' /\ ~Past(3)' /\ ~Past(4)'
      BY <2>1 DEF Past
    <2> QED BY <2>2 DEF CleanInv
  <1>3. ASSUME UNCHANGED <<job, sysDll, clsid, tip, profile>>,
               "kept" \in dangling => "kept" \in dangling'
        PROVE  CleanInv'
    BY <1>3 DEF CleanInv, Past, Unregistered
  <1>4. ASSUME Disturb PROVE CleanInv'
    <2>1. ~job'.alone
      BY <1>4 DEF Disturb, TypeInv, Jobs
    <2> QED BY <2>1 DEF CleanInv
  <1>5. CASE RemoveDir \/ Unpack \/ ServerStart \/ ServerUp \/ ServerExit
    <2>1. UNCHANGED <<job, sysDll, clsid, tip, profile>>
      BY <1>5 DEF RemoveDir, Unpack, ServerStart, ServerUp, ServerExit, regVars, diskVars
    <2>2. "kept" \in dangling => "kept" \in dangling'
      BY <1>5 DEF RemoveDir, Unpack, ServerStart, ServerUp, ServerExit
    <2> QED BY <1>3, <2>1, <2>2
  <1>6. CASE ServerRegisterDll \/ ServerRegisterProfile \/ ServerEnable
    BY <1>4, <1>6 DEF ServerRegisterDll, ServerRegisterProfile, ServerEnable
  <1>7. ASSUME NEW a \in Apps, AppStep(a) PROVE CleanInv'
    BY <1>3, <1>7 DEF AppStep, Load, CreateInstance, CanUnloadNow, AppExit, regVars, diskVars
  <1>8. CASE UNCHANGED vars
    BY <1>3, <1>8 DEF vars, regVars, diskVars
  <1> QED
    BY <1>1, <1>2, <1>5, <1>6, <1>7, <1>8 DEF Next, ServerStep

(* An uninstallation that reports no failure, none of whose deletions of registry keys
   failed in silence and that no server disturbed leaves neither DLL nor profile nor COM
   registration, whatever was registered before, at whatever step failed attempts before
   it ended, whether or not the server had ended, and whoever holds the DLL. *)
THEOREM UninstallIsClean == Spec => []CleanUninstall
  <1>1. Init => CleanInv
    <2>1. ASSUME Init PROVE job.cmd \notin Uninstalls
      BY <2>1 DEF Init, Uninstalls
    <2> QED BY <2>1 DEF CleanInv
  <1>2. Spec => [](TypeInv /\ CleanInv)
    BY <1>1, InitType, NextType, NextClean, PTL DEF Spec
  <1>3. CleanInv => CleanUninstall
    BY DEF CleanInv, CleanUninstall, Idle, Past, Unregistered
  <1> QED BY <1>2, <1>3, PTL

-----------------------------------------------------------------------------
(* The CLSID key names a DLL that is there. *)

SystemGone == clsid = "system" /\ ~sysDll => dangling \cap {"copy", "removed alone", "kept"} # {}
DirGone == clsid = "exe" /\ ~dir => "directory" \in dangling

(* An uninstallation about to remove the DLL has taken it out of the registry, or has
   failed to. *)
UnregisteredFirst ==
    job.cmd \in Uninstalls /\ job.at = 4 /\ job.admin /\ sysDll
        => clsid # "system" \/ "kept" \in dangling

ExistsInv == SystemGone /\ DirGone /\ UnregisteredFirst /\ (server # "off" => dir)

(* Only -remove-from-system removes the DLL without trying to unregister it. *)
LEMMA RemoveUnregistered ==
    ASSUME TypeInv, ExistsInv, Remove, sysDll, ~sysDll', job.cmd # "removeFromSystem"
    PROVE  clsid # "system" \/ "kept" \in dangling
  <1>1. /\ Running("remove") /\ job \in Jobs /\ PlaceInv
        /\ \E ok \in BOOLEAN, loads \in SUBSET Dlls : Advance(ok, loads)
        /\ job.admin
    <2>1. sysDll \in BOOLEAN
      BY DEF TypeInv, DiskType
    <2> QED BY <2>1 DEF Remove, TypeInv
  <1>2. job.cmd \in Uninstalls
    <2>1. job.at \in 1..Len(Program[job.cmd]) /\ job.cmd \in DOMAIN Program
      <3>1. Len(Program[job.cmd]) \in 1..8
        BY <1>1, ProgramLengths DEF Jobs
      <3> QED BY <1>1, <3>1 DEF Running, Idle, Jobs, PlaceInv
    <2> QED BY <1>1, <2>1, WhoRemoves DEF Running
  <1>3. job.at = 4
    BY <1>1, <1>2, UninstallPlace
  <1> QED BY <1>1, <1>2, <1>3 DEF ExistsInv, UnregisteredFirst

(* UnregisteredFirst is in no danger from a step that does not unregister. *)
LEMMA AdvanceUnregistered ==
    ASSUME TypeInv, NEW step, Running(step), step # "unregSystem",
           NEW ok \in BOOLEAN, NEW loads \in SUBSET Dlls, Advance(ok, loads)
    PROVE  UnregisteredFirst'
  <1>1. job \in Jobs /\ PlaceInv /\ ~Idle
    BY DEF TypeInv, Running
  <1> SUFFICES ASSUME job'.cmd \in Uninstalls, job'.at = 4 PROVE FALSE
    BY DEF UnregisteredFirst
  <1>2. job.cmd \in Uninstalls
    BY <1>1, AdvanceType
  <1> QED BY <1>1, <1>2, UninstallPlace

(* Neither is anything else in danger from a step that leaves the DLLs and the CLSID
   key alone. *)
LEMMA ExistsFrame ==
    ASSUME ExistsInv, UNCHANGED <<sysDll, dir, clsid, dangling>>,
           server' # "off" => server # "off", UnregisteredFirst'
    PROVE  ExistsInv'
  BY DEF ExistsInv, SystemGone, DirGone

(* An unregistration, failed or not, leaves an excuse or no CLSID key. *)
Unregistration == clsid' \in {clsid, "none"} /\ Kept

LEMMA UnregistrationExists ==
    ASSUME ExistsInv, UNCHANGED <<sysDll, dir>>, Unregistration
    PROVE  UnregisteredFirst' /\ SystemGone' /\ DirGone'
  <1>1. clsid' = "none" \/ (clsid' = clsid /\ dangling' = dangling \cup {"kept"})
    BY DEF Unregistration, Kept
  <1>2. CASE clsid' = "none"
    BY <1>2 DEF UnregisteredFirst, SystemGone, DirGone
  <1>3. CASE clsid' = clsid /\ dangling' = dangling \cup {"kept"}
    <2>1. "kept" \in dangling' /\ ("directory" \in dangling => "directory" \in dangling')
      BY <1>3
    <2> QED BY <1>3, <2>1 DEF ExistsInv, UnregisteredFirst, SystemGone, DirGone
  <1> QED BY <1>1, <1>2, <1>3

LEMMA StepExists == TypeInv /\ ExistsInv /\ Step => ExistsInv'
  <1> SUFFICES ASSUME TypeInv, ExistsInv, Step PROVE ExistsInv'
    OBVIOUS
  <1>0. /\ job \in Jobs /\ PlaceInv
        /\ sysDll \in BOOLEAN /\ dir \in BOOLEAN /\ data \in BOOLEAN
    BY DEF TypeInv, DiskType
  <1>1. CASE Copy
    <2>1. PICK removed \in BOOLEAN, copied \in BOOLEAN :
            /\ sysDll' = (copied \/ (sysDll /\ ~removed))
            /\ dangling' = IF copied THEN dangling \ {"copy", "removed alone"}
                           ELSE IF removed THEN dangling \cup {"copy"} ELSE dangling
      BY <1>1 DEF Copy
    <2>2. /\ UNCHANGED <<dir, clsid, server>> /\ Running("copy")
          /\ \E ok \in BOOLEAN, loads \in SUBSET Dlls : Advance(ok, loads)
      BY <1>0, <1>1 DEF Copy, regVars, srvVars
    <2>3. UnregisteredFirst'
      BY <2>2, AdvanceUnregistered
    <2>4. SystemGone'
      <3>1. CASE copied
        BY <2>1, <3>1 DEF SystemGone
      <3>2. CASE ~copied /\ removed
        <4>1. "copy" \in dangling'
          BY <2>1, <3>2
        <4> QED BY <4>1 DEF SystemGone
      <3>3. CASE ~copied /\ ~removed
        <4>1. dangling' = dangling /\ (sysDll => sysDll')
          BY <2>1, <3>3
        <4> QED BY <2>2, <4>1 DEF ExistsInv, SystemGone
      <3> QED BY <3>1, <3>2, <3>3
    <2>5. DirGone'
      <3>1. "directory" \in dangling => "directory" \in dangling'
        BY <2>1
      <3> QED BY <2>2, <3>1 DEF ExistsInv, DirGone
    <2> QED BY <2>2, <2>3, <2>4, <2>5 DEF ExistsInv
  <1>2. ASSUME NEW d \in Dlls, NEW step, step # "unregSystem", RegisterDll(step, d)
        PROVE  ExistsInv'
    <2>1. /\ UNCHANGED <<sysDll, dir, server>> /\ Running(step)
          /\ \E ok \in BOOLEAN, loads \in SUBSET Dlls : Advance(ok, loads)
      BY <1>2 DEF RegisterDll, diskVars, srvVars
    <2>2. UnregisteredFirst'
      BY <1>2, <2>1, AdvanceUnregistered
    <2>3. CASE Exists(d) /\ DoRegister(d)
      <3>1. clsid' = d
        BY <2>3 DEF DoRegister
      <3>2. (d = "system" => sysDll) /\ (d # "system" => dir)
        BY <2>3 DEF Exists
      <3> QED BY <2>1, <2>2, <3>1, <3>2 DEF ExistsInv, SystemGone, DirGone
    <2>4. CASE UNCHANGED <<clsid, dangling>>
      BY <2>1, <2>2, <2>4, ExistsFrame
    <2> QED BY <1>2, <2>3, <2>4 DEF RegisterDll
  <1>3. ASSUME NEW step, step # "unregSystem", Running(step),
               UNCHANGED <<sysDll, dir, clsid, dangling>>, server' # "off" => server # "off",
               NEW ok \in BOOLEAN, NEW loads \in SUBSET Dlls, Advance(ok, loads)
        PROVE  ExistsInv'
    BY <1>3, AdvanceUnregistered, ExistsFrame
  <1>4. CASE RegisterProfile
    <2>1. /\ Running("profile") /\ UNCHANGED <<sysDll, dir, clsid, dangling>>
          /\ server' # "off" => server # "off"
      BY <1>4 DEF RegisterProfile, diskVars, regVars, srvVars
    <2>2. \E ok \in BOOLEAN, loads \in SUBSET Dlls : Advance(ok, loads)
      BY <1>0, <1>4 DEF RegisterProfile
    <2> QED BY <1>3, <2>1, <2>2
  <1>5. CASE SetLayout("enable", TRUE)
    <2>1. /\ Running("enable") /\ UNCHANGED <<sysDll, dir, clsid, dangling>>
          /\ server' # "off" => server # "off"
      BY <1>5 DEF SetLayout, diskVars, regVars, srvVars
    <2>2. \E ok \in BOOLEAN, loads \in SUBSET Dlls : Advance(ok, loads)
      BY <1>0, <1>5 DEF SetLayout
    <2> QED BY <1>3, <2>1, <2>2
  <1>6. CASE SetLayout("disable", FALSE)
    <2>1. /\ Running("disable") /\ UNCHANGED <<sysDll, dir, clsid, dangling>>
          /\ server' # "off" => server # "off"
      BY <1>6 DEF SetLayout, diskVars, regVars, srvVars
    <2>2. \E ok \in BOOLEAN, loads \in SUBSET Dlls : Advance(ok, loads)
      BY <1>0, <1>6 DEF SetLayout
    <2> QED BY <1>3, <2>1, <2>2
  <1>7. CASE Stop
    <2>1. /\ Running("stop") /\ UNCHANGED <<sysDll, dir, clsid, dangling>>
          /\ server' # "off" => server # "off"
      BY <1>7 DEF Stop, diskVars, regVars, srvVars
    <2>2. \E ok \in BOOLEAN, loads \in SUBSET Dlls : Advance(ok, loads)
      BY <1>0, <1>7 DEF Stop
    <2> QED BY <1>3, <2>1, <2>2
  <1>8. CASE UnregisterProfile
    <2>1. /\ Running("unprofile") /\ UNCHANGED <<sysDll, dir, clsid, dangling>>
          /\ server' # "off" => server # "off"
      BY <1>8 DEF UnregisterProfile, diskVars, regVars, srvVars
    <2>2. \E ok \in BOOLEAN, loads \in SUBSET Dlls : Advance(ok, loads)
      BY <1>0, <1>8 DEF UnregisterProfile
    <2> QED BY <1>3, <2>1, <2>2
  <1>9. CASE RemoveKeys
    <2>1. /\ Running("keys") /\ UNCHANGED <<sysDll, dir, clsid, dangling>>
          /\ server' # "off" => server # "off"
      BY <1>9 DEF RemoveKeys, diskVars, regVars, srvVars
    <2>2. \E ok \in BOOLEAN, loads \in SUBSET Dlls : Advance(ok, loads)
      BY <1>0, <1>9 DEF RemoveKeys
    <2> QED BY <1>3, <2>1, <2>2
  <1>10. CASE RemoveData
    <2>1. /\ Running("data") /\ UNCHANGED <<sysDll, dir, clsid, dangling>>
          /\ server' # "off" => server # "off"
      BY <1>10 DEF RemoveData, diskVars, regVars, srvVars
    <2>2. \E ok \in BOOLEAN, loads \in SUBSET Dlls : Advance(ok, loads)
      BY <1>0, <1>10 DEF RemoveData
    <2> QED BY <1>3, <2>1, <2>2
  <1>11. CASE ScheduleDir
    <2>1. /\ Running("dir") /\ UNCHANGED <<sysDll, dir, clsid, dangling>>
          /\ server' # "off" => server # "off"
      BY <1>11 DEF ScheduleDir, diskVars, regVars, srvVars
    <2>2. \E ok \in BOOLEAN, loads \in SUBSET Dlls : Advance(ok, loads)
      BY <1>0, <1>11 DEF ScheduleDir
    <2> QED BY <1>3, <2>1, <2>2
  <1>12. CASE Verify
    <2>1. /\ Running("verify") /\ UNCHANGED <<sysDll, dir, clsid, dangling>>
          /\ server' # "off" => server # "off"
      BY <1>12 DEF Verify, diskVars, regVars, srvVars
    <2>2. \E ok \in BOOLEAN, loads \in SUBSET Dlls : Advance(ok, loads)
      BY <1>0, <1>12 DEF Verify
    <2> QED BY <1>3, <2>1, <2>2
  <1>13. CASE UnregisterDll("unregSystem", "system")
    <2>1. UNCHANGED <<sysDll, dir, server>> /\ Unregistration
      BY <1>13 DEF UnregisterDll, DoUnregister, Unregistration, diskVars, srvVars
    <2>2. UnregisteredFirst' /\ SystemGone' /\ DirGone'
      BY <2>1, UnregistrationExists
    <2> QED BY <2>1, <2>2 DEF ExistsInv
  <1>14. CASE UnregisterDll("unregExe", "exe")
    <2>1. UNCHANGED <<sysDll, dir, server>> /\ Unregistration
      BY <1>14 DEF UnregisterDll, DoUnregister, Unregistration, diskVars, srvVars
    <2>2. UnregisteredFirst' /\ SystemGone' /\ DirGone'
      BY <2>1, UnregistrationExists
    <2> QED BY <2>1, <2>2 DEF ExistsInv
  <1>15. CASE Remove
    <2>1. PICK removed \in BOOLEAN :
            /\ sysDll' = (sysDll /\ ~removed)
            /\ dangling' = IF removed /\ sysDll /\ job.cmd = "removeFromSystem"
                           THEN dangling \cup {"removed alone"} ELSE dangling
      BY <1>15 DEF Remove
    <2>2. /\ UNCHANGED <<dir, clsid, server>> /\ Running("remove")
          /\ \E ok \in BOOLEAN, loads \in SUBSET Dlls : Advance(ok, loads)
      BY <1>0, <1>15 DEF Remove, regVars, srvVars
    <2>3. UnregisteredFirst'
      BY <2>2, AdvanceUnregistered
    <2>4. dangling \subseteq dangling'
      BY <2>1
    <2>5. SystemGone'
      <3>1. CASE ~sysDll
        BY <2>2, <2>4, <3>1 DEF ExistsInv, SystemGone
      <3>2. CASE sysDll'
        BY <3>2 DEF SystemGone
      <3>3. CASE sysDll /\ ~sysDll' /\ job.cmd = "removeFromSystem"
        <4>1. "removed alone" \in dangling'
          BY <2>1, <3>3
        <4> QED BY <4>1 DEF SystemGone
      <3>4. CASE sysDll /\ ~sysDll' /\ job.cmd # "removeFromSystem"
        <4>1. clsid # "system" \/ "kept" \in dangling
          BY <1>15, <3>4, RemoveUnregistered
        <4> QED BY <2>2, <2>4, <4>1 DEF SystemGone
      <3> QED BY <3>1, <3>2, <3>3, <3>4
    <2>6. DirGone'
      BY <2>2, <2>4 DEF ExistsInv, DirGone
    <2> QED BY <2>2, <2>3, <2>5, <2>6 DEF ExistsInv
  <1> QED
    BY <1>1, <1>2, <1>3, <1>4, <1>5, <1>6, <1>7, <1>8, <1>9, <1>10, <1>11, <1>12, <1>13, <1>14, <1>15 DEF Step, Dlls

LEMMA NextExists == TypeInv /\ ExistsInv /\ [Next]_vars => ExistsInv'
  <1> SUFFICES ASSUME TypeInv, ExistsInv, [Next]_vars PROVE ExistsInv'
    OBVIOUS
  <1>1. CASE Step
    BY <1>1, StepExists
  <1>2. ASSUME UNCHANGED <<job, sysDll, dir, clsid, dangling>>, server' # "off" => dir
        PROVE  ExistsInv'
    BY <1>2 DEF ExistsInv, SystemGone, DirGone, UnregisteredFirst
  <1>3. ASSUME NEW c \in Commands, NEW admin \in BOOLEAN, Start(c, admin) PROVE ExistsInv'
    <2>1. job'.at = 1 /\ UNCHANGED <<sysDll, dir, clsid, dangling, server>>
      BY <1>3 DEF Start, diskVars, regVars, srvVars
    <2>2. UnregisteredFirst'
      BY <2>1 DEF UnregisteredFirst
    <2> QED BY <2>1, <2>2, ExistsFrame
  <1>4. CASE RemoveDir
    <2>1. /\ UNCHANGED <<sysDll, clsid, job, server>> /\ server = "off"
          /\ dangling' = IF clsid = "exe" THEN dangling \cup {"directory"} ELSE dangling
      BY <1>4 DEF RemoveDir, regVars, srvVars
    <2>2. SystemGone' /\ DirGone' /\ UnregisteredFirst'
      BY <2>1 DEF ExistsInv, SystemGone, DirGone, UnregisteredFirst
    <2> QED BY <2>1, <2>2 DEF ExistsInv
  <1>5. CASE Unpack
    <2>1. /\ UNCHANGED <<sysDll, clsid, job>> /\ dir'
          /\ dangling' = dangling \ {"directory"}
      BY <1>5 DEF Unpack, regVars
    <2>2. SystemGone' /\ DirGone' /\ UnregisteredFirst'
      BY <2>1 DEF ExistsInv, SystemGone, DirGone, UnregisteredFirst
    <2> QED BY <2>1, <2>2 DEF ExistsInv
  <1>6. CASE ServerStart \/ ServerUp \/ ServerExit
    <2>1. /\ UNCHANGED <<job, sysDll, dir, clsid, dangling>>
          /\ dir \/ server # "off"
      BY <1>6 DEF ServerStart, ServerUp, ServerExit, regVars, diskVars
    <2> QED BY <1>2, <2>1 DEF ExistsInv
  <1>7. CASE ServerRegisterDll
    <2>1. /\ UNCHANGED <<sysDll, dir, server>> /\ server # "off" /\ Disturb
          /\ clsid' = "exe" \/ UNCHANGED <<clsid, dangling>>
      BY <1>7 DEF ServerRegisterDll, DoRegister, diskVars
    <2>2. CASE clsid' = "exe"
      BY <2>1, <2>2 DEF ExistsInv, SystemGone, DirGone, UnregisteredFirst
    <2>3. CASE UNCHANGED <<clsid, dangling>>
      <3>1. job'.cmd = job.cmd /\ job'.at = job.at /\ job'.admin = job.admin
        BY <2>1 DEF Disturb, TypeInv, Jobs
      <3>2. UnregisteredFirst'
        BY <2>1, <2>3, <3>1 DEF ExistsInv, UnregisteredFirst
      <3> QED BY <2>1, <2>3, <3>2, ExistsFrame
    <2> QED BY <2>1, <2>2, <2>3
  <1>8. CASE ServerRegisterProfile \/ ServerEnable
    <2>1. /\ UNCHANGED <<sysDll, dir, clsid, dangling, server>> /\ Disturb
      BY <1>8 DEF ServerRegisterProfile, ServerEnable, diskVars
    <2>2. job'.cmd = job.cmd /\ job'.at = job.at /\ job'.admin = job.admin
      BY <2>1 DEF Disturb, TypeInv, Jobs
    <2>3. UnregisteredFirst'
      BY <2>1, <2>2 DEF ExistsInv, UnregisteredFirst
    <2> QED BY <2>1, <2>3, ExistsFrame
  <1>9. ASSUME NEW a \in Apps, AppStep(a) PROVE ExistsInv'
    <2>1. UNCHANGED <<job, sysDll, dir, clsid, dangling, server>>
      BY <1>9 DEF AppStep, Load, CreateInstance, CanUnloadNow, AppExit, regVars, diskVars, srvVars
    <2> QED BY <1>2, <2>1 DEF ExistsInv
  <1>10. CASE UNCHANGED vars
    <2>1. UNCHANGED <<job, sysDll, dir, clsid, dangling, server>>
      BY <1>10 DEF vars, regVars, diskVars, srvVars
    <2> QED BY <1>2, <2>1 DEF ExistsInv
  <1> QED
    BY <1>1, <1>3, <1>4, <1>5, <1>6, <1>7, <1>8, <1>9, <1>10 DEF Next, ServerStep

(* The CLSID key names a DLL that is there, but for the mishaps the model names, in
   every interleaving of any commands, with any step failing, with servers starting and
   applications holding the DLL: an uninstallation tries to take the DLL of System32 out
   of the registry before it can remove it, and the directory goes only while no server
   runs. *)
THEOREM RegistrationIsSound == Spec => []RegisteredDllExists
  <1>1. Init => ExistsInv
    <2>1. ASSUME Init PROVE job.at = 0 /\ clsid = "none" /\ server = "off"
      BY <2>1 DEF Init
    <2> QED BY <2>1 DEF ExistsInv, SystemGone, DirGone, UnregisteredFirst
  <1>2. Spec => [](TypeInv /\ ExistsInv)
    BY <1>1, InitType, NextType, NextExists, PTL DEF Spec
  <1>3. TypeInv /\ ExistsInv => RegisteredDllExists
    BY DEF TypeInv, RegType, Dlls, ExistsInv, SystemGone, DirGone, RegisteredDllExists, Exists
  <1> QED BY <1>2, <1>3, PTL

=============================================================================
