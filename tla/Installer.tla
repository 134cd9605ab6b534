----------------------------- MODULE Installer ------------------------------
(***************************************************************************)
(* scripts/install-macos.sh: installing and uninstalling the daemon on one *)
(* host.  The script runs under set -e, one command after the other, and   *)
(* ends where a command fails or where it is killed; it may be run again   *)
(* at any time.  Between two runs the administrator writes or removes      *)
(* files of the same names, and the host reboots: launchd then loads every *)
(* LaunchDaemon it finds.  The prefix and the configuration directory are  *)
(* the default ones, which the LaunchDaemon names.                         *)
(***************************************************************************)
EXTENDS TLAPS

VARIABLES
    file,    \* file -> "absent", "admin" (not from Augur) or "augur"
    loaded,  \* launchd has the daemon
    dryRun,  \* DRY_RUN
    pc       \* the next command of the script, or "idle"

vars == <<file, loaded, dryRun, pc>>
-----------------------------------------------------------------------------
Files == {"binary", "plist", "dropin", "config"}
Program == {"binary", "plist", "dropin"}

(* The commands of an installation in their order: the downloads with the  *)
(* check of the plist, four times install, sshd -t, launchctl bootstrap.   *)
After == [fetch |-> "binary", binary |-> "plist", plist |-> "dropin",
          dropin |-> "config", config |-> "validate", validate |-> "load",
          load |-> "idle"]

Init ==
    /\ file \in [Files -> {"absent", "admin"}]
    /\ loaded = FALSE
    /\ dryRun = FALSE
    /\ pc = "idle"

(* The administrator and the host. *)
Edit(f, content) ==
    /\ pc = "idle"
    /\ file' = [file EXCEPT ![f] = content]
    /\ UNCHANGED <<loaded, dryRun, pc>>

Reboot ==
    /\ loaded' = (file["plist"] # "absent")
    /\ pc' = "idle"
    /\ UNCHANGED <<file, dryRun>>
-----------------------------------------------------------------------------
(* The script up to the downloads.  An existing LaunchDaemon ends it; of   *)
(* an existing configuration or drop-in it only says that it will be left. *)
Install(dry) ==
    /\ pc = "idle"
    /\ dryRun' = dry
    /\ pc' = IF file["plist"] = "absent" THEN "fetch" ELSE "idle"
    /\ UNCHANGED <<file, loaded>>

(* A command that leaves no trace on the host. *)
Pass ==
    /\ pc \in {"fetch", "validate"}
    /\ pc' = After[pc]
    /\ UNCHANGED <<file, loaded, dryRun>>

(* run install; only the configuration is installed if it is missing. *)
Put ==
    /\ pc \in Files
    /\ file' = IF dryRun \/ (pc = "config" /\ file["config"] # "absent") THEN file
               ELSE [file EXCEPT ![pc] = "augur"]
    /\ pc' = After[pc]
    /\ UNCHANGED <<loaded, dryRun>>

Load ==
    /\ pc = "load"
    /\ loaded' = (loaded \/ ~dryRun)
    /\ pc' = After[pc]
    /\ UNCHANGED <<file, dryRun>>

(* --uninstall.  A launchctl bootout that fails is ignored. *)
Uninstall(dry) ==
    /\ pc = "idle"
    /\ dryRun' = dry
    /\ loaded' \in IF dry THEN {loaded} ELSE {FALSE, loaded}
    /\ pc' = "remove"
    /\ UNCHANGED file

Remove ==
    /\ pc = "remove"
    /\ file' = IF dryRun THEN file
               ELSE [f \in Files |-> IF f \in Program THEN "absent" ELSE file[f]]
    /\ pc' = "idle"
    /\ UNCHANGED <<loaded, dryRun>>

(* A command fails, or the script is killed before it. *)
Fail ==
    /\ pc # "idle"
    /\ pc' = "idle"
    /\ UNCHANGED <<file, loaded, dryRun>>

Next ==
    \/ \E f \in Files, content \in {"absent", "admin"} : Edit(f, content)
    \/ Reboot
    \/ \E dry \in BOOLEAN : Install(dry) \/ Uninstall(dry)
    \/ Pass
    \/ Put
    \/ Load
    \/ Remove
    \/ Fail

Spec == Init /\ [][Next]_vars
-----------------------------------------------------------------------------
(* Type correctness. *)
TypeOK ==
    /\ file \in [Files -> {"absent", "admin", "augur"}]
    /\ loaded \in BOOLEAN
    /\ dryRun \in BOOLEAN
    /\ pc \in DOMAIN After \cup {"idle", "remove"}

Kept(f) == file[f] = "admin" => file'[f] # "augur"

(* install-macos.sh:18: "Existing configuration and SSH configuration are  *)
(* never overwritten."                                                     *)
NeverOverwritten == [][Kept("config") /\ Kept("dropin")]_vars

(* What does hold of it: neither an existing configuration nor an existing *)
(* LaunchDaemon is overwritten.  For the LaunchDaemon the check is four    *)
(* commands away from the write.                                           *)
ConfigAndDaemonKept == [][Kept("config") /\ Kept("plist")]_vars

(* What the commands before this one have left behind. *)
Done(f) == dryRun \/ file[f] = "augur"

(* The script knows where it is: the LaunchDaemon is absent until it is    *)
(* written, and each file is there once its command has run.               *)
Progress ==
    /\ pc \in {"fetch", "binary", "plist"} => file["plist"] = "absent"
    /\ pc \in {"plist", "dropin", "config", "validate", "load"} => Done("binary")
    /\ pc \in {"dropin", "config", "validate", "load"} => Done("plist")
    /\ pc \in {"config", "validate", "load"} => Done("dropin")
    /\ pc \in {"validate", "load"} => dryRun \/ file["config"] # "absent"

(* However often it failed and was run again, the script starts the daemon *)
(* only with Augur's own program, LaunchDaemon and SSH drop-in and with a  *)
(* configuration in place.                                                 *)
StartedComplete ==
    [][Load /\ ~dryRun => /\ \A f \in Program : file[f] = "augur"
                          /\ file["config"] # "absent"]_vars
-----------------------------------------------------------------------------
Inv == TypeOK /\ Progress

(* The script is where its files say it is: type correctness and Progress  *)
(* hold in every state, for any sequence of runs, failures, reboots and    *)
(* edits.                                                                  *)
THEOREM Invariance == Spec => []Inv
<1>1. Init => Inv
  BY DEF Init, Inv, TypeOK, Progress, Files
<1>2. Inv /\ [Next]_vars => Inv'
  <2> SUFFICES ASSUME Inv, [Next]_vars PROVE Inv'
    OBVIOUS
  <2> USE DEF Inv, TypeOK, Progress, Done, Files, Program, After
  <2>1. CASE \E f \in Files, content \in {"absent", "admin"} : Edit(f, content)
    BY <2>1 DEF Edit
  <2>2. CASE Reboot
    BY <2>2 DEF Reboot
  <2>3. CASE \E dry \in BOOLEAN : Install(dry)
    BY <2>3 DEF Install
  <2>4. CASE \E dry \in BOOLEAN : Uninstall(dry)
    BY <2>4 DEF Uninstall
  <2>5. CASE Pass
    BY <2>5 DEF Pass
  <2>6. CASE Put
    BY <2>6 DEF Put
  <2>7. CASE Load
    BY <2>7 DEF Load
  <2>8. CASE Remove
    BY <2>8 DEF Remove
  <2>9. CASE Fail
    BY <2>9 DEF Fail
  <2>10. CASE UNCHANGED vars
    BY <2>10 DEF vars
  <2> QED
    BY <2>1, <2>2, <2>3, <2>4, <2>5, <2>6, <2>7, <2>8, <2>9, <2>10 DEF Next
<1> QED
  BY <1>1, <1>2, PTL DEF Spec

(* Neither an existing configuration nor an existing LaunchDaemon is ever  *)
(* overwritten, whatever happened between the check of install-macos.sh:89 *)
(* and the write of line 111.                                              *)
THEOREM KeptTheorem == Spec => ConfigAndDaemonKept
<1>1. Inv /\ [Next]_vars => [Kept("config") /\ Kept("plist")]_vars
  <2> SUFFICES ASSUME Inv, Next PROVE Kept("config") /\ Kept("plist")
    BY DEF Kept, vars
  <2> USE DEF Inv, TypeOK, Progress, Kept, Files, Program
  <2>1. CASE \E f \in Files, content \in {"absent", "admin"} : Edit(f, content)
    BY <2>1 DEF Edit
  <2>2. CASE Put
    BY <2>2 DEF Put
  <2>3. CASE Remove
    BY <2>3 DEF Remove
  <2>4. CASE UNCHANGED file
    BY <2>4
  <2> QED
    BY <2>1, <2>2, <2>3, <2>4
    DEF Next, Reboot, Install, Uninstall, Pass, Load, Fail
<1> QED
  BY <1>1, Invariance, PTL DEF Spec, ConfigAndDaemonKept

(* launchctl bootstrap runs only when everything the daemon needs is in    *)
(* place, however often the installation failed before.                    *)
THEOREM StartedCompleteTheorem == Spec => StartedComplete
<1>1. Inv => (Load /\ ~dryRun => /\ \A f \in Program : file[f] = "augur"
                                 /\ file["config"] # "absent")
  BY DEF Inv, Progress, Done, Load, Program
<1> QED
  BY <1>1, Invariance, PTL DEF Spec, StartedComplete
=============================================================================
