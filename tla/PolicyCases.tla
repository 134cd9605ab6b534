---------------------------- MODULE PolicyCases -----------------------------
(***************************************************************************)
(* The admission policy over every configuration and connection of an      *)
(* instance.  The daemon loads one configuration, and connections with     *)
(* some authenticated keys are judged one after the other.                 *)
(***************************************************************************)
EXTENDS Policy

CONSTANTS
    Configs,      \* configurations accepted by Validate
    Connections,  \* connections [user, remote]
    KeySets       \* sets of fingerprints a session may have authenticated with

ASSUME CasesLoaded == \A c \in Configs : Validate(c)

(* The fields of the records that the cases are made of. *)
ASSUME CasesTyped ==
    /\ \A c \in Configs : DOMAIN c = {"mode", "enforce", "ports", "networks", "devices",
                                      "allow", "terminate"}
    /\ \A c \in Configs : \A d \in c.devices : DOMAIN d = {"user", "fingerprint", "networks"}
    /\ \A c \in Connections : DOMAIN c = {"user", "remote"} /\ DOMAIN c.remote = {"addr", "port"}

VARIABLES config, conn, keys

caseVars == <<config, conn, keys>>

CaseInit == config \in Configs /\ conn \in Connections /\ keys \in KeySets

Judge == conn' \in Connections /\ keys' \in KeySets /\ UNCHANGED config

CaseSpec == CaseInit /\ [][Judge]_caseVars
-----------------------------------------------------------------------------
(* The same connection, with the address that the other form denotes. *)
Unmapped(c) == [c EXCEPT !.remote.addr = Unmap(@)]

(* An IPv4 peer is judged alike whether lsof reports its address as IPv4   *)
(* or as IPv4-mapped IPv6: through recognition, allow and terminate lists. *)
FormIrrelevant ==
    Terminable(config, conn, keys) <=> Terminable(config, Unmapped(conn), keys)

(* README.md: "Network settings can restrict where a recognized device is  *)
(* allowed to connect."  Naming networks for a device never admits it from *)
(* an address where it is not admitted without them.                       *)
RestrictionNarrows ==
    LET unrestricted == [config EXCEPT !.devices = {[d EXCEPT !.networks = {}] : d \in @}]
    IN  MatchDevice(config, conn.user, keys, conn.remote.addr)
        => MatchDevice(unrestricted, conn.user, keys, conn.remote.addr)
=============================================================================
