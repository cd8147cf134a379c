-------------------------------- MODULE Console --------------------------------
(***************************************************************************)
(* What an operator works with beside the accounts themselves: the proxy   *)
(* pool, the settings and the converters of SSO cookies.  None shares      *)
(* state with another, so a behaviour is that of one of them: `part` says  *)
(* which one moves, the others rest.  At "files" all rest, and what is     *)
(* looked at is the file of an import, which has no steps                  *)
(* (ImportDocuments).                                                      *)
(***************************************************************************)
EXTENDS FiniteSets, ImportDocuments

CONSTANTS
  Urls, Accts, NoProxy, Binders, Editors, FirstCooldown, MaxDoublings, MaxReports,
  MaxFaults, MaxNow,
  Puts, Boot, Bodies, Yaml, MaxConc, NoFile, MaxRestarts, MaxErrors,
  Calls, Flows, CallOf, Values, MaxRetries, MaxPermits, MaxPolls, NoValue,
  Cookies, MaxBatch, Senders, Outcomes, Unset, NoDocument

VARIABLES
  part,
  nodes, poolFile, proxyOf, hotProxy, binder, editor, now, faults, reports, \* ProxyPool
  mem, file, current, apply, restarts, errors, settled, acked,               \* Settings
  feed, flow, out, flowPermits, recent, cancelled,                          \* DeviceFlow
  todo, sender, reply, merged, ended, failing, stopped,                     \* RemoteConvert
  document                                                                  \* ImportDocuments

Proxies == INSTANCE ProxyPool WITH file <- poolFile
Settled == INSTANCE Settings WITH MaxCrashes <- MaxRestarts, crashes <- restarts
Local == INSTANCE DeviceFlow WITH permits <- flowPermits, NoJob <- NoValue
Remote == INSTANCE RemoteConvert

ASSUME ProxiesAssumption ==
  /\ IsFiniteSet(Urls) /\ Urls = 1..Cardinality(Urls) /\ Accts \subseteq Nat

ASSUME SettingsAssumption ==
  /\ Boot \notin Puts /\ Bodies \subseteq Settled!Body /\ NoFile \notin Settled!Saved
  /\ Yaml \in Settled!Body /\ Yaml.hot > 0 /\ MaxConc \in Nat

ASSUME ConverterAssumption ==
  /\ IsFiniteSet(Flows) /\ CallOf \in [Flows -> Calls]
  /\ Values \in Nat \ {0} /\ MaxPermits \in Nat
  /\ Cookies \in Nat /\ MaxBatch \in Nat \ {0}

proxyVars == <<nodes, poolFile, proxyOf, hotProxy, binder, editor, now, faults, reports>>
settingsVars == <<mem, file, current, apply, restarts, errors, settled, acked>>
localVars == <<feed, flow, out, flowPermits, recent, cancelled>>
remoteVars == <<todo, sender, reply, merged, ended, failing, stopped>>
consoleVars == <<part, proxyVars, settingsVars, localVars, remoteVars, document>>

ConsoleInit ==
  /\ part \in {"proxies", "settings", "local", "remote", "files"}
  /\ Proxies!Init /\ Settled!Init /\ Local!Init /\ Remote!Init
  /\ IF part = "files" THEN document \in ImportFile ELSE document = NoDocument

ConsoleNext ==
  /\ UNCHANGED <<part, document>>
  /\ \/ /\ part = "proxies" /\ Proxies!PoolNext
        /\ UNCHANGED <<settingsVars, localVars, remoteVars>>
     \/ /\ part = "settings" /\ Settled!SettingsNext
        /\ UNCHANGED <<proxyVars, localVars, remoteVars>>
     \/ /\ part = "local" /\ Local!FlowNext
        /\ UNCHANGED <<proxyVars, settingsVars, remoteVars>>
     \/ /\ part = "remote" /\ Remote!RemoteNext
        /\ UNCHANGED <<proxyVars, settingsVars, localVars>>

\* A step of the converter in the process; its goroutines are never stopped.
LocalStep(A) ==
  part = "local" /\ A /\ UNCHANGED <<part, proxyVars, settingsVars, remoteVars, document>>

Fairness ==
  /\ \A w \in Flows : WF_consoleVars(LocalStep(Local!Work(w)))
  /\ \A c \in Calls : WF_consoleVars(LocalStep(Local!Lead(c)))

ConsoleSpec == ConsoleInit /\ [][ConsoleNext]_consoleVars /\ Fairness

\* A saved list of proxies does not forgive a node (ProxyPool).
HealthKept == Proxies!HealthKept

\* Memory, file and components agree after a PUT of its own, and what was
\* acknowledged is what the file brings back (Settings).
SettingsDurable == Settled!SettledAgree /\ Settled!AckSurvives

\* The permits of the device flows are never lost or exceeded, and a Convert
\* answers whole and leaves no worker behind (DeviceFlow).
ConvertSound == Local!PermitsExact /\ Local!ConvertWhole

\* Every Convert answers (DeviceFlow).
ConvertEnds == part = "local" => Local!ConvertEnds

\* Each value gets the credential the service gave for it (RemoteConvert).
EachItsOwn == Remote!EachItsOwn

\* The count before the parsing decides as the parsing would (ImportDocuments).
LimitsExact == part = "files" => LimitOK(document)
================================================================================
