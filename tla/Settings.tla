-------------------------------- MODULE Settings --------------------------------
(***************************************************************************)
(* The runtime settings (internal/admin/settings.go): a PUT is merged with *)
(* what memory holds, put in memory, applied to one component after the    *)
(* other and saved to a file at the end, with no lock over the whole; at   *)
(* start the file is completed from the YAML configuration and goes the    *)
(* same way (internal/app/admin_wire.go), and so does the YAML alone when  *)
(* the file cannot be read.                                                *)
(*                                                                         *)
(* The sixty fields are of four kinds, and a settings record has one of    *)
(* each: hot, where zero keeps the old value; conc, where zero is a value  *)
(* (no limit); listen, which a running process cannot change; and rest,    *)
(* all that the later stages copy into their components.                   *)
(***************************************************************************)
EXTENDS Integers, Sequences

CONSTANTS
  Puts,        \* PUT /admin/settings requests, each sent once
  Boot,        \* the Apply of the start
  Bodies,      \* what a PUT may hold: [hot, conc, listen, rest, badSSO]
  Yaml,        \* the configuration of the process, of the same shape
  MaxConc,     \* the bound Apply puts on conc
  NoFile,
  MaxCrashes,  \* bound on restarts, a limit of the model
  MaxErrors    \* bound on failed loads, reloads and writes, a limit of the model

VARIABLES
  mem,      \* SettingsController.s, with its restart hint
  file,     \* data/settings.json
  current,  \* what the components work with
  apply,    \* caller -> its Apply
  crashes, errors,
  settled,  \* history: the last change of mem ended in a success of its own
  acked     \* history: what the last PUT answered "ok" alone had saved

settingsVars == <<mem, file, current, apply, crashes, errors, settled, acked>>

Callers == Puts \cup {Boot}

\* What a PUT may hold, and what memory and file hold: the hint with it.
Body == [hot : Int, conc : Int, listen : Int, rest : Int, badSSO : BOOLEAN]
Saved == [hot : Int, conc : Int, listen : Int, rest : Int, badSSO : BOOLEAN, hint : BOOLEAN]

\* After the hot index: the components in the order Apply reaches them, those
\* that copy what they need in one go under the name of one: "lease" with the
\* proxy policy, selector and refresh; "upstream" with OAuth and Anthropic.
Stages == <<"lease", "http", "upstream", "import">>

Hinted(s, hint) == [hot |-> s.hot, conc |-> s.conc, listen |-> s.listen,
                    rest |-> s.rest, badSSO |-> s.badSSO, hint |-> hint]

\* A process started from the YAML configuration alone.
Started == [cap |-> Yaml.hot, loaded |-> Yaml.hot, conc |-> Yaml.conc,
            listen |-> Yaml.listen,
            rest |-> [i \in DOMAIN Stages |-> Yaml.rest]]

None0 == [pc |-> "idle", in |-> Hinted(Yaml, FALSE), prev |-> 0, stage |-> 1,
          snap |-> NoFile, alone |-> TRUE, blind |-> FALSE]

\* A controller nobody has loaded or applied anything to.
Unset0 == Hinted([hot |-> 0, conc |-> 0, listen |-> 0, rest |-> 0, badSSO |-> FALSE], FALSE)

Init ==
  /\ mem = Unset0
  /\ file = NoFile
  /\ current = Started
  /\ apply = [c \in Callers |-> IF c = Boot THEN [None0 EXCEPT !.pc = "load"] ELSE None0]
  /\ crashes = 0
  /\ errors = 0
  /\ settled = FALSE
  /\ acked = NoFile

Active(c) == apply[c].pc \notin {"idle", "ok", "error"}

Go(c, pc) == [apply EXCEPT ![c].pc = pc]

End(c, answer) == [apply EXCEPT ![c] = [None0 EXCEPT !.pc = answer]]

Fault == errors < MaxErrors /\ errors' = errors + 1

-----------------------------------------------------------------------------

\* mergeSettingsDefaults: what the file has as zero comes from the YAML.
Filled(saved) ==
  [saved EXCEPT !.hot = IF @ <= 0 THEN Yaml.hot ELSE @,
                !.conc = IF @ <= 0 THEN Yaml.conc ELSE @,
                !.listen = IF @ = 0 THEN Yaml.listen ELSE @]

\* The start goes on with these settings.
StartWith(in, blind) ==
  apply' = [apply EXCEPT ![Boot].pc = "merge", ![Boot].in = in, ![Boot].blind = blind]

\* Load, then Apply with the gaps filled.
LoadFile ==
  /\ apply[Boot].pc = "load"
  /\ IF file = NoFile
       THEN UNCHANGED mem /\ StartWith(Hinted(Yaml, FALSE), FALSE)
       ELSE mem' = file /\ StartWith(Filled(file), FALSE)
  /\ UNCHANGED <<file, current, crashes, errors, settled, acked>>

\* The file cannot be read or parsed, which the start only logs: it completes what
\* the controller has, nothing, or takes the YAML alone if the file is empty or
\* cannot be found out about.
LoadFails ==
  /\ apply[Boot].pc = "load" /\ file # NoFile /\ Fault
  /\ \E in \in {Filled(mem), Hinted(Yaml, FALSE)} : StartWith(in, TRUE)
  /\ UNCHANGED <<mem, file, current, crashes, settled, acked>>

\* The server listens once the start is through, whether its Apply failed or not.
BeginPut(p) ==
  /\ apply[p].pc = "idle"
  /\ ~Active(Boot)
  /\ \E body \in Bodies :
       LET others == {c \in Callers \ {p} : Active(c)}
       IN  apply' = [c \in Callers |->
             IF c = p THEN [None0 EXCEPT !.pc = "merge", !.in = Hinted(body, FALSE),
                                         !.alone = others = {}]
             ELSE IF c \in others THEN [apply[c] EXCEPT !.alone = FALSE]
             ELSE apply[c]]
  /\ UNCHANGED <<mem, file, current, crashes, errors, settled, acked>>

Clamped(n, most) == IF n < 0 THEN 0 ELSE IF n > most THEN most ELSE n

\* Bounds, then the fields a zero leaves as they are, then the hint.
Merged(in) ==
  LET listen == IF in.listen = 0 THEN mem.listen ELSE in.listen
  IN  Hinted([in EXCEPT !.hot = IF @ <= 0 THEN mem.hot ELSE @,
                        !.conc = Clamped(@, MaxConc),
                        !.listen = listen],
             listen # current.listen)

\* The snapshot it merges with; the size it had is needed again below.
MergeIn(c) ==
  /\ apply[c].pc = "merge"
  /\ apply' = [apply EXCEPT ![c].pc = "store", ![c].in = Merged(@), ![c].prev = mem.hot]
  /\ UNCHANGED <<mem, file, current, crashes, errors, settled, acked>>

Store(c) ==
  /\ apply[c].pc = "store"
  /\ mem' = apply[c].in
  /\ settled' = FALSE
  /\ apply' = Go(c, "resize")
  /\ UNCHANGED <<file, current, crashes, errors, acked>>

\* Mutant: only a size that differs from the one in memory is a change.
NeedResize_ByPrev(c) == apply[c].in.hot # apply[c].prev

NeedResize(c) ==
  apply[c].in.hot > 0 /\
  (current.cap # apply[c].in.hot \/ apply[c].in.hot # apply[c].prev)

ResizeHot(c) ==
  /\ apply[c].pc = "resize"
  /\ IF NeedResize(c)
       THEN /\ current' = [current EXCEPT !.cap = apply[c].in.hot]
            /\ apply' = Go(c, "reload")
       ELSE UNCHANGED current /\ apply' = Go(c, "stages")
  /\ UNCHANGED <<mem, file, crashes, errors, settled, acked>>

\* ReloadHot resizes the index again if an overlapping PUT gave it another size.
Reload(c) ==
  /\ apply[c].pc = "reload"
  /\ current' = [current EXCEPT !.cap = apply[c].in.hot]
  /\ apply' = Go(c, "fill")
  /\ UNCHANGED <<mem, file, crashes, errors, settled, acked>>

\* LoadEligible fills it to the size it has by now; a failure ends the PUT here.
Fill(c) ==
  /\ apply[c].pc = "fill"
  /\ \/ /\ current' = [current EXCEPT !.loaded = current.cap]
        /\ apply' = Go(c, "stages")
        /\ UNCHANGED errors
     \/ /\ Fault
        /\ apply' = End(c, "error")
        /\ UNCHANGED current
  /\ UNCHANGED <<mem, file, crashes, settled, acked>>

\* One component; the import stage refuses an invalid converter.
ApplyStage(c) ==
  LET i == apply[c].stage
  IN  /\ apply[c].pc = "stages"
      /\ IF Stages[i] = "import" /\ apply[c].in.badSSO
           THEN UNCHANGED current /\ apply' = End(c, "error")
           ELSE /\ current' = [current EXCEPT
                     !.rest[i] = apply[c].in.rest,
                     !.conc = IF Stages[i] = "http" THEN apply[c].in.conc ELSE @]
                /\ apply' = [apply EXCEPT
                     ![c].stage = IF i < Len(Stages) THEN i + 1 ELSE i,
                     ![c].pc = IF i < Len(Stages) THEN @ ELSE "snap"]
      /\ UNCHANGED <<mem, file, crashes, errors, settled, acked>>

\* persist reads memory again, writes a temporary file and renames it.
SnapMemory(c) ==
  /\ apply[c].pc = "snap"
  /\ apply' = [apply EXCEPT ![c].snap = mem, ![c].pc = "write"]
  /\ UNCHANGED <<mem, file, current, crashes, errors, settled, acked>>

\* A start that could not read the file replaces it like any other.
WriteFile(c) ==
  /\ apply[c].pc = "write"
  /\ \/ /\ file' = apply[c].snap
        /\ settled' = apply[c].alone
        /\ acked' = IF c = Boot THEN IF apply[c].blind THEN NoFile ELSE acked
                    ELSE IF apply[c].alone THEN file' ELSE NoFile
        /\ apply' = End(c, "ok")
        /\ UNCHANGED errors
     \/ /\ Fault
        /\ apply' = End(c, "error")
        /\ UNCHANGED <<file, settled, acked>>
  /\ UNCHANGED <<mem, current, crashes>>

\* The process ends anywhere and is started again.
Crash ==
  /\ crashes < MaxCrashes
  /\ crashes' = crashes + 1
  /\ mem' = Unset0
  /\ current' = Started
  /\ apply' = [c \in Callers |-> IF c = Boot THEN [None0 EXCEPT !.pc = "load"]
                                ELSE IF Active(c) THEN [None0 EXCEPT !.pc = "error"]
                                ELSE apply[c]]
  /\ settled' = FALSE
  /\ UNCHANGED <<file, errors, acked>>

SettingsNext ==
  \/ LoadFile \/ LoadFails \/ Crash
  \/ \E p \in Puts : BeginPut(p)
  \/ \E c \in Callers :
       \/ MergeIn(c) \/ Store(c) \/ ResizeHot(c) \/ Reload(c) \/ Fill(c)
       \/ ApplyStage(c) \/ SnapMemory(c) \/ WriteFile(c)

-----------------------------------------------------------------------------
(* Properties.                                                             *)

\* Once an Apply has succeeded that no other overlapped, every component works
\* with what memory and file hold, whatever failed PUTs left half applied
\* before it, and the hint names exactly what the process does not yet use.
SettledAgree ==
  settled =>
    /\ file = mem
    /\ current.cap = mem.hot
    /\ current.conc = mem.conc
    /\ \A i \in DOMAIN Stages : current.rest[i] = mem.rest
    /\ mem.hint <=> (mem.listen # current.listen)

\* What a PUT had saved when it was answered alone is what the file holds and
\* the next start brings back, however many failed PUTs and crashes come
\* between.  There are two exceptions: a limit of zero, which the start replaces,
\* and a start that could not read the file: once it has written its own settings
\* over it, what the PUT was told is saved is lost (admin_wire.go, 395 to 406).
AckSurvives ==
  acked # NoFile /\ settled =>
    /\ file.hot = acked.hot
    /\ file.rest = acked.rest
    /\ acked.conc # 0 => file.conc = acked.conc

\* A field the hint says will take effect with a restart does so.
HintKept ==
  settled /\ apply[Boot].pc = "ok" /\ crashes > 0 /\ (\A p \in Puts : ~Active(p))
    => current.listen = file.listen
================================================================================
