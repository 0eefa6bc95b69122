---------------------------- MODULE ConfigStore ----------------------------
(***************************************************************************)
(* What the management page saves, on disk and in memory: the settings     *)
(* (transproxy.conf, IniFile), the two custom lists and the rules file     *)
(* (Config.cpp).  Each file is replaced by way of a temporary file and a   *)
(* backup.  The daemon's parent reads the settings and restores files from *)
(* their backups when it starts; its child starts from a copy of that      *)
(* memory, reads the lists and the rules, and serves the page.  The child  *)
(* may be killed between any two file operations and is started again; so  *)
(* may the whole router be.                                                *)
(*                                                                         *)
(* A text is the number of the request that it came from.  A file          *)
(* operation happens or not: caches of the operating system that a power   *)
(* failure empties, and a full disk, are left out.                         *)
(***************************************************************************)
EXTENDS Integers, Sequences

CONSTANT MaxRequests  \* bound: requests of each kind

ASSUME RequestsAssumption == MaxRequests \in Nat

Files == {"conf", "proxy", "direct", "rules"}

Absent == 0
Partial == -1  \* opened for writing, and not closed yet
Text == Int

\* A file, its temporary file and its backup.
Slot == [main : Text, tmp : Text, bak : Text]

\* The lists are saved together, behind the settings; the rules are downloaded.
Save == <<"proxy", "direct">>
Update == <<"rules">>
Batches == {Save, Update}

VARIABLES
  disk,         \* each file with its temporary file and its backup
  decoded,      \* domain_rules.txt.tmp2
  parent,       \* what the parent does next in its start, "up", or "down"
  kept,         \* the settings in the parent's memory
  child,        \* "up" or "down"
  mem,          \* the settings in the child's memory
  file, step,   \* where the child is in replacing a file
  downloading,  \* _httpRequest # NULL
  asked, told   \* the last request of each kind, and the last one acknowledged

handler == <<file, step>>
processes == <<parent, kept, child, mem>>
vars == <<disk, decoded, processes, handler, downloading, asked, told>>

Steps == {"idle", "create", "fill", "backup", "swap", "clean", "answer",
          "decode", "decoded", "drop", "take"}

TypeOK ==
  /\ disk \in [Files -> Slot]
  /\ decoded \in Text
  /\ parent \in Files \cup {"up", "down"}
  /\ kept \in Text /\ mem \in Text
  /\ child \in {"up", "down"}
  /\ file \in Files
  /\ step \in Steps
  /\ downloading \in BOOLEAN
  /\ asked \in [Batches -> Nat]
  /\ told \in [Batches -> Nat]
  /\ parent # "up" => child = "down"
  /\ child = "down" => step = "idle" /\ ~downloading

BatchOf(f) == IF f = "rules" THEN Update ELSE Save

Init ==
  /\ disk = [f \in Files |-> [main |-> Absent, tmp |-> Absent, bak |-> Absent]]
  /\ decoded = Absent
  /\ parent = "down" /\ child = "down"
  /\ kept = Absent /\ mem = Absent
  /\ file = "conf" /\ step = "idle"
  /\ downloading = FALSE
  /\ asked = [b \in Batches |-> 0]
  /\ told = [b \in Batches |-> 0]

-----------------------------------------------------------------------------
(* Processes.                                                               *)

\* Static initialisation, before the daemon forks.
DaemonStart ==
  /\ parent = "down"
  /\ parent' = "conf"
  /\ UNCHANGED <<disk, decoded, kept, child, mem, handler, downloading, asked, told>>

\* IniFile's constructor.  The condition under which it renames the backup, that
\* the file is there and the backup is not, makes the rename fail; the backup is
\* removed in any case.
OpenIni ==
  /\ parent = "conf"
  /\ disk' = [disk EXCEPT !["conf"] = [main |-> @.main, tmp |-> Absent, bak |-> Absent]]
  /\ kept' = disk["conf"].main
  /\ parent' = "rules"
  /\ UNCHANGED <<decoded, child, mem, handler, downloading, asked, told>>

Restored(d) ==
  IF d.main = Absent /\ d.bak # Absent
  THEN [main |-> d.bak, tmp |-> Absent, bak |-> Absent]
  ELSE [main |-> d.main, tmp |-> Absent, bak |-> Absent]

\* (A wrong variant: IniFile's condition, which never restores.)
RestoreInverted ==
  /\ parent \in {"rules", "proxy", "direct"}
  /\ disk' = [disk EXCEPT ![parent] = [main |-> @.main, tmp |-> Absent, bak |-> Absent]]
  /\ parent' = CASE parent = "rules" -> "proxy" [] parent = "proxy" -> "direct" [] OTHER -> "up"
  /\ UNCHANGED <<decoded, kept, child, mem, handler, downloading, asked, told>>

\* (A wrong variant: a backup is taken even when the file is there.)
RestoreAlways ==
  /\ parent \in {"rules", "proxy", "direct"}
  /\ disk' = [disk EXCEPT ![parent] =
                [main |-> IF @.bak # Absent THEN @.bak ELSE @.main,
                 tmp |-> Absent, bak |-> Absent]]
  /\ parent' = CASE parent = "rules" -> "proxy" [] parent = "proxy" -> "direct" [] OTHER -> "up"
  /\ UNCHANGED <<decoded, kept, child, mem, handler, downloading, asked, told>>

\* _restoreFile, for the rules and then the two lists.
Restore ==
  /\ parent \in {"rules", "proxy", "direct"}
  /\ disk' = [disk EXCEPT ![parent] = Restored(@)]
  /\ parent' = CASE parent = "rules" -> "proxy" [] parent = "proxy" -> "direct" [] OTHER -> "up"
  /\ UNCHANGED <<decoded, kept, child, mem, handler, downloading, asked, told>>

\* fork() and run(): the settings in force are those of the parent's memory.
ChildStart ==
  /\ parent = "up" /\ child = "down"
  /\ child' = "up"
  /\ mem' = kept
  /\ UNCHANGED <<disk, decoded, parent, kept, handler, downloading, asked, told>>

\* (A wrong variant: what the child was doing is not over.)
ChildDiesBusy ==
  /\ child = "up"
  /\ child' = "down"
  /\ mem' = Absent
  /\ downloading' = FALSE
  /\ UNCHANGED <<disk, decoded, parent, kept, handler, asked, told>>

\* The reboot of the page, three seconds after it was asked for; an uncaught
\* exception; a kill.
ChildDies ==
  /\ child = "up"
  /\ child' = "down"
  /\ mem' = Absent
  /\ file' = "conf" /\ step' = "idle"
  /\ downloading' = FALSE
  /\ UNCHANGED <<disk, decoded, parent, kept, asked, told>>

PowerOff ==
  /\ parent # "down"
  /\ parent' = "down" /\ child' = "down"
  /\ kept' = Absent /\ mem' = Absent
  /\ file' = "conf" /\ step' = "idle"
  /\ downloading' = FALSE
  /\ UNCHANGED <<disk, decoded, asked, told>>

-----------------------------------------------------------------------------
(* The requests.                                                            *)

\* Between two callbacks.
Free == child = "up" /\ step = "idle"

Asks(b) == asked[b] < MaxRequests /\ asked' = [asked EXCEPT ![b] = @ + 1]

\* config-save: every setting of the page goes to memory, and then to the file.
SaveRequest ==
  /\ Free
  /\ Asks(Save)
  /\ mem' = asked'[Save]
  /\ file' = "conf" /\ step' = "create"
  /\ UNCHANGED <<disk, decoded, parent, kept, child, downloading, told>>

\* The first bytes of the rules arrive; only one update is under way at a time.
DownloadBegins ==
  /\ Free
  /\ ~downloading
  /\ Asks(Update)
  /\ disk' = [disk EXCEPT !["rules"].tmp = Partial]
  /\ downloading' = TRUE
  /\ UNCHANGED <<decoded, processes, handler, told>>

\* It fails, and leaves what it has received.
DownloadFails ==
  /\ Free
  /\ downloading
  /\ downloading' = FALSE
  /\ UNCHANGED <<disk, decoded, processes, handler, asked, told>>

\* onResponseCompleted: the temporary file is closed, and _updateRulesFile takes
\* it as it is or decodes it.
DownloadEnds ==
  /\ Free
  /\ downloading
  /\ disk' = [disk EXCEPT !["rules"].tmp = asked[Update]]
  /\ downloading' = FALSE
  /\ file' = "rules"
  /\ step' \in {"decode", "backup"}
  /\ UNCHANGED <<decoded, processes, asked, told>>

-----------------------------------------------------------------------------
(* Replacing a file.                                                        *)

Goes(f, from, to) ==
  /\ child = "up" /\ step = from /\ file = f
  /\ step' = to /\ file' = f
  /\ UNCHANGED <<processes, downloading, asked>>

\* Base64: a second temporary file, which replaces the first.
DecodeRules ==
  /\ \/ /\ Goes("rules", "decode", "decoded")
        /\ decoded' = Partial /\ UNCHANGED disk
     \/ /\ Goes("rules", "decoded", "drop")
        /\ decoded' = disk["rules"].tmp /\ UNCHANGED disk
     \/ /\ Goes("rules", "drop", "take")
        /\ disk' = [disk EXCEPT !["rules"].tmp = Absent] /\ UNCHANGED decoded
     \/ /\ Goes("rules", "take", "backup")
        /\ disk' = [disk EXCEPT !["rules"].tmp = decoded] /\ decoded' = Absent
  /\ UNCHANGED told

\* (A wrong variant: the text is written to the file itself.)
CreateInPlace(f) ==
  /\ Goes(f, "create", "fill")
  /\ disk' = [disk EXCEPT ![f].main = Partial]
  /\ UNCHANGED <<decoded, told>>

\* fopen of the temporary file.
Create(f) ==
  /\ Goes(f, "create", "fill")
  /\ disk' = [disk EXCEPT ![f].tmp = Partial]
  /\ UNCHANGED <<decoded, told>>

\* fclose; the settings come from memory, a list from the request.
Fill(f) ==
  /\ Goes(f, "fill", "backup")
  /\ disk' = [disk EXCEPT ![f].tmp = IF f = "conf" THEN mem ELSE asked[Save]]
  /\ UNCHANGED <<decoded, told>>

\* The file becomes the backup, unless there is none.
Backup(f) ==
  /\ Goes(f, "backup", "swap")
  /\ disk' = IF disk[f].main = Absent THEN disk
             ELSE [disk EXCEPT ![f] = [main |-> Absent, tmp |-> @.tmp, bak |-> @.main]]
  /\ UNCHANGED <<decoded, told>>

Swap(f) ==
  /\ Goes(f, "swap", "clean")
  /\ disk' = [disk EXCEPT ![f] = [main |-> @.tmp, tmp |-> Absent, bak |-> @.bak]]
  /\ UNCHANGED <<decoded, told>>

\* The backup is removed; the settings are followed by the lists.
Clean(f) ==
  /\ child = "up" /\ step = "clean" /\ file = f
  /\ disk' = [disk EXCEPT ![f].bak = Absent]
  /\ CASE f = "conf" -> file' = "proxy" /\ step' = "create"
       [] f = "proxy" -> file' = "direct" /\ step' = "create"
       [] OTHER -> file' = f /\ step' = "answer"
  /\ UNCHANGED <<decoded, processes, downloading, asked, told>>

\* Status 0 for a save; "Updating" is false for an update.
Answer(f) ==
  /\ Goes(f, "answer", "idle")
  /\ told' = [told EXCEPT ![BatchOf(f)] = asked[BatchOf(f)]]
  /\ UNCHANGED <<disk, decoded>>

Replace ==
  \/ DecodeRules
  \/ \E f \in Files : Create(f) \/ Fill(f) \/ Backup(f) \/ Swap(f) \/ Clean(f) \/ Answer(f)

Next ==
  \/ DaemonStart \/ OpenIni \/ Restore \/ ChildStart \/ ChildDies \/ PowerOff
  \/ SaveRequest \/ DownloadBegins \/ DownloadFails \/ DownloadEnds
  \/ Replace

Spec == Init /\ [][Next]_vars

-----------------------------------------------------------------------------
(* Properties.                                                              *)

\* What a file holds, once the parent has restored it.
Content(f) == IF disk[f].main # Absent THEN disk[f].main ELSE disk[f].bak

\* No reader ever meets half a text, in a file or in the backup that may take its
\* place: each is renamed only when it was closed.
WholeFiles == \A f \in Files : disk[f].main # Partial /\ disk[f].bak # Partial

\* A list or rules that the page has acknowledged are never lost and never fall
\* back to an older text, wherever a later request was interrupted and whatever
\* was restored since.
AcknowledgedKept ==
  \A b \in Batches : \A i \in 1..Len(b) : Content(b[i]) >= told[b]

\* Deaths, restarts and restored backups are not noticed in the lists and rules:
\* they change one after the other, each from one whole text to a later one.
Abstract ==
  INSTANCE Store WITH stored <- [f \in {"proxy", "direct", "rules"} |-> Content(f)]

ImplementsStore == Abstract!Spec

\* After a reboot the settings that were saved are in force: "Config saved, reboot
\* to apply them now?", says the page (config.html).
RebootApplies == [][ChildStart => mem' >= told[Save]]_vars
=============================================================================
