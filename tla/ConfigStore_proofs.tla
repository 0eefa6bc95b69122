------------------------ MODULE ConfigStore_proofs ------------------------
(***************************************************************************)
(* Proofs about ConfigStore, for any number of requests.                   *)
(***************************************************************************)
EXTENDS ConfigStore, TLAPS

Lists == {"proxy", "direct", "rules"}

\* The steps up to the one that puts the new text in place, and those after it.
Before == {"create", "fill", "backup", "swap", "decode", "decoded", "drop", "take"}
Done == {"clean", "answer"}

\* The text that a file is being replaced by.
Wanted(f) == IF f = "conf" THEN mem ELSE asked[BatchOf(f)]

Behind(f) == Content(f) < asked[BatchOf(f)]

Whole ==
  /\ \A f \in Files : disk[f].main \in Nat /\ disk[f].bak \in Nat
  /\ kept \in Nat /\ mem \in Nat

Bounded ==
  \A f \in Lists : told[BatchOf(f)] <= Content(f) /\ Content(f) <= asked[BatchOf(f)]

\* Which files hold the new text already, and which do not.
Written ==
  /\ file \in Lists =>
       IF step \in Before THEN Behind(file)
       ELSE step \in Done =>
              disk[file].main = asked[BatchOf(file)] /\ asked[BatchOf(file)] > 0
  /\ step # "idle" /\ file = "conf" => Behind("proxy") /\ Behind("direct")
  /\ step # "idle" /\ file = "proxy" => Behind("direct")
  /\ step # "idle" /\ file = "direct" => Content("proxy") = asked[Save]
  /\ downloading => Behind("rules")

\* Where the new text is until then.
Placed ==
  /\ step \in {"backup", "swap"} => disk[file].tmp = Wanted(file)
  /\ step = "swap" => disk[file].main = Absent
  /\ step \in {"decode", "decoded"} => disk["rules"].tmp = asked[Update]
  /\ step \in {"drop", "take"} => decoded = asked[Update]

\* Which steps a file has.
Stations ==
  /\ step \in {"create", "fill"} => file # "rules"
  /\ step \in {"decode", "decoded", "drop", "take"} => file = "rules"
  /\ step = "answer" => file \in {"direct", "rules"}
  /\ step # "idle" /\ file = "rules" => ~downloading

IInv == TypeOK /\ Whole /\ Bounded /\ Written /\ Placed /\ Stations

-----------------------------------------------------------------------------
LEMMA Names ==
  /\ Save # Update /\ Batches = {Save, Update}
  /\ BatchOf("rules") = Update /\ BatchOf("conf") = Save
  /\ BatchOf("proxy") = Save /\ BatchOf("direct") = Save
<1>1. Save[1] = "proxy" /\ Update[1] = "rules"
  BY DEF Save, Update
<1> QED
  BY <1>1 DEF Batches, BatchOf

\* What a file operation on one file leaves alone.
LEMMA OneFile ==
  ASSUME TypeOK, NEW f \in Files, NEW r \in Slot, disk' = [disk EXCEPT ![f] = r]
  PROVE  /\ disk' \in [Files -> Slot]
         /\ disk'[f] = r
         /\ \A g \in Files \ {f} : disk'[g] = disk[g]
BY DEF TypeOK

LEMMA InitInv == Init => IInv
<1> SUFFICES ASSUME Init PROVE IInv
  OBVIOUS
<1>1. TypeOK
  <2>1. disk \in [Files -> Slot]
    BY DEF Init, Slot, Text, Absent
  <2>2. decoded \in Text /\ kept \in Text /\ mem \in Text /\ file \in Files /\ step \in Steps
    BY DEF Init, Text, Absent, Files, Steps
  <2>3. downloading \in BOOLEAN /\ ~downloading
    BY DEF Init
  <2> QED
    BY <2>1, <2>2, <2>3 DEF Init, TypeOK
<1>2. Whole
  BY DEF Init, Whole, Files, Absent
<1>3. \A f \in Lists : Content(f) = 0 /\ asked[BatchOf(f)] = 0 /\ told[BatchOf(f)] = 0
  BY Names DEF Init, Content, Lists, Files, Absent
<1>4. Bounded
  BY <1>3 DEF Bounded
<1> QED
  BY <1>1, <1>2, <1>4 DEF Init, IInv, Written, Placed, Stations, Before, Done, Lists

LEMMA DaemonStartInv == IInv /\ DaemonStart => IInv'
<1> SUFFICES ASSUME IInv, DaemonStart PROVE IInv'
  OBVIOUS
<1>1. TypeOK'
  BY DEF IInv, TypeOK, DaemonStart, handler, Files
<1>2. Whole' /\ Bounded' /\ Written' /\ Placed' /\ Stations'
  BY DEF IInv, DaemonStart, handler, Whole, Bounded, Written, Placed, Stations, Behind,
         Content, Wanted
<1> QED
  BY <1>1, <1>2 DEF IInv

LEMMA OpenIniInv == IInv /\ OpenIni => IInv'
<1> SUFFICES ASSUME IInv, OpenIni PROVE IInv'
  OBVIOUS
<1>1. /\ disk' \in [Files -> Slot]
      /\ disk'["conf"].main = disk["conf"].main
      /\ \A f \in Lists : disk'[f] = disk[f]
      /\ disk'["conf"].bak = 0
  <2>1. "conf" \in Files /\ Lists \subseteq Files \ {"conf"} /\ disk["conf"] \in Slot
    BY DEF Files, Lists, IInv, TypeOK
  <2>2. [main |-> disk["conf"].main, tmp |-> Absent, bak |-> Absent] \in Slot
    BY <2>1 DEF Slot, Text, Absent
  <2> QED
    BY <2>1, <2>2, OneFile DEF OpenIni, IInv, Absent
<1>2. step = "idle" /\ ~downloading
  BY DEF IInv, TypeOK, OpenIni
<1>3. TypeOK'
  <2>1. kept' \in Text
    BY DEF IInv, TypeOK, OpenIni, Files, Slot
  <2> QED
    BY <1>1, <1>2, <2>1 DEF IInv, TypeOK, OpenIni, handler, Files
<1>4. Whole'
  BY <1>1 DEF IInv, Whole, OpenIni, Files, Lists
<1>5. \A f \in Lists : Content(f)' = Content(f)
  BY <1>1 DEF Content
<1>6. Bounded'
  BY <1>5 DEF IInv, Bounded, OpenIni
<1>7. Written' /\ Placed' /\ Stations'
  BY <1>2 DEF OpenIni, handler, Written, Placed, Stations, Before, Done
<1> QED
  BY <1>3, <1>4, <1>6, <1>7 DEF IInv

LEMMA RestoreInv == IInv /\ Restore => IInv' /\ \A f \in Lists : Content(f)' = Content(f)
<1> SUFFICES ASSUME IInv, Restore
             PROVE  IInv' /\ \A f \in Lists : Content(f)' = Content(f)
  OBVIOUS
<1>1. /\ disk' = [disk EXCEPT ![parent] = Restored(disk[parent])]
      /\ parent \in Lists /\ parent \in Files
  BY DEF Restore, Lists, Files
<1>2. \A f \in Files : disk[f] \in Slot
  BY DEF IInv, TypeOK
<1>3. /\ Restored(disk[parent]) \in Slot
      /\ Restored(disk[parent]).main = Content(parent)
      /\ Restored(disk[parent]).bak = 0
  BY <1>1, <1>2 DEF Restored, Content, Slot, Text, Absent
<1>4. /\ disk' \in [Files -> Slot]
      /\ disk'[parent] = Restored(disk[parent])
      /\ \A f \in Files \ {parent} : disk'[f] = disk[f]
  BY <1>1, <1>3, OneFile DEF IInv
<1>5. step = "idle" /\ ~downloading
  BY <1>1 DEF IInv, TypeOK, Lists
<1>6. TypeOK'
  BY <1>4, <1>5 DEF IInv, TypeOK, Restore, handler, Files
<1>7. Content(parent) \in Nat
  BY <1>1 DEF IInv, Whole, Content, Files
<1>8. Whole'
  BY <1>3, <1>4, <1>7 DEF IInv, Whole, Restore
<1>9. \A f \in Lists : Content(f)' = Content(f)
  BY <1>1, <1>3, <1>4 DEF Content, Absent, Lists, Files
<1>10. Bounded'
  BY <1>9 DEF IInv, Bounded, Restore
<1>11. Written' /\ Placed' /\ Stations'
  BY <1>5 DEF Restore, handler, Written, Placed, Stations, Before, Done
<1> QED
  BY <1>6, <1>8, <1>9, <1>10, <1>11 DEF IInv

LEMMA ChildStartInv == IInv /\ ChildStart => IInv'
<1> SUFFICES ASSUME IInv, ChildStart PROVE IInv'
  OBVIOUS
<1>1. step = "idle" /\ ~downloading
  BY DEF IInv, TypeOK, ChildStart
<1>2. TypeOK' /\ Whole' /\ Bounded'
  BY DEF IInv, TypeOK, ChildStart, handler, Whole, Bounded, Content
<1>3. Written' /\ Placed' /\ Stations'
  BY <1>1 DEF ChildStart, handler, Written, Placed, Stations, Before, Done
<1> QED
  BY <1>2, <1>3 DEF IInv

\* Either death: what is on disk stays, and nothing is under way.
LEMMA DeathInv == IInv /\ (ChildDies \/ PowerOff) => IInv'
<1> SUFFICES ASSUME IInv, ChildDies \/ PowerOff PROVE IInv'
  OBVIOUS
<1>1. UNCHANGED <<disk, asked, told>> /\ step' = "idle" /\ ~downloading'
  BY DEF ChildDies, PowerOff
<1>2. TypeOK'
  <2>1. CASE ChildDies
    <3>1. downloading' \in BOOLEAN /\ ~downloading'
      BY <2>1 DEF ChildDies
    <3>2. mem' \in Text /\ file' \in Files /\ step' \in Steps
      BY <2>1 DEF ChildDies, Text, Absent, Files, Steps
    <3> QED
      BY <2>1, <3>1, <3>2 DEF IInv, TypeOK, ChildDies
  <2>2. CASE PowerOff
    <3>1. downloading' \in BOOLEAN /\ ~downloading'
      BY <2>2 DEF PowerOff
    <3>2. kept' \in Text /\ mem' \in Text /\ file' \in Files /\ step' \in Steps
      BY <2>2 DEF PowerOff, Text, Absent, Files, Steps
    <3> QED
      BY <2>2, <3>1, <3>2 DEF IInv, TypeOK, PowerOff
  <2> QED
    BY <2>1, <2>2
<1>3. Whole' /\ Bounded'
  BY <1>1 DEF IInv, Whole, Bounded, Content, ChildDies, PowerOff, Absent
<1>4. Written' /\ Placed' /\ Stations'
  BY <1>1 DEF Written, Placed, Stations, Before, Done
<1> QED
  BY <1>2, <1>3, <1>4 DEF IInv

-----------------------------------------------------------------------------
\* A request moves one of the two counters.
LEMMA AskedOnce ==
  ASSUME TypeOK, NEW b \in Batches, Asks(b)
  PROVE  /\ asked' \in [Batches -> Nat]
         /\ asked'[b] = asked[b] + 1
         /\ \A c \in Batches \ {b} : asked'[c] = asked[c]
BY DEF TypeOK, Asks

LEMMA SaveRequestInv == IInv /\ SaveRequest => IInv'
<1> SUFFICES ASSUME IInv, SaveRequest PROVE IInv'
  OBVIOUS
<1>1. /\ asked' \in [Batches -> Nat]
      /\ asked'[Save] = asked[Save] + 1
      /\ asked'[Update] = asked[Update]
  BY AskedOnce, Names DEF IInv, SaveRequest
<1>2. step = "idle" /\ step' = "create" /\ file' = "conf" /\ child = "up"
  BY DEF SaveRequest, Free
<1>3. asked[Save] \in Nat /\ asked[Update] \in Nat
  BY Names DEF IInv, TypeOK
<1>4. TypeOK'
  <2>1. mem' \in Text /\ file' \in Files /\ step' \in Steps
    BY <1>1, <1>2, <1>3 DEF SaveRequest, Text, Files, Steps
  <2> QED
    BY <1>1, <1>2, <2>1 DEF IInv, TypeOK, SaveRequest
<1>5. Whole'
  BY <1>1, <1>3 DEF IInv, Whole, SaveRequest
<1>6. \A f \in Lists : Content(f)' = Content(f) /\ BatchOf(f)' = BatchOf(f)
  BY DEF SaveRequest, Content, BatchOf
<1>7. \A f \in Lists : Content(f) \in Nat /\ BatchOf(f) \in {Save, Update}
  BY Names DEF IInv, Whole, Content, Lists, Files
<1>8. Bounded'
  BY <1>1, <1>3, <1>6, <1>7 DEF IInv, Bounded, SaveRequest
<1>9. /\ Content("proxy")' < asked'[Save] /\ Content("direct")' < asked'[Save]
      /\ downloading => Content("rules")' < asked'[Update]
  BY <1>1, <1>3, <1>6, <1>7, Names DEF IInv, Bounded, Written, Behind, Lists
<1>10. Written' /\ Placed' /\ Stations'
  BY <1>2, <1>9, Names
  DEF SaveRequest, Written, Behind, Placed, Stations, Before, Done, Lists, BatchOf
<1> QED
  BY <1>4, <1>5, <1>8, <1>10 DEF IInv

LEMMA DownloadBeginsInv ==
  IInv /\ DownloadBegins => IInv' /\ \A f \in Lists : Content(f)' = Content(f)
<1> SUFFICES ASSUME IInv, DownloadBegins
             PROVE  IInv' /\ \A f \in Lists : Content(f)' = Content(f)
  OBVIOUS
<1>1. /\ asked' \in [Batches -> Nat]
      /\ asked'[Update] = asked[Update] + 1
      /\ asked'[Save] = asked[Save]
  BY AskedOnce, Names DEF IInv, DownloadBegins
<1>2. step = "idle" /\ step' = "idle" /\ file' = file /\ child = "up"
  BY DEF DownloadBegins, Free, handler
<1>3. asked[Save] \in Nat /\ asked[Update] \in Nat
  BY Names DEF IInv, TypeOK
<1>4. /\ disk' \in [Files -> Slot]
      /\ \A f \in Files : disk'[f].main = disk[f].main /\ disk'[f].bak = disk[f].bak
  BY DEF IInv, TypeOK, DownloadBegins, Slot, Text, Partial, Files
<1>5. TypeOK'
  <2>1. downloading' \in BOOLEAN
    BY DEF DownloadBegins
  <2> QED
    BY <1>1, <1>2, <1>4, <2>1 DEF IInv, TypeOK, DownloadBegins, processes
<1>6. Whole'
  BY <1>4 DEF IInv, Whole, DownloadBegins, processes
<1>7. \A f \in Lists : Content(f)' = Content(f) /\ BatchOf(f)' = BatchOf(f)
  BY <1>4 DEF Content, BatchOf, Lists, Files
<1>8. \A f \in Lists : Content(f) \in Nat /\ BatchOf(f) \in {Save, Update}
  BY Names DEF IInv, Whole, Content, Lists, Files
<1>9. Bounded'
  BY <1>1, <1>3, <1>7, <1>8 DEF IInv, Bounded, DownloadBegins
<1>10. Content("rules")' < asked'[Update]
  BY <1>1, <1>3, <1>7, <1>8, Names DEF IInv, Bounded, Lists
<1>11. Written' /\ Placed' /\ Stations'
  BY <1>2, <1>10, Names
  DEF Written, Behind, Placed, Stations, Before, Done, Lists, BatchOf
<1> QED
  BY <1>5, <1>6, <1>7, <1>9, <1>11 DEF IInv

LEMMA DownloadFailsInv == IInv /\ DownloadFails => IInv'
<1> SUFFICES ASSUME IInv, DownloadFails PROVE IInv'
  OBVIOUS
<1>1. step' = "idle" /\ ~downloading' /\ downloading' \in BOOLEAN
  BY DEF DownloadFails, Free, handler
<1>2. TypeOK'
  BY <1>1 DEF IInv, TypeOK, DownloadFails, processes, handler
<1>3. Whole' /\ Bounded'
  BY DEF IInv, Whole, Bounded, Content, DownloadFails, processes
<1>4. Written' /\ Placed' /\ Stations'
  BY <1>1 DEF Written, Placed, Stations, Before, Done
<1> QED
  BY <1>2, <1>3, <1>4 DEF IInv

LEMMA DownloadEndsInv ==
  IInv /\ DownloadEnds => IInv' /\ \A f \in Lists : Content(f)' = Content(f)
<1> SUFFICES ASSUME IInv, DownloadEnds
             PROVE  IInv' /\ \A f \in Lists : Content(f)' = Content(f)
  OBVIOUS
<1>1. /\ step' \in {"decode", "backup"} /\ file' = "rules" /\ "rules" \in Files
      /\ ~downloading' /\ downloading' \in BOOLEAN /\ child' = "up"
  BY DEF DownloadEnds, Free, processes, Files
<1>2. asked[Update] \in Nat
  BY Names DEF IInv, TypeOK
<1>3. /\ disk' \in [Files -> Slot]
      /\ \A f \in Files : disk'[f].main = disk[f].main /\ disk'[f].bak = disk[f].bak
      /\ disk'["rules"].tmp = asked[Update]
  BY <1>1, <1>2 DEF IInv, TypeOK, DownloadEnds, Slot, Text
<1>4. TypeOK'
  <2>1. step' \in Steps
    BY <1>1 DEF Steps
  <2>2. parent' = "up" \/ child' = "down"
    BY DEF IInv, TypeOK, DownloadEnds, processes
  <2> QED
    BY <1>1, <1>3, <2>1, <2>2 DEF IInv, TypeOK, DownloadEnds, processes
<1>5. Whole'
  BY <1>3 DEF IInv, Whole, DownloadEnds, processes
<1>6. \A f \in Lists : Content(f)' = Content(f)
  BY <1>3 DEF Content, Lists, Files
<1>7. Bounded'
  BY <1>6 DEF IInv, Bounded, DownloadEnds
<1>8. Content("rules")' < asked'[Update]
  BY <1>6, Names DEF IInv, Written, Behind, DownloadEnds, Lists
<1>9. Written'
  BY <1>1, <1>8, Names DEF Written, Behind, Before, Done, BatchOf
<1>10. Placed' /\ Stations'
  BY <1>1, <1>3, Names DEF Placed, Stations, Wanted, BatchOf, DownloadEnds
<1> QED
  BY <1>4, <1>5, <1>6, <1>7, <1>9, <1>10 DEF IInv

-----------------------------------------------------------------------------
\* A step of replacing a file: types, and whole texts in files and backups.
LEMMA Writing ==
  ASSUME IInv, child = "up", disk' \in [Files -> Slot],
         \A f \in Files : disk'[f].main \in Nat /\ disk'[f].bak \in Nat,
         step' \in Steps, file' \in Files, decoded' \in Text, told' \in [Batches -> Nat],
         UNCHANGED <<processes, downloading, asked>>
  PROVE  TypeOK' /\ Whole'
BY DEF IInv, TypeOK, Whole, processes

\* Temporary files matter to nobody else.
LEMMA Temporary ==
  ASSUME IInv, UNCHANGED <<asked, told>>,
         \A f \in Files : disk'[f].main = disk[f].main /\ disk'[f].bak = disk[f].bak
  PROVE  /\ \A f \in Files : disk'[f].main \in Nat /\ disk'[f].bak \in Nat
         /\ \A f \in Lists : Content(f)' = Content(f) /\ (Behind(f)' <=> Behind(f))
         /\ Bounded'
<1>1. \A f \in Lists : Content(f)' = Content(f) /\ BatchOf(f)' = BatchOf(f)
  BY DEF Content, BatchOf, Lists, Files
<1>2. \A f \in Files : disk'[f].main \in Nat /\ disk'[f].bak \in Nat
  BY DEF IInv, Whole
<1>3. Bounded'
  BY <1>1 DEF IInv, Bounded
<1>4. \A f \in Lists : Behind(f)' <=> Behind(f)
  BY <1>1 DEF Behind
<1> QED
  BY <1>1, <1>2, <1>3, <1>4

LEMMA DecodeRulesInv ==
  IInv /\ DecodeRules => IInv' /\ \A f \in Lists : Content(f)' = Content(f)
<1> SUFFICES ASSUME IInv, DecodeRules
             PROVE  IInv' /\ \A f \in Lists : Content(f)' = Content(f)
  OBVIOUS
<1>1. /\ child = "up" /\ file = "rules" /\ file' = "rules" /\ "rules" \in Files
      /\ "rules" \in Lists
      /\ step \in {"decode", "decoded", "drop", "take"}
      /\ step' \in {"decoded", "drop", "take", "backup"}
      /\ UNCHANGED <<processes, downloading, asked, told>>
  BY DEF DecodeRules, Goes, Files, Lists
<1>2. asked[Update] \in Nat /\ disk["rules"] \in Slot /\ decoded \in Text
  BY <1>1, Names DEF IInv, TypeOK
<1>3. /\ disk' \in [Files -> Slot] /\ decoded' \in Text
      /\ \A f \in Files : disk'[f].main = disk[f].main /\ disk'[f].bak = disk[f].bak
  BY <1>1, <1>2 DEF DecodeRules, IInv, TypeOK, Slot, Text, Partial, Absent
<1>4. /\ step' = "decoded" => disk'["rules"].tmp = asked[Update]
      /\ step' \in {"drop", "take"} => decoded' = asked[Update]
      /\ step' = "backup" => disk'["rules"].tmp = asked[Update]
  BY <1>1, <1>2 DEF DecodeRules, Goes, IInv, TypeOK, Placed, Slot
<1>5. TypeOK' /\ Whole'
  <2>1. step' \in Steps /\ told' \in [Batches -> Nat]
    BY <1>1 DEF Steps, IInv, TypeOK
  <2> QED
    BY <1>1, <1>3, <2>1, Temporary, Writing
<1>6. Behind("rules")'
  BY <1>1, <1>3, Temporary DEF IInv, Written, Before
<1>7. Written'
  BY <1>1, <1>6 DEF Written, Before, Done
<1>8. Placed' /\ Stations'
  BY <1>1, <1>4, Names DEF Placed, Stations, Wanted, BatchOf, IInv
<1> QED
  BY <1>1, <1>3, <1>5, <1>7, <1>8, Temporary DEF IInv

\* Create and Fill write the temporary file only.
LEMMA FillInv ==
  ASSUME IInv, NEW f \in Files, Create(f) \/ Fill(f)
  PROVE  IInv' /\ \A g \in Lists : Content(g)' = Content(g)
<1>1. /\ child = "up" /\ file = f /\ file' = f
      /\ step \in {"create", "fill"} /\ step' \in {"fill", "backup"}
      /\ step' = "backup" => Fill(f)
      /\ UNCHANGED <<processes, downloading, asked, told, decoded>>
  BY DEF Create, Fill, Goes
<1>2. /\ asked[Save] \in Nat /\ mem \in Text /\ disk[f] \in Slot
      /\ f # "rules" /\ BatchOf(f) = Save
  BY <1>1, Names DEF IInv, TypeOK, Stations, Files
<1>3. /\ disk' \in [Files -> Slot]
      /\ \A g \in Files : disk'[g].main = disk[g].main /\ disk'[g].bak = disk[g].bak
      /\ step' = "backup" => disk'[f].tmp = IF f = "conf" THEN mem ELSE asked[Save]
  <2>1. CASE Create(f)
    BY <1>1, <1>2, <2>1 DEF Create, Goes, IInv, TypeOK, Slot, Text, Partial
  <2>2. CASE Fill(f)
    BY <1>1, <1>2, <2>2 DEF Fill, IInv, TypeOK, Slot, Text
  <2> QED
    BY <2>1, <2>2
<1>4. TypeOK' /\ Whole'
  <2>1. step' \in Steps /\ told' \in [Batches -> Nat] /\ decoded' \in Text
    BY <1>1 DEF Steps, IInv, TypeOK
  <2> QED
    BY <1>1, <1>3, <2>1, Temporary, Writing
<1>5. \A g \in Lists : Content(g)' = Content(g) /\ (Behind(g)' <=> Behind(g))
  BY <1>1, <1>3, Temporary
<1>6. Written'
  BY <1>1, <1>2, <1>5 DEF IInv, Written, Before, Done, Lists
<1>7. Placed' /\ Stations'
  BY <1>1, <1>2, <1>3, Names DEF Placed, Stations, Wanted, BatchOf, processes
<1> QED
  BY <1>1, <1>3, <1>4, <1>5, <1>6, <1>7, Temporary DEF IInv

LEMMA BackupInv ==
  ASSUME IInv, NEW f \in Files, Backup(f)
  PROVE  IInv' /\ \A g \in Lists : Content(g)' = Content(g)
<1>1. /\ child = "up" /\ file = f /\ file' = f /\ step = "backup" /\ step' = "swap"
      /\ UNCHANGED <<processes, downloading, asked, told, decoded>>
  BY DEF Backup, Goes
<1>2. disk[f] \in Slot
  BY DEF IInv, TypeOK
<1>3. /\ disk' \in [Files -> Slot]
      /\ \A g \in Files \ {f} : disk'[g] = disk[g]
      /\ disk'[f].main = Absent /\ disk'[f].tmp = disk[f].tmp
      /\ disk'[f].bak = IF disk[f].main = Absent THEN disk[f].bak ELSE disk[f].main
  <2>1. CASE disk[f].main = Absent
    BY <2>1 DEF Backup, IInv, TypeOK
  <2>2. CASE disk[f].main # Absent
    <3>1. [main |-> Absent, tmp |-> disk[f].tmp, bak |-> disk[f].main] \in Slot
      BY <1>2 DEF Slot, Text, Absent
    <3>2. disk' = [disk EXCEPT ![f] = [main |-> Absent, tmp |-> disk[f].tmp, bak |-> disk[f].main]]
      BY <2>2 DEF Backup
    <3> QED
      BY <2>2, <3>1, <3>2, OneFile DEF IInv
  <2> QED
    BY <2>1, <2>2
<1>4. TypeOK' /\ Whole'
  <2>1. step' \in Steps /\ told' \in [Batches -> Nat] /\ decoded' \in Text
    BY <1>1 DEF Steps, IInv, TypeOK
  <2>2. \A g \in Files : disk'[g].main \in Nat /\ disk'[g].bak \in Nat
    BY <1>3 DEF IInv, Whole, Absent
  <2> QED
    BY <1>1, <1>3, <2>1, <2>2, Writing
<1>5. \A g \in Lists : Content(g)' = Content(g) /\ (Behind(g)' <=> Behind(g))
  <2>1. \A g \in Lists : Content(g)' = Content(g)
    BY <1>3 DEF Content, Lists, Files
  <2> QED
    BY <1>1, <2>1 DEF Behind, BatchOf
<1>6. Bounded'
  BY <1>1, <1>5 DEF IInv, Bounded, BatchOf
<1>7. Written'
  BY <1>1, <1>5 DEF IInv, Written, Before, Done, Lists
<1>8. Placed' /\ Stations'
  BY <1>1, <1>3 DEF IInv, Placed, Stations, Wanted, BatchOf, processes
<1> QED
  BY <1>4, <1>5, <1>6, <1>7, <1>8 DEF IInv

\* The only step that changes what a file holds.
LEMMA SwapInv ==
  ASSUME IInv, NEW f \in Files, Swap(f)
  PROVE  /\ IInv'
         /\ \A g \in Lists \ {f} : Content(g)' = Content(g)
         /\ f \in Lists => Behind(f) /\ Content(f)' = asked[BatchOf(f)]
<1>1. /\ child = "up" /\ file = f /\ file' = f /\ step = "swap" /\ step' = "clean"
      /\ UNCHANGED <<processes, downloading, asked, told, decoded>>
  BY DEF Swap, Goes
<1>2. /\ disk[f] \in Slot /\ disk[f].tmp = Wanted(f) /\ Wanted(f) \in Nat
      /\ BatchOf(f) \in {Save, Update} /\ asked[BatchOf(f)] \in Nat
  BY <1>1, Names DEF IInv, TypeOK, Whole, Placed, Wanted, Files
<1>3. /\ disk' \in [Files -> Slot]
      /\ \A g \in Files \ {f} : disk'[g] = disk[g]
      /\ disk'[f].main = Wanted(f) /\ disk'[f].bak = disk[f].bak
  <2>1. [main |-> disk[f].tmp, tmp |-> Absent, bak |-> disk[f].bak] \in Slot
    BY <1>2 DEF Slot, Text, Absent
  <2>2. disk' = [disk EXCEPT ![f] = [main |-> disk[f].tmp, tmp |-> Absent, bak |-> disk[f].bak]]
    BY DEF Swap
  <2> QED
    BY <1>2, <2>1, <2>2, OneFile DEF IInv
<1>4. TypeOK' /\ Whole'
  <2>1. step' \in Steps /\ told' \in [Batches -> Nat] /\ decoded' \in Text
    BY <1>1 DEF Steps, IInv, TypeOK
  <2>2. \A g \in Files : disk'[g].main \in Nat /\ disk'[g].bak \in Nat
    BY <1>2, <1>3 DEF IInv, Whole
  <2> QED
    BY <1>1, <1>3, <2>1, <2>2, Writing
<1>5. \A g \in Lists \ {f} : Content(g)' = Content(g) /\ (Behind(g)' <=> Behind(g))
  <2>1. \A g \in Lists \ {f} : Content(g)' = Content(g)
    BY <1>3 DEF Content, Lists, Files
  <2> QED
    BY <1>1, <2>1 DEF Behind, BatchOf
<1>6. f \in Lists => /\ Behind(f) /\ Content(f) \in Nat /\ asked[BatchOf(f)] > 0
                     /\ disk'[f].main = asked[BatchOf(f)]
                     /\ Content(f)' = asked[BatchOf(f)]
  <2> SUFFICES ASSUME f \in Lists
               PROVE  /\ Behind(f) /\ Content(f) \in Nat /\ asked[BatchOf(f)] > 0
                      /\ disk'[f].main = asked[BatchOf(f)]
                      /\ Content(f)' = asked[BatchOf(f)]
    OBVIOUS
  <2>1. Behind(f) /\ Content(f) \in Nat
    BY <1>1 DEF IInv, Written, Before, Whole, Content
  <2>2. asked[BatchOf(f)] > 0
    BY <1>2, <2>1 DEF Behind
  <2>3. disk'[f].main = asked[BatchOf(f)]
    BY <1>3 DEF Wanted, Lists
  <2> QED
    BY <2>1, <2>2, <2>3 DEF Content, Absent
<1>7. Bounded'
  <2>1. \A g \in Lists : BatchOf(g)' = BatchOf(g) /\ told[BatchOf(g)] \in Nat
    BY Names DEF BatchOf, Lists, Files, IInv, TypeOK
  <2>2. \A g \in Lists : told[BatchOf(g)] <= Content(g) /\ Content(g) <= asked[BatchOf(g)]
    BY DEF IInv, Bounded
  <2>3. f \in Lists => Content(f) < asked[BatchOf(f)]
    BY <1>6 DEF Behind
  <2>4. \A g \in Lists : told[BatchOf(g)] <= Content(g)' /\ Content(g)' <= asked[BatchOf(g)]
    BY <1>2, <1>5, <1>6, <2>1, <2>2, <2>3
  <2> QED
    BY <1>1, <2>1, <2>4 DEF Bounded
<1>8. Written'
  <2>1. /\ file' \in Lists => /\ disk'[file'].main = asked'[BatchOf(file')]
                             /\ asked'[BatchOf(file')] > 0
    BY <1>1, <1>6
  <2>2. CASE f = "conf"
    BY <1>1, <1>5, <2>1, <2>2 DEF IInv, Written, Before, Done, Lists, BatchOf
  <2>3. CASE f \in Lists
    <3>1. f = "proxy" => Behind("direct")'
      BY <1>1, <1>5 DEF IInv, Written, Lists
    <3>2. f = "direct" => Content("proxy")' = asked[Save]
      BY <1>1, <1>5 DEF IInv, Written, Lists
    <3>3. downloading => f # "rules" /\ Behind("rules")'
      BY <1>1, <1>5 DEF IInv, Written, Stations, Lists
    <3> QED
      BY <1>1, <2>1, <2>3, <3>1, <3>2, <3>3 DEF Written, Before, Done, BatchOf, Lists
  <2> QED
    BY <2>2, <2>3 DEF Files, Lists
<1>9. Placed' /\ Stations'
  BY <1>1 DEF IInv, Placed, Stations
<1> QED
  BY <1>4, <1>5, <1>6, <1>7, <1>8, <1>9 DEF IInv

LEMMA CleanInv ==
  ASSUME IInv, NEW f \in Files, Clean(f)
  PROVE  IInv' /\ \A g \in Lists : Content(g)' = Content(g)
<1>1. /\ child = "up" /\ file = f /\ step = "clean"
      /\ UNCHANGED <<processes, downloading, asked, told, decoded>>
      /\ f = "conf" => file' = "proxy" /\ step' = "create"
      /\ f = "proxy" => file' = "direct" /\ step' = "create"
      /\ f \in {"direct", "rules"} => file' = f /\ step' = "answer"
  BY DEF Clean
<1>2. file' \in Files /\ step' \in {"create", "answer"}
  BY <1>1 DEF Files
<1>3. /\ disk' \in [Files -> Slot]
      /\ \A g \in Files \ {f} : disk'[g] = disk[g]
      /\ disk'[f].main = disk[f].main /\ disk'[f].bak = Absent
  BY DEF Clean, IInv, TypeOK, Slot, Text, Absent
<1>4. TypeOK' /\ Whole'
  <2>1. step' \in Steps /\ told' \in [Batches -> Nat] /\ decoded' \in Text
    BY <1>1, <1>2 DEF Steps, IInv, TypeOK
  <2>2. \A g \in Files : disk'[g].main \in Nat /\ disk'[g].bak \in Nat
    BY <1>3 DEF IInv, Whole, Absent
  <2> QED
    BY <1>1, <1>2, <1>3, <2>1, <2>2, Writing
<1>5. f \in Lists => disk[f].main = asked[BatchOf(f)] /\ asked[BatchOf(f)] > 0
                     /\ Content(f) = asked[BatchOf(f)]
  BY <1>1 DEF IInv, Written, Before, Done, Content, Absent
<1>6. \A g \in Lists : Content(g)' = Content(g) /\ (Behind(g)' <=> Behind(g))
  <2>1. \A g \in Lists : Content(g)' = Content(g)
    BY <1>3, <1>5 DEF Content, Lists, Files, Absent
  <2> QED
    BY <1>1, <2>1 DEF Behind, BatchOf
<1>7. Bounded'
  BY <1>1, <1>6 DEF IInv, Bounded, BatchOf
<1>8. Written'
  <2>1. CASE f = "conf"
    BY <1>1, <1>6, <2>1 DEF IInv, Written, Before, Done, Lists
  <2>2. CASE f = "proxy"
    BY <1>1, <1>5, <1>6, <2>2, Names DEF IInv, Written, Before, Done, Lists
  <2>3. CASE f \in {"direct", "rules"}
    BY <1>1, <1>3, <1>5, <1>6, <2>3, Names DEF IInv, Written, Before, Done, Lists, BatchOf
  <2> QED
    BY <2>1, <2>2, <2>3 DEF Files
<1>9. Placed' /\ Stations'
  BY <1>1, <1>2 DEF IInv, Placed, Stations, Files
<1> QED
  BY <1>4, <1>6, <1>7, <1>8, <1>9 DEF IInv

LEMMA AnswerInv ==
  ASSUME IInv, NEW f \in Files, Answer(f)
  PROVE  /\ IInv'
         /\ \A g \in Lists : BatchOf(g) = BatchOf(f) => Content(g) = asked[BatchOf(f)]
<1>1. /\ file = f /\ file' = f /\ step = "answer" /\ step' = "idle"
      /\ UNCHANGED <<disk, decoded, processes, downloading, asked>>
      /\ told' = [told EXCEPT ![BatchOf(f)] = asked[BatchOf(f)]]
      /\ f \in {"direct", "rules"} /\ child = "up"
  BY DEF Answer, Goes, IInv, Stations
<1>2. Content(f) = asked[BatchOf(f)]
  BY <1>1 DEF IInv, Written, Before, Done, Content, Absent, Lists
<1>3. \A g \in Lists : BatchOf(g) = BatchOf(f) => Content(g) = asked[BatchOf(f)]
  BY <1>1, <1>2, Names DEF IInv, Written, Lists
<1>4. BatchOf(f) \in Batches /\ \A g \in Lists : BatchOf(g) \in Batches
  BY Names DEF Lists, Files
<1>5. told' \in [Batches -> Nat] /\ told'[BatchOf(f)] = asked[BatchOf(f)]
      /\ \A b \in Batches \ {BatchOf(f)} : told'[b] = told[b]
  BY <1>1, <1>4 DEF IInv, TypeOK
<1>6. TypeOK' /\ Whole'
  <2>1. step' \in Steps /\ file' \in Files
    BY <1>1 DEF Steps, Files
  <2> QED
    BY <1>1, <1>5, <2>1, Writing DEF IInv, TypeOK, Whole
<1>7. \A g \in Lists : Content(g)' = Content(g) /\ (Behind(g)' <=> Behind(g))
  BY <1>1 DEF Content, Behind, BatchOf
<1>8. Bounded'
  <2>1. \A g \in Lists : asked[BatchOf(g)] \in Nat /\ BatchOf(g)' = BatchOf(g)
    BY <1>4 DEF IInv, TypeOK, BatchOf
  <2> QED
    BY <1>1, <1>3, <1>4, <1>5, <1>7, <2>1 DEF IInv, Bounded
<1>9. Written' /\ Placed' /\ Stations'
  BY <1>1, <1>7 DEF IInv, Written, Before, Done, Placed, Stations, Lists
<1> QED
  BY <1>3, <1>6, <1>8, <1>9 DEF IInv

-----------------------------------------------------------------------------
LEMMA NextInv == IInv /\ [Next]_vars => IInv'
<1> SUFFICES ASSUME IInv, [Next]_vars PROVE IInv'
  OBVIOUS
<1>1. CASE Replace
  BY <1>1, DecodeRulesInv, FillInv, BackupInv, SwapInv, CleanInv, AnswerInv DEF Replace
<1>2. CASE UNCHANGED vars
  BY <1>2 DEF vars, processes, handler, IInv, TypeOK, Whole, Bounded, Written, Placed,
              Stations, Behind, Content, Wanted, BatchOf
<1>3. CASE Next /\ ~Replace
  BY <1>3, DaemonStartInv, OpenIniInv, RestoreInv, ChildStartInv, DeathInv, SaveRequestInv,
     DownloadBeginsInv, DownloadFailsInv, DownloadEndsInv DEF Next
<1> QED
  BY <1>1, <1>2, <1>3

LEMMA Invariance == Spec => []IInv
<1> QED
  BY InitInv, NextInv, PTL DEF Spec

\* The fields keep their types; no process that is down is in the middle of
\* anything.
THEOREM TypeCorrect == Spec => []TypeOK
<1>1. IInv => TypeOK
  BY DEF IInv
<1> QED
  BY <1>1, Invariance, PTL

\* No file that the code reads, and no backup that it may restore, ever holds half
\* a text (the renames of _saveFile, IniFile::save and _updateRulesFile).
THEOREM NeverHalf == Spec => []WholeFiles
<1>1. IInv => WholeFiles
  BY DEF IInv, Whole, WholeFiles, Partial
<1> QED
  BY <1>1, Invariance, PTL

-----------------------------------------------------------------------------
LEMMA Members ==
  /\ Len(Save) = 2 /\ Save[1] = "proxy" /\ Save[2] = "direct"
  /\ Len(Update) = 1 /\ Update[1] = "rules"
BY DEF Save, Update

\* What was acknowledged is in the file or, until the daemon restores it, in its
\* backup (_restoreFile).
THEOREM NothingLost == Spec => []AcknowledgedKept
<1>1. IInv => AcknowledgedKept
  <2> SUFFICES ASSUME IInv, NEW b \in Batches, NEW i \in 1..Len(b)
               PROVE  Content(b[i]) >= told[b]
    BY DEF AcknowledgedKept
  <2>1. b[i] \in Lists /\ BatchOf(b[i]) = b
    BY Names, Members DEF Lists
  <2>2. told[b] <= Content(b[i]) /\ told[b] \in Nat
    BY <2>1 DEF IInv, Bounded, TypeOK
  <2>3. Content(b[i]) \in Nat
    BY <2>1 DEF IInv, Whole, Content, Lists, Files
  <2> QED
    BY <2>2, <2>3
<1> QED
  BY <1>1, Invariance, PTL

-----------------------------------------------------------------------------
(* The refinement.                                                          *)

stored == [f \in {"proxy", "direct", "rules"} |-> Content(f)]

LEMMA StoreMembers ==
  /\ Abstract!StoreFiles = Lists
  /\ Abstract!Members(Save) = {"proxy", "direct"}
  /\ Abstract!Members(Update) = {"rules"}
<1>1. Abstract!Members(Save) = {"proxy", "direct"}
  BY Members DEF Abstract!Members
<1>2. Abstract!Members(Update) = {"rules"}
  BY Members DEF Abstract!Members
<1> QED
  BY <1>1, <1>2, Names DEF Abstract!StoreFiles, Lists

LEMMA AbstractInit == Init => Abstract!Init
<1> SUFFICES ASSUME Init PROVE Abstract!Init
  OBVIOUS
<1>1. \A f \in Lists : Content(f) = 0
  BY DEF Init, Content, Lists, Files, Absent
<1> QED
  BY <1>1, StoreMembers DEF Init, Abstract!Init, Lists

LEMMA Unnoticed ==
  ASSUME \A f \in Lists : Content(f)' = Content(f), UNCHANGED <<asked, told>>
  PROVE  UNCHANGED Abstract!vars
BY DEF Abstract!vars, Lists

LEMMA SwapPuts ==
  ASSUME IInv, NEW f \in Files, Swap(f)
  PROVE  [Abstract!Next]_(Abstract!vars)
<1>1. /\ file = f /\ step = "swap" /\ UNCHANGED <<asked, told>>
      /\ \A g \in Lists \ {f} : Content(g)' = Content(g)
  BY SwapInv DEF Swap, Goes
<1>2. CASE f = "conf"
  BY <1>1, <1>2, Unnoticed DEF Lists
<1>3. ASSUME f \in Lists, NEW b \in Batches, NEW i \in 1..Len(b), b[i] = f, b = BatchOf(f),
             \A j \in 1..(i - 1) : b[j] \in Lists /\ Content(b[j]) = asked[b]
      PROVE  Abstract!Next
  <2>1. Content(f) < asked[b] /\ Content(f)' = asked[b]
    BY <1>3, SwapInv DEF Behind
  <2>2. stored' = [stored EXCEPT ![f] = asked[b]]
    BY <1>1, <1>3, <2>1 DEF stored, Lists
  <2>3. \A j \in 1..(i - 1) : stored[b[j]] = asked[b]
    BY <1>3 DEF stored, Lists
  <2>4. stored[b[i]] < asked[b]
    BY <1>3, <2>1 DEF stored, Lists
  <2>5. Abstract!Put(b, i)
    BY <1>1, <1>3, <2>2, <2>3, <2>4 DEF Abstract!Put, stored
  <2> QED
    BY <2>5 DEF Abstract!Next
<1>4. CASE f = "proxy"
  BY <1>3, <1>4, Names, Members DEF Lists
<1>5. CASE f = "direct"
  <2>1. Content("proxy") = asked[Save]
    BY <1>1, <1>5 DEF IInv, Written
  <2>2. /\ Save \in Batches /\ 2 \in 1..Len(Save) /\ Save[2] = f /\ Save = BatchOf(f)
        /\ Save[1] = "proxy"
    BY <1>5, Names, Members
  <2>3. \A j \in 1..(2 - 1) : Save[j] \in Lists /\ Content(Save[j]) = asked[Save]
    <3>1. \A j \in 1..(2 - 1) : j = 1
      OBVIOUS
    <3> QED BY <2>1, <2>2, <3>1 DEF Lists
  <2>4. f \in Lists
    BY <1>5 DEF Lists
  <2> QED
    BY <1>3, <2>2, <2>3, <2>4, Zenon
<1>6. CASE f = "rules"
  BY <1>3, <1>6, Names, Members DEF Lists
<1> QED
  BY <1>2, <1>4, <1>5, <1>6 DEF Files

LEMMA AnswerTells ==
  ASSUME IInv, NEW f \in Files, Answer(f)
  PROVE  Abstract!Next
<1>1. /\ UNCHANGED <<disk, asked>> /\ f \in {"direct", "rules"}
      /\ told' = [told EXCEPT ![BatchOf(f)] = asked[BatchOf(f)]]
      /\ \A g \in Lists : BatchOf(g) = BatchOf(f) => Content(g) = asked[BatchOf(f)]
  BY AnswerInv DEF Answer, Goes, IInv, Stations
<1>2. stored' = stored
  BY <1>1 DEF stored, Content
<1>3. \A g \in Abstract!Members(BatchOf(f)) : stored[g] = asked[BatchOf(f)]
  BY <1>1, StoreMembers, Names DEF stored, Lists
<1>4. Abstract!Tell(BatchOf(f))
  BY <1>1, <1>2, <1>3 DEF Abstract!Tell, stored
<1> QED
  BY <1>1, <1>4, Names DEF Abstract!Next

LEMMA RequestAsks ==
  ASSUME IInv, SaveRequest \/ DownloadBegins
  PROVE  Abstract!Next
<1>1. PICK b \in Batches : asked' = [asked EXCEPT ![b] = asked[b] + 1]
  BY Names DEF SaveRequest, DownloadBegins, Asks
<1>2. told' = told
  BY DEF SaveRequest, DownloadBegins
<1>3. \A f \in Lists : Content(f)' = Content(f)
  <2>1. CASE SaveRequest
    BY <2>1 DEF SaveRequest, Content
  <2> QED
    BY <2>1, DownloadBeginsInv
<1>4. stored' = stored
  BY <1>3 DEF stored, Lists
<1>5. Abstract!Ask(b)
  BY <1>1, <1>2, <1>4 DEF Abstract!Ask, stored
<1> QED
  BY <1>5 DEF Abstract!Next

LEMMA AbstractNext == IInv /\ [Next]_vars => [Abstract!Next]_(Abstract!vars)
<1> SUFFICES ASSUME IInv, [Next]_vars PROVE [Abstract!Next]_(Abstract!vars)
  OBVIOUS
<1>1. CASE UNCHANGED vars
  <2>1. UNCHANGED <<disk, asked, told>>
    BY <1>1 DEF vars
  <2> QED
    BY <2>1, Unnoticed DEF Content
<1>2. CASE DaemonStart \/ ChildStart \/ ChildDies \/ PowerOff \/ DownloadFails
  <2>1. UNCHANGED <<disk, asked, told>>
    BY <1>2 DEF DaemonStart, ChildStart, ChildDies, PowerOff, DownloadFails
  <2> QED
    BY <2>1, Unnoticed DEF Content
<1>3. CASE OpenIni
  <2>1. \A f \in Lists : disk'[f] = disk[f]
    BY <1>3 DEF OpenIni, Lists, Files, IInv, TypeOK
  <2> QED
    BY <1>3, <2>1, Unnoticed DEF OpenIni, Content
<1>4. CASE Restore \/ DownloadEnds
  BY <1>4, RestoreInv, DownloadEndsInv, Unnoticed DEF Restore, DownloadEnds
<1>5. CASE SaveRequest \/ DownloadBegins
  BY <1>5, RequestAsks
<1>6. CASE DecodeRules
  BY <1>6, DecodeRulesInv, Unnoticed DEF DecodeRules, Goes
<1>7. ASSUME NEW f \in Files, Create(f) \/ Fill(f) \/ Backup(f) \/ Clean(f)
      PROVE  UNCHANGED Abstract!vars
  <2>1. UNCHANGED <<asked, told>>
    BY <1>7 DEF Create, Fill, Backup, Clean, Goes
  <2>2. \A g \in Lists : Content(g)' = Content(g)
    BY <1>7, FillInv, BackupInv, CleanInv
  <2> QED
    BY <2>1, <2>2, Unnoticed
<1>8. CASE \E f \in Files : Swap(f) \/ Answer(f)
  BY <1>8, SwapPuts, AnswerTells
<1> QED
  BY <1>1, <1>2, <1>3, <1>4, <1>5, <1>6, <1>7, <1>8 DEF Next, Replace

\* Through every death and restart the lists and the rules are a store that loses
\* nothing: each text is replaced by a later one, whole, and in order.
THEOREM Implementation == Spec => ImplementsStore
<1> QED
  BY AbstractInit, AbstractNext, Invariance, PTL DEF Spec, ImplementsStore, Abstract!Spec
=============================================================================
