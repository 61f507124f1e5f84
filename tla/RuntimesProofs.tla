--------------------------- MODULE RuntimesProofs ---------------------------
(***************************************************************************)
(* What managed runtimes keep, for any number of installs, removals and    *)
(* crashes.                                                                *)
(***************************************************************************)
EXTENDS JavaRuntimesProperties, TLAPS

Phases  == {"idle", "ended", "killed"} \cup Live
Done    == {"ending", "leaving", "ended", "killed"}
Old(i)  == <<"old", i>>
Excused == pulled \cup {feature[i] : i \in hit}

Typed ==
  /\ phase \in [Installs -> Phases]
  /\ feature \in [Installs -> Features]
  /\ sound \subseteq Installs
  /\ temp \subseteq Names
  /\ leftovers \in [Installs -> SUBSET Names]
  /\ home \in [Features -> Runtimes \cup {None}]
  /\ aside \in [Installs -> Runtimes \cup {None}]
  /\ staged \subseteq Installs /\ torn \subseteq Runtimes
  /\ removal \in [Features -> {"none", "sent", "deleting"}]
  /\ removals \in Nat /\ crashes \in Nat
  /\ hit \subseteq Installs
  /\ had \subseteq Features /\ cut \subseteq Features
  /\ pulled \subseteq Features

\* The set holds the releases of the installs inside, one each.
Locked == installing = {feature[i] : i \in Running} /\ OneInstallPerRelease

\* A runtime is in one place: staged, in its release's place, or under the old
\* name of the install that moved it.
Placed ==
  /\ \A f \in Features : home[f] \in Installs =>
       /\ home[f] \in sound /\ feature[home[f]] = f
       /\ phase[home[f]] \in Done /\ home[f] \notin staged
  /\ \A i \in Installs : aside[i] \in Installs =>
       /\ aside[i] \in sound /\ feature[aside[i]] = feature[i]
       /\ phase[aside[i]] \in Done /\ aside[i] \notin staged
  /\ \A i \in Installs :
       /\ phase[i] \in {"swap", "swapped"} => i \in sound
       /\ phase[i] = "idle" => i \notin staged /\ Old(i) \notin temp

Apart ==
  /\ \A i \in Installs : Old(i) \in temp =>
       aside[i] # None /\ (aside[i] \in Installs => home[feature[i]] # aside[i])
  /\ \A i, j \in Installs :
       Old(i) \in temp /\ Old(j) \in temp /\ aside[i] = aside[j]
         /\ aside[i] \in Installs => i = j

\* A runtime that is being taken apart was removed, or swept under an install.
Torn ==
  /\ \A f \in Features : home[f] \in Installs /\ home[f] \in torn
       => f \in Excused
  /\ \A i \in Installs :
       phase[i] \in Working \cup {"idle"} /\ i \in torn => i \in hit
  /\ \A i \in Running : Old(i) \in temp /\ aside[i] \in Installs
       /\ aside[i] \in torn => feature[i] \in Excused

\* Where a release has gone.
Missed ==
  /\ PreviousIsKept
  /\ \A f \in Features : removal[f] = "deleting" => f \in pulled
  /\ \A i \in Installs : phase[i] = "swapped" /\ Old(i) \notin temp
       /\ feature[i] \in had => feature[i] \in Excused \cup cut

IInv == Typed /\ Locked /\ Placed /\ Apart /\ Torn /\ Missed

-----------------------------------------------------------------------------
LEMMA Numbers ==
  /\ None \notin Runtimes /\ None \notin Installs /\ Found \notin Installs
  /\ Found # None /\ Installs \subseteq Runtimes
  BY BoundAssumption DEF None, Runtimes, Installs, Found

LEMMA InitIInv == Init => IInv
<1> SUFFICES ASSUME Init PROVE IInv
  OBVIOUS
<1>1. \A f \in Features : home[f] \in {Found, None}
  BY Numbers DEF Init
<1>2. feature \in [Installs -> Features]
  BY RequestAssumption DEF Init, Installs
<1>3. Typed
  BY <1>1, <1>2, Numbers DEF Init, Typed, Phases, Runtimes
<1>4. Running = {}
  BY DEF Init, Running, Live, Working
<1>5. Locked
  BY <1>4 DEF Init, Locked, OneInstallPerRelease
<1>6. Placed /\ Apart
  BY <1>1, Numbers DEF Init, Placed, Apart
<1>7. Torn
  BY <1>1, <1>4, Numbers DEF Init, Torn
<1>8. Missed
  BY <1>1 DEF Init, Missed, PreviousIsKept
<1>9. QED BY <1>3, <1>5, <1>6, <1>7, <1>8 DEF IInv
-----------------------------------------------------------------------------
(* The steps of an install *)

LEMMA RunningAfter ==
  ASSUME Typed, NEW i \in Installs, NEW p \in Phases, At(i, p)
  PROVE  /\ Running' = IF p \in Live THEN Running \cup {i} ELSE Running \ {i}
         /\ phase'[i] = p
         /\ \A j \in Installs : j # i => phase'[j] = phase[j]
  BY DEF Typed, At, Running

LEMMA StaysLocked ==
  ASSUME IInv, NEW i \in Installs, NEW p \in Phases, At(i, p),
         phase[i] \in Live <=> p \in Live, UNCHANGED <<installing, feature>>
  PROVE  Locked'
<1>1. Running' = Running
  BY RunningAfter DEF IInv, Running
<1>2. QED BY <1>1 DEF IInv, Locked, OneInstallPerRelease

\* A step that moves no runtime into or out of a place, and takes no name that
\* a swap under way relies on.
LEMMA Quiet ==
  ASSUME IInv, NEW i \in Installs, NEW p \in Phases, At(i, p),
         UNCHANGED <<home, aside, torn, removing, history, feature, sound>>,
         staged' \subseteq staged \cup {i},
         i \in staged' => i \in staged \/ phase[i] \notin Done,
         \A j \in Installs :
           /\ Old(j) \in temp' => Old(j) \in temp
           /\ Old(j) \in temp /\ phase[j] = "swapped" => Old(j) \in temp',
         phase[i] # "swapped", p \notin {"idle", "swapped"},
         phase[i] \in Done => p \in Done,
         p = "swap" => i \in sound,
         p \in Working => phase[i] \in Working \cup {"idle"},
         p \in Live => phase[i] \in Live \cup {"idle"}
  PROVE  (Placed /\ Apart /\ Torn /\ Missed)'
<1> USE DEF IInv
<1>1. /\ phase'[i] = p
      /\ \A j \in Installs : j # i => phase'[j] = phase[j]
      /\ \A j \in Running' : j \in Running \/ (j = i /\ phase[i] = "idle")
      /\ \A j \in Running : phase[j] = "swapped" => j \in Running'
  BY RunningAfter DEF Running
<1>2. Placed'
  BY <1>1 DEF Placed, Typed
<1>3. Apart'
  BY DEF Apart
<1>4. Torn'
  <2>1. Excused' = Excused
    BY DEF Excused, history
  <2>2. \A j \in Running' : Old(j) \in temp' => j \in Running
    BY <1>1 DEF Placed
  <2>3. \A f \in Features : home'[f] \in Installs /\ home'[f] \in torn'
          => f \in Excused'
    BY <2>1 DEF Torn
  <2>4. ASSUME NEW j \in Installs, phase'[j] \in Working \cup {"idle"},
               j \in torn
        PROVE  j \in hit
    <3>1. phase[j] \in Working \cup {"idle"}
      BY <1>1, <2>4
    <3>2. QED BY <2>4, <3>1 DEF Torn
  <2>5. \A j \in Running' : Old(j) \in temp' /\ aside'[j] \in Installs
          /\ aside'[j] \in torn' => feature'[j] \in Excused'
    BY <2>1, <2>2 DEF Torn, Running
  <2>6. QED BY <2>3, <2>4, <2>5 DEF Torn, history
<1>5. Missed'
  <2>1. Excused' = Excused
    BY DEF Excused, history
  <2>2. PreviousIsKept'
    <3> SUFFICES ASSUME NEW f \in had, home[f] = None
                 PROVE  \/ \E j \in Running' :
                             feature[j] = f /\ phase'[j] = "swapped"
                        \/ f \in pulled \cup cut \cup {feature[j] : j \in hit}
      BY DEF PreviousIsKept, history
    <3>1. CASE \E j \in Running : feature[j] = f /\ phase[j] = "swapped"
      BY <1>1, <3>1 DEF Running
    <3>2. CASE f \in pulled \cup cut \cup {feature[j] : j \in hit}
      BY <3>2
    <3>3. QED BY <3>1, <3>2 DEF Missed, PreviousIsKept
  <2>3. QED BY <1>1, <2>1, <2>2 DEF Missed, history, removing
<1>6. QED BY <1>2, <1>3, <1>4, <1>5

LEMMA EntersKeeps ==
  ASSUME IInv, NEW i \in Installs, Enters(i)
  PROVE  IInv'
<1> USE DEF IInv
<1>1. "entered" \in Phases /\ "entered" \in Working /\ "entered" \in Live
  BY DEF Phases, Live, Working
<1>2. At(i, "entered") /\ phase[i] = "idle"
  BY DEF Enters
<1>3. Typed'
  BY <1>1 DEF Enters, At, asked, dir, removing, history, Typed
<1>4. Locked'
  <2>1. Running' = Running \cup {i}
    BY <1>1, <1>2, RunningAfter
  <2>2. /\ feature[i] \notin installing
        /\ installing' = installing \cup {feature[i]}
        /\ feature' = feature
    BY DEF Enters, Barred, asked
  <2>3. QED BY <2>1, <2>2 DEF Locked, OneInstallPerRelease
<1>5. (Placed /\ Apart /\ Torn /\ Missed)'
  BY <1>1, <1>2, Quiet DEF Enters, asked, dir, Done
<1>6. QED BY <1>3, <1>4, <1>5

LEMMA LeavesKeeps ==
  ASSUME IInv, NEW i \in Installs, Leaves(i)
  PROVE  IInv'
<1> USE DEF IInv
<1>1. "ended" \in Phases /\ "ended" \notin Working /\ "ended" \notin Live
      /\ "leaving" \in Live
  BY DEF Phases, Live, Working
<1>2. At(i, "ended") /\ phase[i] = "leaving"
  BY DEF Leaves
<1>3. Typed'
  BY <1>1 DEF Leaves, At, asked, dir, removing, history, Typed
<1>4. Locked'
  <2>1. Running' = Running \ {i} /\ i \in Running
    BY <1>1, <1>2, RunningAfter DEF Running
  <2>2. installing' = installing \ {feature[i]} /\ feature' = feature
    BY DEF Leaves, Discard, asked
  <2>3. QED BY <2>1, <2>2 DEF Locked, OneInstallPerRelease
<1>5. (Placed /\ Apart /\ Torn /\ Missed)'
  BY <1>1, <1>2, Quiet DEF Leaves, asked, dir, Done
<1>6. QED BY <1>3, <1>4, <1>5

\* The steps that only go on: a refusal, the look of the sweep and its list,
\* the download and the unpacking.
LEMMA ProceedsKeeps ==
  ASSUME IInv, NEW i \in Installs,
         \/ Refused(i) \/ Looks(i) \/ Lists(i) \/ Swept(i) \/ Downloads(i)
         \/ Unpacks(i) \/ Probes(i) \/ CleansUp(i)
  PROVE  IInv'
<1> USE DEF IInv
<1>1. PICK p \in {"ended", "alone", "download", "sweeping", "unpack", "probe",
                  "swap", "leaving"} :
        /\ At(i, p)
        /\ phase[i] \in Live <=> p \in Live
        /\ phase[i] # "swapped"
        /\ phase[i] \in Done => p \in Done
        /\ p = "swap" => i \in sound
        /\ p \in Working => phase[i] \in Working
  BY DEF Refused, Looks, Lists, Swept, Downloads, Unpacks, Probes, CleansUp,
         Accepts, Live, Working, Done
<1>2. p \in Phases
  BY DEF Phases, Live, Working
<1>3. UNCHANGED <<installing, asked, home, aside, torn, removing, crashes,
                  history>>
  BY DEF Refused, Looks, Lists, Swept, Downloads, Unpacks, Probes, CleansUp,
         dir
<1>4. /\ staged' \subseteq staged \cup {i}
      /\ i \in staged' => i \in staged \/ phase[i] \notin Done
  BY DEF Refused, Looks, Lists, Swept, Downloads, Unpacks, Probes, CleansUp,
         dir, Done
<1>5. /\ temp' \subseteq temp \cup {<<"download", i>>, <<"staging", i>>}
      /\ \A n \in temp \ temp' : phase[i] = "ending" /\ n \in OwnNames(i)
  BY DEF Refused, Looks, Lists, Swept, Downloads, Unpacks, Probes, CleansUp,
         dir
<1>6. \A j \in Installs :
        /\ Old(j) \in temp' => Old(j) \in temp
        /\ Old(j) \in temp /\ phase[j] = "swapped" => Old(j) \in temp'
  BY <1>5 DEF OwnNames, Old
<1>7. leftovers' \in [Installs -> SUBSET Names]
  BY DEF Refused, Looks, Lists, Swept, Downloads, Unpacks, Probes, CleansUp,
         Typed
<1>8. Typed'
  <2>1. temp' \subseteq Names
    BY <1>5 DEF Typed, Names, Kinds
  <2>2. QED BY <1>1, <1>2, <1>3, <1>4, <1>7, <2>1
            DEF At, asked, removing, history, Typed
<1>9. Locked'
  BY <1>1, <1>2, <1>3, StaysLocked DEF asked
<1>10. (Placed /\ Apart /\ Torn /\ Missed)'
  BY <1>1, <1>2, <1>3, <1>4, <1>6, Quiet DEF asked
<1>11. QED BY <1>8, <1>9, <1>10

-----------------------------------------------------------------------------
(* The sweep, and the swap *)

\* A name in the directory holds the runtime an install unpacked or moved.
LEMMA UnderNames ==
  ASSUME Typed, Apart, NEW n \in temp
  PROVE  /\ n[2] \in Installs
         /\ \/ n = Old(n[2]) /\ Under(n) = {aside[n[2]]}
            \/ n[2] \in staged /\ Under(n) = {n[2]}
            \/ Under(n) = {}
         /\ Under(n) \subseteq Runtimes
<1>1. n \in Names
  BY DEF Typed
<1>2. n[2] \in Installs /\ n = <<n[1], n[2]>>
  BY <1>1 DEF Names
<1>3. \/ n = Old(n[2]) /\ Under(n) = {aside[n[2]]}
      \/ n[2] \in staged /\ Under(n) = {n[2]}
      \/ Under(n) = {}
  BY <1>2 DEF Under, Old
<1>4. Under(n) \subseteq Runtimes
  BY <1>2, <1>3, Numbers DEF Typed, Apart
<1>5. QED BY <1>2, <1>3, <1>4

LEMMA SweepTearsKeeps ==
  ASSUME IInv, NEW i \in Installs, SweepTears(i)
  PROVE  IInv'
<1> USE DEF IInv
<1>1. PICK n \in leftovers[i] \cap temp :
        /\ torn' = torn \cup Under(n)
        /\ hit' = IF n[2] \in Running THEN hit \cup {n[2]} ELSE hit
  BY DEF SweepTears
<1>2. UNCHANGED <<phase, asked, installing, leftovers, temp, home, aside,
                  staged, removing, crashes, had, cut, pulled>>
  BY DEF SweepTears
<1>3. /\ n \in temp /\ n[2] \in Installs
      /\ \/ n = Old(n[2]) /\ Under(n) = {aside[n[2]]}
         \/ n[2] \in staged /\ Under(n) = {n[2]}
         \/ Under(n) = {}
      /\ Under(n) \subseteq Runtimes
  BY UnderNames
<1>4. Running' = Running /\ Excused \subseteq Excused'
  BY <1>1, <1>2 DEF Running, Excused, asked
<1>5. Typed'
  BY <1>1, <1>2, <1>3 DEF asked, removing, Typed
<1>6. Locked'
  BY <1>2, <1>4 DEF asked, Locked, OneInstallPerRelease
<1>7. Placed' /\ Apart'
  BY <1>2 DEF asked, Placed, Apart
<1>8. Torn'
  <2>1. ASSUME NEW f \in Features, home[f] \in Installs, home[f] \in torn'
        PROVE  f \in Excused'
    <3>1. home[f] \notin Under(n)
      BY <1>3, <2>1 DEF Placed, Apart
    <3>2. QED BY <1>1, <1>4, <2>1, <3>1 DEF Torn
  <2>2. ASSUME NEW j \in Installs, phase[j] \in Working \cup {"idle"},
               j \in torn'
        PROVE  j \in hit'
    <3>1. CASE j \in torn
      BY <1>1, <2>2, <3>1 DEF Torn
    <3>2. CASE j \in Under(n)
      <4>1. phase[j] \notin Done
        BY <2>2 DEF Done, Working
      <4>2. j = n[2] /\ j \in staged
        BY <1>3, <3>2, <4>1 DEF Placed
      <4>3. j \in Running
        BY <2>2, <4>2 DEF Placed, Running, Live
      <4>4. QED BY <1>1, <4>2, <4>3
    <3>3. QED BY <1>1, <2>2, <3>1, <3>2
  <2>3. ASSUME NEW j \in Running, Old(j) \in temp, aside[j] \in Installs,
               aside[j] \in torn'
        PROVE  feature[j] \in Excused'
    <3>1. j \in Installs
      BY DEF Running
    <3>2. CASE aside[j] \in torn
      BY <1>4, <2>3, <3>2 DEF Torn
    <3>3. CASE aside[j] \in Under(n)
      <4>1. n = Old(n[2]) /\ aside[j] = aside[n[2]]
        BY <1>3, <2>3, <3>1, <3>3 DEF Placed
      <4>2. j = n[2]
        BY <1>3, <2>3, <3>1, <4>1 DEF Apart
      <4>3. j \in hit'
        BY <1>1, <4>2
      <4>4. QED BY <1>2, <4>3 DEF Excused, asked
    <3>4. QED BY <1>1, <2>3, <3>2, <3>3
  <2>4. QED BY <1>2, <1>4, <2>1, <2>2, <2>3 DEF Torn, asked
<1>9. Missed'
  <2>1. hit \subseteq hit'
    BY <1>1
  <2>2. PreviousIsKept'
    BY <1>2, <1>4, <2>1 DEF Missed, PreviousIsKept, asked
  <2>3. QED BY <1>2, <1>4, <2>2 DEF Missed, asked, removing
<1>10. QED BY <1>5, <1>6, <1>7, <1>8, <1>9

LEMMA SweepDropsKeeps ==
  ASSUME IInv, NEW i \in Installs, SweepDrops(i)
  PROVE  IInv'
<1> USE DEF IInv
<1>1. PICK n \in leftovers[i] :
        /\ leftovers' = [leftovers EXCEPT ![i] = @ \ {n}]
        /\ temp' = temp \ {n}
        /\ hit' = IF n \in temp /\ n[2] \in Running
                    THEN hit \cup {n[2]} ELSE hit
  BY DEF SweepDrops
<1>2. UNCHANGED <<phase, asked, installing, home, aside, torn, staged,
                  removing, crashes, had, cut, pulled>>
  BY DEF SweepDrops
<1>3. n \in temp => n[2] \in Installs
  BY UnderNames
<1>4. Running' = Running /\ Excused \subseteq Excused' /\ hit \subseteq hit'
  BY <1>1, <1>2 DEF Running, Excused, asked
<1>5. Typed'
  BY <1>1, <1>2, <1>3 DEF asked, removing, Typed
<1>6. Locked'
  BY <1>2, <1>4 DEF asked, Locked, OneInstallPerRelease
<1>7. Placed' /\ Apart'
  BY <1>1, <1>2 DEF asked, Placed, Apart
<1>8. Torn'
  BY <1>1, <1>2, <1>4 DEF asked, Torn
<1>9. Missed'
  <2>1. PreviousIsKept'
    BY <1>2, <1>4 DEF Missed, PreviousIsKept, asked
  <2>2. ASSUME NEW j \in Installs, phase[j] = "swapped", Old(j) \notin temp',
               feature[j] \in had
        PROVE  feature[j] \in Excused' \cup cut
    <3>1. CASE Old(j) \notin temp
      BY <1>4, <2>2, <3>1 DEF Missed
    <3>2. CASE Old(j) \in temp
      <4>1. n = Old(j) /\ n[2] = j /\ n \in temp
        BY <1>1, <2>2, <3>2 DEF Old
      <4>2. j \in Running
        BY <2>2 DEF Running, Live, Working
      <4>3. j \in hit'
        BY <1>1, <4>1, <4>2
      <4>4. QED BY <1>2, <4>3 DEF Excused, asked
    <3>3. QED BY <3>1, <3>2
  <2>3. QED BY <1>2, <1>4, <2>1, <2>2 DEF Missed, asked, removing
<1>10. QED BY <1>5, <1>6, <1>7, <1>8, <1>9

LEMMA MovesAsideKeeps ==
  ASSUME IInv, NEW i \in Installs, MovesAside(i)
  PROVE  IInv'
<1> USE DEF IInv
<1> DEFINE f == feature[i]
<1>1. /\ "swapped" \in Phases /\ "swapped" \in Live /\ "swap" \in Live
      /\ "swapped" \in Working /\ "swap" \in Working
  BY DEF Phases, Live, Working
<1>2. /\ At(i, "swapped") /\ phase[i] = "swap" /\ f \in Features
      /\ UNCHANGED <<asked, installing, leftovers, torn, staged, removing,
                     crashes, history>>
  BY DEF MovesAside, Typed
<1>3. /\ phase'[i] = "swapped"
      /\ \A j \in Installs : j # i => phase'[j] = phase[j]
      /\ Running' = Running /\ i \in Running
  BY <1>1, <1>2, RunningAfter DEF Running
<1>4. Excused' = Excused
  BY <1>2 DEF Excused, history, asked
<1>5. Locked'
  BY <1>1, <1>2, StaysLocked DEF asked
<1>6. CASE home[f] = None
  <2>1. UNCHANGED <<temp, home, aside>>
    BY <1>6 DEF MovesAside
  <2>2. Typed'
    BY <1>1, <1>2, <2>1 DEF At, asked, removing, history, Typed
  <2>3. Placed' /\ Apart'
    BY <1>2, <1>3, <2>1 DEF asked, Placed, Apart, Done
  <2>4. Torn'
    <3>1. \A j \in Installs : phase'[j] \in Working \cup {"idle"}
                              => phase[j] \in Working \cup {"idle"}
      BY <1>1, <1>2, <1>3
    <3>2. QED BY <1>2, <1>3, <1>4, <2>1, <3>1 DEF asked, history, Torn
  <2>5. f \in had => f \in Excused \cup cut
    <3>1. \A j \in Running : feature[j] = f => phase[j] # "swapped"
      BY <1>2, <1>3 DEF Locked, OneInstallPerRelease
    <3>2. QED BY <1>6, <3>1 DEF Missed, PreviousIsKept, Excused
  <2>6. PreviousIsKept'
    BY <1>2, <1>3, <2>1 DEF Missed, PreviousIsKept, asked, history, Running
  <2>7. Missed'
    BY <1>2, <1>3, <1>4, <2>1, <2>5, <2>6
       DEF Missed, asked, history, removing
  <2>8. QED BY <1>5, <2>2, <2>3, <2>4, <2>7
<1>7. CASE home[f] # None
  <2>1. /\ aside' = [aside EXCEPT ![i] = home[f]]
        /\ home' = [home EXCEPT ![f] = None]
        /\ temp' = temp \cup {Old(i)}
    BY <1>7 DEF MovesAside, Old
  <2>2. Old(i) \in Names /\ home[f] \in Runtimes
    BY <1>2, <1>7 DEF Old, Names, Kinds, Typed
  <2>3. Typed'
    BY <1>1, <1>2, <2>1, <2>2 DEF At, asked, removing, history, Typed
  <2>4. \A j \in Installs : Old(j) \in temp' => j = i \/ Old(j) \in temp
    BY <2>1 DEF Old
  <2>5. /\ aside'[i] = home[f] /\ home'[f] = None
        /\ \A j \in Installs : j # i => aside'[j] = aside[j]
        /\ \A g \in Features : g # f => home'[g] = home[g]
    BY <1>2, <2>1 DEF Typed
  <2>6. Placed'
    <3>1. \A g \in Features : home'[g] \in Installs =>
            /\ home'[g] \in sound' /\ feature'[home'[g]] = g
            /\ phase'[home'[g]] \in Done /\ home'[g] \notin staged'
      BY <1>2, <1>3, <2>5, Numbers DEF asked, Placed, Done
    <3>2. \A j \in Installs : aside'[j] \in Installs =>
            /\ aside'[j] \in sound' /\ feature'[aside'[j]] = feature'[j]
            /\ phase'[aside'[j]] \in Done /\ aside'[j] \notin staged'
      BY <1>2, <1>3, <2>5 DEF asked, Placed, Done
    <3>3. \A j \in Installs :
            /\ phase'[j] \in {"swap", "swapped"} => j \in sound'
            /\ phase'[j] = "idle" => j \notin staged' /\ Old(j) \notin temp'
      BY <1>2, <1>3, <2>4 DEF asked, Placed
    <3>4. QED BY <3>1, <3>2, <3>3 DEF Placed
  <2>7. Apart'
    <3>1. \A j \in Installs : Old(j) \in temp' =>
            /\ aside'[j] # None
            /\ aside'[j] \in Installs => home'[feature'[j]] # aside'[j]
      BY <1>2, <1>7, <2>4, <2>5, Numbers DEF asked, Apart, Typed
    <3>2. ASSUME NEW j \in Installs, Old(j) \in temp, aside[j] \in Installs,
                 aside[j] = home[f]
          PROVE  FALSE
      <4>1. feature[j] = f
        BY <1>2, <3>2 DEF Placed
      <4>2. QED BY <3>2, <4>1 DEF Apart
    <3>3. \A j, k \in Installs :
            Old(j) \in temp' /\ Old(k) \in temp' /\ aside'[j] = aside'[k]
              /\ aside'[j] \in Installs => j = k
      BY <2>4, <2>5, <3>2 DEF Apart
    <3>4. QED BY <3>1, <3>3 DEF Apart
  <2>8. Torn'
    <3>1. \A g \in Features : home'[g] \in Installs /\ home'[g] \in torn'
            => g \in Excused'
      BY <1>2, <1>4, <2>5, Numbers DEF Torn
    <3>2. \A j \in Installs :
            phase'[j] \in Working \cup {"idle"} /\ j \in torn' => j \in hit'
      BY <1>1, <1>2, <1>3 DEF history, Torn
    <3>3. ASSUME NEW j \in Running, Old(j) \in temp', aside'[j] \in Installs,
                 aside'[j] \in torn
          PROVE  feature[j] \in Excused
      <4>1. CASE j = i
        BY <1>2, <2>5, <3>3, <4>1 DEF Torn
      <4>2. CASE j # i
        BY <2>4, <2>5, <3>3, <4>2 DEF Torn, Running
      <4>3. QED BY <4>1, <4>2
    <3>4. QED BY <1>2, <1>3, <1>4, <3>1, <3>2, <3>3 DEF asked, Torn
  <2>9. Missed'
    <3>1. PreviousIsKept'
      <4> SUFFICES ASSUME NEW g \in had, home'[g] = None
                   PROVE  \/ \E j \in Running : feature[j] = g
                                                /\ phase'[j] = "swapped"
                          \/ g \in pulled \cup cut \cup {feature[j] : j \in hit}
        BY <1>2, <1>3 DEF PreviousIsKept, asked, history
      <4>1. CASE g = f
        BY <1>3, <4>1
      <4>2. CASE g # f
        <5>1. g \in Features /\ home[g] = None
          BY <2>5, <4>2 DEF Typed
        <5>2. \A j \in Running : phase[j] = "swapped" => phase'[j] = "swapped"
          BY <1>3 DEF Running
        <5>3. QED BY <5>1, <5>2 DEF Missed, PreviousIsKept
      <4>3. QED BY <4>1, <4>2
    <3>2. \A j \in Installs : phase'[j] = "swapped" /\ Old(j) \notin temp'
            => phase[j] = "swapped" /\ Old(j) \notin temp
      BY <1>3, <2>1
    <3>3. QED BY <1>2, <1>4, <3>1, <3>2 DEF Missed, asked, history, removing
  <2>10. QED BY <1>5, <2>3, <2>6, <2>7, <2>8, <2>9
<1>8. QED BY <1>6, <1>7

LEMMA MovesInKeeps ==
  ASSUME IInv, NEW i \in Installs, MovesIn(i)
  PROVE  IInv'
<1> USE DEF IInv
<1> DEFINE f == feature[i]
<1>1. /\ "ending" \in Phases /\ "ending" \in Live /\ "swapped" \in Live
      /\ "swapped" \in Working /\ "ending" \notin Working
      /\ "ending" \in Done /\ "swapped" \notin Done
  BY DEF Phases, Live, Working, Done
<1>2. /\ At(i, "ending") /\ phase[i] = "swapped" /\ f \in Features
      /\ home' = [home EXCEPT ![f] = i]
      /\ staged' = staged \ {i} /\ had' = had \cup {f}
      /\ UNCHANGED <<asked, installing, leftovers, temp, aside, torn,
                     removing, crashes, hit, cut, pulled>>
  BY DEF MovesIn, Typed
<1>3. /\ phase'[i] = "ending"
      /\ \A j \in Installs : j # i => phase'[j] = phase[j]
      /\ Running' = Running /\ i \in Running
  BY <1>1, <1>2, RunningAfter DEF Running
<1>4. Excused' = Excused
  BY <1>2 DEF Excused, asked
<1>5. Locked'
  BY <1>1, <1>2, StaysLocked DEF asked
<1>6. home'[f] = i /\ \A g \in Features : g # f => home'[g] = home[g]
  BY <1>2 DEF Typed
<1>7. Typed'
  BY <1>1, <1>2, Numbers DEF At, asked, removing, Typed
<1>8. \A j \in Installs : phase[j] \in Done => phase'[j] \in Done
  BY <1>1, <1>3
<1>9. Placed'
  <2>1. \A g \in Features : home'[g] \in Installs =>
          /\ home'[g] \in sound' /\ feature'[home'[g]] = g
          /\ phase'[home'[g]] \in Done /\ home'[g] \notin staged'
    BY <1>1, <1>2, <1>3, <1>6, <1>8 DEF asked, Placed
  <2>2. \A j \in Installs : aside'[j] \in Installs =>
          /\ aside'[j] \in sound' /\ feature'[aside'[j]] = feature'[j]
          /\ phase'[aside'[j]] \in Done /\ aside'[j] \notin staged'
    BY <1>2, <1>8 DEF asked, Placed
  <2>3. \A j \in Installs :
          /\ phase'[j] \in {"swap", "swapped"} => j \in sound'
          /\ phase'[j] = "idle" => j \notin staged' /\ Old(j) \notin temp'
    BY <1>2, <1>3 DEF asked, Placed
  <2>4. QED BY <2>1, <2>2, <2>3 DEF Placed
<1>10. Apart'
  <2>1. \A j \in Installs : aside[j] # i
    BY <1>1, <1>2 DEF Placed
  <2>2. \A j \in Installs : feature[j] \in Features
    BY DEF Typed
  <2>3. QED BY <1>2, <1>6, <2>1, <2>2 DEF asked, Apart
<1>11. Torn'
  <2>1. \A g \in Features : home'[g] \in Installs /\ home'[g] \in torn'
          => g \in Excused'
    <3>1. i \in torn => f \in Excused
      BY <1>1, <1>2 DEF Torn, Excused
    <3>2. QED BY <1>2, <1>4, <1>6, <3>1 DEF Torn
  <2>2. \A j \in Installs :
          phase'[j] \in Working \cup {"idle"} /\ j \in torn' => j \in hit'
    BY <1>1, <1>2, <1>3 DEF Torn
  <2>3. QED BY <1>2, <1>3, <1>4, <2>1, <2>2 DEF asked, Torn
<1>12. Missed'
  <2>1. PreviousIsKept'
    <3> SUFFICES ASSUME NEW g \in had', home'[g] = None
                 PROVE  \/ \E j \in Running : feature[j] = g
                                              /\ phase'[j] = "swapped"
                        \/ g \in pulled \cup cut \cup {feature[j] : j \in hit}
      BY <1>2, <1>3 DEF PreviousIsKept, asked
    <3>1. g # f /\ g \in had /\ home[g] = None
      BY <1>2, <1>6, Numbers DEF Typed
    <3>2. \A j \in Running : feature[j] = g => phase'[j] = phase[j]
      BY <1>3, <3>1 DEF Running
    <3>3. QED BY <3>1, <3>2 DEF Missed, PreviousIsKept
  <2>2. \A j \in Installs : phase'[j] = "swapped" /\ Old(j) \notin temp'
          /\ feature'[j] \in had' => feature'[j] \in Excused' \cup cut'
    <3> SUFFICES ASSUME NEW j \in Installs, phase'[j] = "swapped",
                        Old(j) \notin temp, feature[j] \in had'
                 PROVE  feature[j] \in Excused \cup cut
      BY <1>2, <1>4 DEF asked
    <3>1. j # i /\ phase[j] = "swapped" /\ j \in Running
      BY <1>1, <1>3 DEF Running
    <3>2. feature[j] # f
      BY <1>3, <3>1 DEF Locked, OneInstallPerRelease
    <3>3. QED BY <1>2, <3>1, <3>2 DEF Missed
  <2>3. QED BY <1>2, <1>4, <2>1, <2>2 DEF Missed, removing
<1>13. QED BY <1>5, <1>7, <1>9, <1>10, <1>11, <1>12

\* A step that fails; after the first replace, what was moved aside is put back.
LEMMA RaisesKeeps ==
  ASSUME IInv, NEW i \in Installs, Raises(i)
  PROVE  IInv'
<1> USE DEF IInv
<1> DEFINE f == feature[i]
<1>1. "ending" \in Phases /\ "ending" \in Live /\ "ending" \in Done
      /\ "ending" \notin Working /\ \A p \in Working : p \in Live
  BY DEF Phases, Live, Working, Done
<1>2. /\ At(i, "ending") /\ phase[i] \in Working /\ f \in Features
      /\ UNCHANGED <<asked, installing, leftovers, aside, torn, staged,
                     removing, crashes, history>>
  BY DEF Raises, Typed
<1>3. /\ phase'[i] = "ending"
      /\ \A j \in Installs : j # i => phase'[j] = phase[j]
      /\ Running' = Running /\ i \in Running
  BY <1>1, <1>2, RunningAfter DEF Running
<1>4. Excused' = Excused
  BY <1>2 DEF Excused, history, asked
<1>5. Locked'
  BY <1>1, <1>2, StaysLocked DEF asked
<1>6. CASE phase[i] # "swapped" /\ UNCHANGED <<home, temp>>
  <2>1. Typed'
    BY <1>1, <1>2, <1>6 DEF At, asked, removing, history, Typed
  <2>2. (Placed /\ Apart /\ Torn /\ Missed)'
    BY <1>1, <1>2, <1>6, Quiet DEF asked
  <2>3. QED BY <1>5, <2>1, <2>2
<1>7. CASE /\ phase[i] = "swapped" /\ UNCHANGED <<home, temp>>
           /\ ~(Old(i) \in temp /\ home[f] = None)
  <2>1. Typed'
    BY <1>1, <1>2, <1>7 DEF At, asked, removing, history, Typed
  <2>2. \A j \in Installs : phase[j] \in Done => phase'[j] \in Done
    BY <1>1, <1>3
  <2>3. Placed' /\ Apart'
    BY <1>2, <1>3, <1>7, <2>2 DEF asked, Placed, Apart
  <2>4. Torn'
    <3>1. \A j \in Installs : phase'[j] \in Working \cup {"idle"}
                              => phase[j] \in Working \cup {"idle"}
      BY <1>2, <1>3
    <3>2. QED BY <1>2, <1>3, <1>4, <1>7, <3>1 DEF asked, history, Torn
  <2>5. PreviousIsKept'
    <3> SUFFICES ASSUME NEW g \in had, home[g] = None
                 PROVE  \/ \E j \in Running : feature[j] = g
                                              /\ phase'[j] = "swapped"
                        \/ g \in pulled \cup cut \cup {feature[j] : j \in hit}
      BY <1>2, <1>3, <1>7 DEF PreviousIsKept, asked, history
    <3>1. CASE g = f
      BY <1>7, <3>1 DEF Missed, Excused
    <3>2. CASE g # f
      <4>1. \A j \in Running : feature[j] = g => phase'[j] = phase[j]
        BY <1>3, <3>2 DEF Running
      <4>2. QED BY <4>1 DEF Missed, PreviousIsKept
    <3>3. QED BY <3>1, <3>2
  <2>6. \A j \in Installs : phase'[j] = "swapped" => phase[j] = "swapped"
    BY <1>3
  <2>7. Missed'
    BY <1>2, <1>4, <1>7, <2>5, <2>6 DEF Missed, asked, history, removing
  <2>8. QED BY <1>5, <2>1, <2>3, <2>4, <2>7
<1>8. CASE /\ phase[i] = "swapped" /\ Old(i) \in temp /\ home[f] = None
           /\ home' = [home EXCEPT ![f] = aside[i]]
           /\ temp' = temp \ {Old(i)}
  <2>1. /\ home'[f] = aside[i] /\ aside[i] \in Runtimes /\ aside[i] # None
        /\ \A g \in Features : g # f => home'[g] = home[g]
    BY <1>2, <1>8, Numbers DEF Typed, Apart
  <2>2. Typed'
    BY <1>1, <1>2, <1>8, <2>1 DEF At, asked, removing, history, Typed
  <2>3. \A j \in Installs : phase[j] \in Done => phase'[j] \in Done
    BY <1>1, <1>3
  <2>4. Placed'
    <3>1. \A g \in Features : home'[g] \in Installs =>
            /\ home'[g] \in sound' /\ feature'[home'[g]] = g
            /\ phase'[home'[g]] \in Done /\ home'[g] \notin staged'
      BY <1>2, <2>1, <2>3 DEF asked, Placed
    <3>2. \A j \in Installs : aside'[j] \in Installs =>
            /\ aside'[j] \in sound' /\ feature'[aside'[j]] = feature'[j]
            /\ phase'[aside'[j]] \in Done /\ aside'[j] \notin staged'
      BY <1>2, <2>3 DEF asked, Placed
    <3>3. \A j \in Installs :
            /\ phase'[j] \in {"swap", "swapped"} => j \in sound'
            /\ phase'[j] = "idle" => j \notin staged' /\ Old(j) \notin temp'
      BY <1>2, <1>3, <1>8 DEF asked, Placed
    <3>4. QED BY <3>1, <3>2, <3>3 DEF Placed
  <2>5. \A j \in Installs : Old(j) \in temp' => j # i /\ Old(j) \in temp
    BY <1>8 DEF Old
  <2>6. Apart'
    <3>1. ASSUME NEW j \in Installs, Old(j) \in temp'
          PROVE  /\ aside[j] # None
                 /\ aside[j] \in Installs => home'[feature[j]] # aside[j]
      <4>1. j # i /\ Old(j) \in temp /\ feature[j] \in Features
        BY <2>5, <3>1 DEF Typed
      <4>2. CASE feature[j] # f
        BY <2>1, <4>1, <4>2 DEF Apart
      <4>3. CASE feature[j] = f
        BY <1>8, <2>1, <4>1, <4>3 DEF Apart
      <4>4. QED BY <4>2, <4>3
    <3>2. \A j, k \in Installs :
            Old(j) \in temp' /\ Old(k) \in temp' /\ aside'[j] = aside'[k]
              /\ aside'[j] \in Installs => j = k
      BY <1>2, <2>5 DEF Apart
    <3>3. QED BY <1>2, <3>1, <3>2 DEF asked, Apart
  <2>7. Torn'
    <3>1. \A g \in Features : home'[g] \in Installs /\ home'[g] \in torn'
            => g \in Excused'
      BY <1>2, <1>3, <1>4, <1>8, <2>1 DEF Torn
    <3>2. \A j \in Installs : phase'[j] \in Working \cup {"idle"}
                              => phase[j] \in Working \cup {"idle"}
      BY <1>2, <1>3
    <3>3. \A j \in Running : Old(j) \in temp' => Old(j) \in temp
      BY <2>5 DEF Running
    <3>4. QED BY <1>2, <1>3, <1>4, <3>1, <3>2, <3>3 DEF asked, history, Torn
  <2>8. PreviousIsKept'
    <3> SUFFICES ASSUME NEW g \in had, home'[g] = None
                 PROVE  \/ \E j \in Running : feature[j] = g
                                              /\ phase'[j] = "swapped"
                        \/ g \in pulled \cup cut \cup {feature[j] : j \in hit}
      BY <1>2, <1>3 DEF PreviousIsKept, asked, history
    <3>1. g # f /\ home[g] = None
      BY <2>1 DEF Typed
    <3>2. \A j \in Running : feature[j] = g => phase'[j] = phase[j]
      BY <1>3, <3>1 DEF Running
    <3>3. QED BY <3>1, <3>2 DEF Missed, PreviousIsKept
  <2>9. \A j \in Installs : phase'[j] = "swapped" /\ Old(j) \notin temp'
          => phase[j] = "swapped" /\ Old(j) \notin temp
    BY <1>3, <1>8 DEF Old
  <2>10. Missed'
    BY <1>2, <1>4, <2>8, <2>9 DEF Missed, asked, history, removing
  <2>11. QED BY <1>5, <2>2, <2>4, <2>6, <2>7, <2>10
<1>9. \/ phase[i] # "swapped" /\ UNCHANGED <<home, temp>>
      \/ /\ phase[i] = "swapped" /\ UNCHANGED <<home, temp>>
         /\ ~(Old(i) \in temp /\ home[f] = None)
      \/ /\ phase[i] = "swapped" /\ Old(i) \in temp /\ home[f] = None
         /\ home' = [home EXCEPT ![f] = aside[i]]
         /\ temp' = temp \ {Old(i)}
  <2>1. CASE phase[i] # "swapped"
    BY <2>1 DEF Raises
  <2>2. CASE phase[i] = "swapped" /\ ~(Old(i) \in temp /\ home[f] = None)
    BY <2>2 DEF Raises, PutBack, Old
  <2>3. CASE phase[i] = "swapped" /\ Old(i) \in temp /\ home[f] = None
    <3>1. home' = [home EXCEPT ![f] = aside[i]]
      BY <2>3 DEF Raises, PutBack, Old
    <3>2. home' # home
      <4>1. home'[f] # None
        BY <1>2, <2>3, <3>1 DEF Typed, Apart
      <4>2. QED BY <2>3, <4>1
    <3>3. QED BY <2>3, <3>1, <3>2 DEF Raises, Old
  <2>4. QED BY <2>1, <2>2, <2>3
<1>10. QED BY <1>6, <1>7, <1>8, <1>9

-----------------------------------------------------------------------------
(* Removals, and the end of the agent *)

LEMMA RemovalKeeps ==
  ASSUME IInv, NEW f \in Features, Removal(f)
  PROVE  IInv'
<1> USE DEF IInv
<1>1. /\ UNCHANGED <<phase, asked, installing, leftovers, temp, aside, staged,
                     crashes, hit, had, cut>>
      /\ Running' = Running
  BY DEF Removal, RemovalSent, RemovalBegins, RemovalEnds, dir, history,
         Running
<1>2. Locked'
  BY <1>1 DEF asked, Locked, OneInstallPerRelease
<1>3. CASE RemovalSent(f) \/ (RemovalBegins(f) /\ home[f] = None)
  <2>1. UNCHANGED <<home, torn, pulled>>
    BY <1>3 DEF RemovalSent, RemovalBegins, dir, history
  <2>2. Typed' /\ \A g \in Features :
                    removal'[g] = "deleting" => removal[g] = "deleting"
    BY <1>1, <1>3, <2>1 DEF RemovalSent, RemovalBegins, asked, Typed
  <2>3. Excused' = Excused
    BY <1>1, <2>1 DEF Excused, asked
  <2>4. Placed' /\ Apart' /\ Torn'
    BY <1>1, <2>1, <2>3 DEF asked, Placed, Apart, Torn
  <2>5. Missed'
    BY <1>1, <2>1, <2>2, <2>3 DEF asked, Missed, PreviousIsKept
  <2>6. QED BY <1>2, <2>2, <2>4, <2>5
<1>4. CASE RemovalBegins(f) /\ home[f] # None
  <2>1. /\ removal' = [removal EXCEPT ![f] = "deleting"]
        /\ torn' = torn \cup {home[f]} /\ pulled' = pulled \cup {f}
        /\ UNCHANGED <<home, removals>>
    BY <1>4 DEF RemovalBegins
  <2>2. Typed'
    BY <1>1, <1>4, <2>1 DEF asked, Typed
  <2>3. Excused \subseteq Excused' /\ f \in Excused'
    BY <1>1, <2>1 DEF Excused, asked
  <2>4. Placed' /\ Apart'
    BY <1>1, <2>1 DEF asked, Placed, Apart
  <2>5. Torn'
    <3>1. \A g \in Features : home[g] \in Installs /\ home[g] \in torn'
            => g \in Excused'
      BY <2>1, <2>3 DEF Torn, Placed
    <3>2. ASSUME NEW j \in Installs, phase[j] \in Working \cup {"idle"},
                 j \in torn'
          PROVE  j \in hit
      <4>1. phase[j] \notin Done
        BY <3>2 DEF Done, Working
      <4>2. j \in torn
        BY <2>1, <3>2, <4>1 DEF Placed
      <4>3. QED BY <3>2, <4>2 DEF Torn
    <3>3. ASSUME NEW j \in Running, Old(j) \in temp, aside[j] \in Installs,
                 aside[j] \in torn'
          PROVE  feature[j] \in Excused'
      <4>1. CASE aside[j] \in torn
        BY <2>3, <3>3, <4>1 DEF Torn
      <4>2. CASE aside[j] = home[f]
        BY <2>3, <3>3, <4>2 DEF Placed, Running
      <4>3. QED BY <2>1, <3>3, <4>1, <4>2
    <3>4. QED BY <1>1, <2>1, <3>1, <3>2, <3>3 DEF asked, Torn
  <2>6. Missed'
    <3>1. PreviousIsKept'
      BY <1>1, <2>1 DEF Missed, PreviousIsKept, asked
    <3>2. \A g \in Features : removal'[g] = "deleting" => g \in pulled'
      BY <2>1 DEF Missed, Typed
    <3>3. QED BY <1>1, <2>1, <2>3, <3>1, <3>2 DEF asked, Missed
  <2>7. QED BY <1>2, <2>2, <2>4, <2>5, <2>6
<1>5. CASE RemovalEnds(f)
  <2>1. /\ removal[f] = "deleting" /\ removal' = [removal EXCEPT ![f] = "none"]
        /\ home' = home \/ home' = [home EXCEPT ![f] = None]
        /\ UNCHANGED <<torn, removals, pulled>>
    BY <1>5 DEF RemovalEnds, history
  <2>2. /\ \A g \in Features : home'[g] = home[g] \/ home'[g] = None
        /\ \A g \in Features : g # f => home'[g] = home[g]
    BY <2>1 DEF Typed
  <2>3. Typed'
    BY <1>1, <2>1 DEF asked, Typed
  <2>4. Excused' = Excused
    BY <1>1, <2>1 DEF Excused, asked
  <2>5. Placed' /\ Apart' /\ Torn'
    <3>1. Placed'
      BY <1>1, <2>2, Numbers DEF asked, Placed
    <3>2. Apart'
      BY <1>1, <2>2, Numbers DEF asked, Apart, Typed
    <3>3. Torn'
      BY <1>1, <2>1, <2>2, <2>4, Numbers DEF asked, Torn
    <3>4. QED BY <3>1, <3>2, <3>3
  <2>6. Missed'
    <3>1. f \in pulled
      BY <2>1 DEF Missed
    <3>2. PreviousIsKept'
      BY <1>1, <2>1, <2>2, <3>1 DEF Missed, PreviousIsKept, asked, Typed
    <3>3. \A g \in Features : removal'[g] = "deleting" => g \in pulled
      BY <2>1 DEF Missed, Typed
    <3>4. QED BY <1>1, <2>1, <2>4, <3>2, <3>3 DEF asked, Missed
  <2>7. QED BY <1>2, <2>3, <2>5, <2>6
<1>6. QED BY <1>3, <1>4, <1>5 DEF Removal

LEMMA AgentDiesKeeps ==
  ASSUME IInv, AgentDies
  PROVE  IInv'
<1> USE DEF IInv
<1>1. /\ phase' = [i \in Installs |->
                     IF i \in Running THEN "killed" ELSE phase[i]]
      /\ installing' = {}
      /\ leftovers' = [i \in Installs |-> {}]
      /\ removal' = [f \in Features |-> "none"]
      /\ cut' = cut \cup
           {feature[i] : i \in {j \in Running : phase[j] = "swapped"}}
      /\ UNCHANGED <<asked, dir, hit, had, pulled, removals>>
      /\ crashes' = crashes + 1
  BY DEF AgentDies
<1>2. "killed" \notin Live /\ "killed" \notin Working /\ "killed" \in Done
      /\ "killed" \in Phases
  BY DEF Live, Working, Done, Phases
<1>3. Running' = {}
  BY <1>1, <1>2 DEF Running
<1>4. Typed'
  BY <1>1, <1>2 DEF asked, dir, Typed, Running
<1>5. Excused' = Excused
  BY <1>1 DEF Excused, asked
<1>6. \A i \in Installs :
        /\ phase'[i] = "killed" \/ phase'[i] = phase[i]
        /\ phase'[i] = phase[i] => phase[i] \notin Live
  BY <1>1, <1>2 DEF Running
<1>7. Locked'
  BY <1>1, <1>3 DEF Locked, OneInstallPerRelease
<1>8. Placed'
  BY <1>1, <1>2, <1>6 DEF asked, dir, Placed
<1>9. Apart'
  BY <1>1 DEF asked, dir, Apart
<1>10. Torn'
  <2>1. \A i \in Installs : phase'[i] \in Working \cup {"idle"}
                            => phase[i] \in Working \cup {"idle"}
    BY <1>2, <1>6
  <2>2. QED BY <1>1, <1>3, <1>5, <2>1 DEF asked, dir, Torn
<1>11. Missed'
  <2>1. PreviousIsKept'
    BY <1>1 DEF Missed, PreviousIsKept, asked, dir
  <2>2. \A i \in Installs : phase'[i] # "swapped"
    BY <1>6 DEF Live, Working
  <2>3. QED BY <1>1, <2>1, <2>2 DEF Missed
<1>12. QED BY <1>4, <1>7, <1>8, <1>9, <1>10, <1>11

-----------------------------------------------------------------------------
LEMMA NextKeeps == IInv /\ [Next]_vars => IInv'
<1> SUFFICES ASSUME IInv, [Next]_vars PROVE IInv'
  OBVIOUS
<1>1. ASSUME NEW i \in Installs, Install(i) PROVE IInv'
  BY <1>1, EntersKeeps, ProceedsKeeps, SweepTearsKeeps, SweepDropsKeeps,
     MovesAsideKeeps, MovesInKeeps, RaisesKeeps, LeavesKeeps DEF Install
<1>2. ASSUME NEW f \in Features, Removal(f) PROVE IInv'
  BY <1>2, RemovalKeeps
<1>3. CASE AgentDies
  BY <1>3, AgentDiesKeeps
<1>4. CASE UNCHANGED vars
  <2>1. Running' = Running /\ Excused' = Excused
    BY <1>4 DEF vars, asked, history, Running, Excused
  <2>2. QED
    BY <1>4, <2>1 DEF vars, asked, dir, removing, history, IInv, Typed, Locked,
       OneInstallPerRelease, Placed, Apart, Torn, Missed, PreviousIsKept
<1>5. QED BY <1>1, <1>2, <1>3, <1>4 DEF Next

LEMMA Invariance == Spec => []IInv
  BY InitIInv, NextKeeps, PTL DEF Spec

\* Every variable keeps to its domain, and the set behind the lock holds the
\* releases of the installs whose thread is inside, no more and no fewer.
THEOREM RuntimesTyped == Spec => []TypeOK
<1>1. IInv => TypeOK
  BY DEF IInv, Typed, Locked, TypeOK, Phases
<1>2. QED BY <1>1, Invariance, PTL

\* The set excludes installs of one release from each other, whatever sweeps,
\* removals and crashes do between.
THEOREM InstallsExclude == Spec => []OneInstallPerRelease
<1>1. IInv => OneInstallPerRelease
  BY DEF IInv, Locked
<1>2. QED BY <1>1, Invariance, PTL

\* What stands in a release's place passed the probe for that release, also
\* when it was moved aside and put back, and is whole unless someone swept or
\* removed it.
THEOREM HomesVerified == Spec => []HomeIsVerified
<1>1. IInv => HomeIsVerified
  BY DEF IInv, Placed, Torn, Excused, HomeIsVerified
<1>2. QED BY <1>1, Invariance, PTL

\* A failed install leaves the release as it was: it goes missing only by a
\* removal, a crash inside the swap, or a sweep under the install.
THEOREM PreviousKept == Spec => []PreviousIsKept
<1>1. IInv => PreviousIsKept
  BY DEF IInv, Missed
<1>2. QED BY <1>1, Invariance, PTL
-----------------------------------------------------------------------------
(* What a sweep leaves *)

\* Nothing a killed install left is missing from the list of a sweep under way
\* and still in the directory.
SweepInv ==
  \A i \in Installs : phase[i] = "sweeping" =>
    \A n \in temp : phase[n[2]] = "killed" => n \in leftovers[i]

\* An install leaves names of its own only, and the agent's end alone kills one.
LEMMA OwnNamesOnly ==
  ASSUME IInv, NEW j \in Installs, Install(j)
  PROVE  /\ \A n \in temp' : n \in temp \/ n[2] = j
         /\ \A k \in Installs : k # j => phase'[k] = phase[k]
                                           /\ leftovers'[k] = leftovers[k]
         /\ phase'[j] # "killed" \/ phase'[j] = phase[j]
<1> USE DEF IInv
<1>1. \A n \in temp' : n \in temp \/ n[2] = j
  <2>1. CASE Downloads(j)
    BY <2>1 DEF Downloads
  <2>2. CASE Unpacks(j)
    BY <2>2 DEF Unpacks
  <2>3. CASE MovesAside(j)
    BY <2>3 DEF MovesAside
  <2>4. CASE SweepDrops(j) \/ Raises(j) \/ CleansUp(j)
    BY <2>4 DEF SweepDrops, Raises, CleansUp
  <2>5. CASE \/ Enters(j) \/ Refused(j) \/ Looks(j) \/ Lists(j)
             \/ SweepTears(j) \/ Swept(j) \/ Probes(j) \/ MovesIn(j)
             \/ Leaves(j)
    BY <2>5 DEF Enters, Refused, Looks, Lists, SweepTears, Swept, Probes,
                MovesIn, Leaves, dir
  <2> QED BY <2>1, <2>2, <2>3, <2>4, <2>5 DEF Install
<1>2. /\ \A k \in Installs : k # j => phase'[k] = phase[k]
      /\ phase'[j] # "killed" \/ phase'[j] = phase[j]
  BY DEF Install, Enters, Refused, Looks, Lists, SweepTears, SweepDrops, Swept,
         Downloads, Unpacks, Probes, MovesAside, MovesIn, Raises, CleansUp,
         Leaves, At, Typed
<1>3. \A k \in Installs : k # j => leftovers'[k] = leftovers[k]
  BY DEF Install, Enters, Refused, Looks, Lists, SweepTears, SweepDrops, Swept,
         Downloads, Unpacks, Probes, MovesAside, MovesIn, Raises, CleansUp,
         Leaves, Typed
<1> QED BY <1>1, <1>2, <1>3

LEMMA NextSweep == IInv /\ SweepInv /\ [Next]_vars => SweepInv'
<1> SUFFICES ASSUME IInv, SweepInv, [Next]_vars,
                    NEW i \in Installs, phase'[i] = "sweeping",
                    NEW n \in temp', phase'[n[2]] = "killed"
             PROVE  n \in leftovers'[i]
  BY DEF SweepInv
<1> USE DEF IInv
<1>1. CASE UNCHANGED <<phase, temp, leftovers>>
  BY <1>1 DEF SweepInv
<1>2. ASSUME NEW j \in Installs, Install(j)
      PROVE  n \in leftovers'[i]
  <2>1. n[2] \in Installs
    <3>1. n \in Names
      <4>1. n \in temp \/ n \in {<<k, j>> : k \in Kinds}
        BY <1>2 DEF Install, Enters, Refused, Looks, Lists, SweepTears,
           SweepDrops, Swept, Downloads, Unpacks, Probes, MovesAside, MovesIn,
           Raises, CleansUp, Leaves, dir, Kinds
      <4> QED BY <4>1 DEF Typed, Names
    <3> QED BY <3>1 DEF Names
  <2>2. CASE n[2] # j
    <3>1. n \in temp /\ phase[n[2]] = "killed"
      BY <1>2, <2>1, <2>2, OwnNamesOnly
    <3>2. CASE i # j
      BY <1>2, <3>1, <3>2, OwnNamesOnly DEF SweepInv
    <3>3. CASE i = j /\ Lists(j)
      <4>1. n[1] \in SweptKinds
        BY <3>1 DEF Typed, Names, Kinds, SweptKinds
      <4> QED BY <3>1, <3>3, <4>1 DEF Lists, Typed
    <3>4. CASE i = j /\ (SweepTears(j) \/ SweepDrops(j))
      <4>1. phase[i] = "sweeping"
        BY <3>4 DEF SweepTears, SweepDrops
      <4>2. n \in leftovers[i]
        BY <3>1, <4>1 DEF SweepInv
      <4> QED BY <3>4, <4>2 DEF SweepTears, SweepDrops, Typed
    <3>5. CASE i = j /\ ~(Lists(j) \/ SweepTears(j) \/ SweepDrops(j))
      <4>1. phase'[j] # "sweeping"
        BY <1>2, <3>5 DEF Install, Enters, Refused, Looks, Swept, Downloads,
           Unpacks, Probes, MovesAside, MovesIn, Raises, CleansUp, Leaves, At,
           Typed
      <4> QED BY <3>5, <4>1
    <3> QED BY <3>2, <3>3, <3>4, <3>5
  <2>3. CASE n[2] = j
    <3>1. phase'[j] = "killed" /\ phase[j] = "killed"
      BY <1>2, <2>3, OwnNamesOnly
    <3>2. FALSE
      BY <1>2, <3>1 DEF Install, Enters, Refused, Looks, Lists, SweepTears,
         SweepDrops, Swept, Downloads, Unpacks, Probes, MovesAside, MovesIn,
         Raises, CleansUp, Leaves, Working
    <3> QED BY <3>2
  <2> QED BY <2>2, <2>3
<1>3. CASE \E f \in Features : Removal(f)
  BY <1>1, <1>3 DEF Removal, RemovalSent, RemovalBegins, RemovalEnds, dir
<1>4. CASE AgentDies
  <2>1. phase'[i] # "sweeping"
    BY <1>4 DEF AgentDies, Running, Live, Working
  <2> QED BY <2>1
<1>5. CASE UNCHANGED vars
  BY <1>1, <1>5 DEF vars, dir
<1> QED BY <1>2, <1>3, <1>4, <1>5 DEF Next

\* Whatever a killed install left under temporary names is gone once an install
\* that found itself alone has swept, whoever entered meanwhile.
THEOREM SweepsThoroughly == Spec => SweepIsThorough
<1>1. Init => SweepInv
  BY DEF Init, SweepInv
<1>2. /\ IInv /\ SweepInv /\ [Next]_vars
      => [\A i \in Installs :
            phase[i] = "sweeping" /\ phase'[i] = "download" =>
              \A n \in temp : phase[n[2]] # "killed"]_vars
  <2> SUFFICES ASSUME IInv, SweepInv, Next, NEW i \in Installs,
                      phase[i] = "sweeping", phase'[i] = "download"
               PROVE  \A n \in temp : phase[n[2]] # "killed"
    OBVIOUS
  <2>1. leftovers[i] = {}
    <3>1. ASSUME NEW j \in Installs, Install(j)
          PROVE  j = i
      BY <3>1, OwnNamesOnly
    <3>2. CASE Install(i)
      BY <3>2 DEF Install, Enters, Refused, Looks, Lists, SweepTears,
         SweepDrops, Swept, Downloads, Unpacks, Probes, MovesAside, MovesIn,
         Raises, CleansUp, Leaves, At, IInv, Typed, Working
    <3>3. CASE AgentDies
      BY <3>3 DEF AgentDies
    <3>4. ASSUME NEW f \in Features, Removal(f)
          PROVE  FALSE
      BY <3>4 DEF Removal, RemovalSent, RemovalBegins, RemovalEnds
    <3> QED BY <3>1, <3>2, <3>3, <3>4 DEF Next
  <2> QED BY <2>1 DEF SweepInv
<1> QED BY Invariance, NextSweep, <1>1, <1>2, PTL DEF Spec, SweepIsThorough
=============================================================================
