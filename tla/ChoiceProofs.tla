---------------------------- MODULE ChoiceProofs ----------------------------
(***************************************************************************)
(* What the pure choices promise, for every version, every set of runtimes *)
(* and every software: which Java a server is given, and which file the    *)
(* update of a new server replaces.                                        *)
(***************************************************************************)
EXTENDS JavaChoice, ServerJar, WellFoundedInduction, TLAPS

Versions == {v \in Seq(Nat) : v # <<>>}

-----------------------------------------------------------------------------
(* The order of versions *)

\* The two ways in which one version can be at or above another.
RisesAt(u, w, i) ==
  /\ i \in Nat /\ 1 <= i /\ i <= Len(u) /\ i <= Len(w)
  /\ u[i] > w[i]
  /\ \A j \in Nat : 1 <= j /\ j < i => u[j] = w[j]

Continues(u, w) ==
  /\ Len(w) <= Len(u)
  /\ \A j \in Nat : 1 <= j /\ j <= Len(w) => u[j] = w[j]

LEMMA AtLeastEither ==
  ASSUME NEW u \in Seq(Nat), NEW w \in Seq(Nat)
  PROVE  AtLeast(u, w) <=> Continues(u, w) \/ \E i : RisesAt(u, w, i)
<1>1. /\ DOMAIN u = 1..Len(u) /\ Len(u) \in Nat
      /\ DOMAIN w = 1..Len(w) /\ Len(w) \in Nat
  OBVIOUS
<1>2. ASSUME AtLeast(u, w)
      PROVE  Continues(u, w) \/ \E i : RisesAt(u, w, i)
  <2>1. CASE Len(w) <= Len(u) /\ \A i \in DOMAIN w : u[i] = w[i]
    <3>1. \A j \in Nat : 1 <= j /\ j <= Len(w) => j \in DOMAIN w
      BY <1>1
    <3> QED BY <2>1, <3>1 DEF Continues
  <2>2. ASSUME NEW i \in DOMAIN u \cap DOMAIN w,
               u[i] > w[i], \A j \in 1..(i - 1) : u[j] = w[j]
        PROVE  RisesAt(u, w, i)
    <3>1. i \in Nat /\ 1 <= i /\ i <= Len(u) /\ i <= Len(w)
      BY <1>1
    <3>2. \A j \in Nat : 1 <= j /\ j < i => j \in 1..(i - 1)
      BY <3>1
    <3> QED BY <2>2, <3>1, <3>2 DEF RisesAt
  <2> QED BY <1>2, <2>1, <2>2 DEF AtLeast
<1>3. ASSUME Continues(u, w)
      PROVE  AtLeast(u, w)
  BY <1>1, <1>3 DEF Continues, AtLeast
<1>4. ASSUME NEW i, RisesAt(u, w, i)
      PROVE  AtLeast(u, w)
  <2>1. i \in DOMAIN u \cap DOMAIN w
    BY <1>1, <1>4 DEF RisesAt
  <2>2. u[i] > w[i] /\ \A j \in 1..(i - 1) : u[j] = w[j]
    BY <1>4 DEF RisesAt
  <2> QED BY <2>1, <2>2, Zenon DEF AtLeast
<1> QED BY <1>2, <1>3, <1>4

LEMMA AtLeastTransitive ==
  ASSUME NEW u \in Seq(Nat), NEW v \in Seq(Nat), NEW w \in Seq(Nat),
         AtLeast(u, v), AtLeast(v, w)
  PROVE  AtLeast(u, w)
<1>1. /\ Len(u) \in Nat /\ Len(v) \in Nat /\ Len(w) \in Nat
      /\ \A j \in Nat : 1 <= j => /\ j <= Len(u) => u[j] \in Nat
                                  /\ j <= Len(v) => v[j] \in Nat
                                  /\ j <= Len(w) => w[j] \in Nat
  OBVIOUS
<1>2. CASE Continues(u, v) /\ Continues(v, w)
  <2>1. Continues(u, w)
    BY <1>1, <1>2 DEF Continues
  <2> QED BY <2>1, AtLeastEither
<1>3. ASSUME NEW i, RisesAt(u, v, i), Continues(v, w)
      PROVE  AtLeast(u, w)
  <2>1. CASE i <= Len(w)
    <3>1. RisesAt(u, w, i)
      BY <1>1, <1>3, <2>1, SMTT(30) DEF RisesAt, Continues
    <3> QED BY <3>1, AtLeastEither
  <2>2. CASE ~(i <= Len(w))
    <3>1. Continues(u, w)
      BY <1>1, <1>3, <2>2 DEF RisesAt, Continues
    <3> QED BY <3>1, AtLeastEither
  <2> QED BY <2>1, <2>2
<1>4. ASSUME NEW i, Continues(u, v), RisesAt(v, w, i)
      PROVE  AtLeast(u, w)
  <2>1. RisesAt(u, w, i)
    BY <1>1, <1>4, SMTT(30) DEF RisesAt, Continues
  <2> QED BY <2>1, AtLeastEither
<1>5. ASSUME NEW i, RisesAt(u, v, i), NEW k, RisesAt(v, w, k)
      PROVE  AtLeast(u, w)
  <2>0. i \in Nat /\ k \in Nat
    BY <1>5 DEF RisesAt
  <2>1. CASE i <= k
    <3>0. /\ u[i] \in Nat /\ v[i] \in Nat /\ w[i] \in Nat
          /\ u[i] > v[i]
      BY <1>1, <1>5, <2>0, <2>1 DEF RisesAt
    <3>5. i = k => v[i] > w[i]
      BY <1>5 DEF RisesAt
    <3>6. i < k => v[i] = w[i]
      BY <1>5, <2>0 DEF RisesAt
    <3>1. u[i] > w[i]
      BY <2>0, <2>1, <3>0, <3>5, <3>6, SMTT(30)
    <3>2. \A j \in Nat : 1 <= j /\ j < i => u[j] = w[j]
      BY <1>5, <2>0, <2>1 DEF RisesAt
    <3>3. RisesAt(u, w, i)
      BY <1>1, <1>5, <2>0, <2>1, <3>1, <3>2 DEF RisesAt
    <3>4. \E x : RisesAt(u, w, x)
      BY <3>3
    <3> QED BY <3>4, AtLeastEither
  <2>2. CASE ~(i <= k)
    <3>1. u[k] > w[k]
      BY <1>1, <1>5, <2>0, <2>2 DEF RisesAt
    <3>2. \A j \in Nat : 1 <= j /\ j < k => u[j] = w[j]
      BY <1>5, <2>0, <2>2 DEF RisesAt
    <3>3. RisesAt(u, w, k)
      BY <1>1, <1>5, <2>0, <2>2, <3>1, <3>2 DEF RisesAt
    <3>4. \E x : RisesAt(u, w, x)
      BY <3>3
    <3> QED BY <3>4, AtLeastEither
  <2> QED BY <2>1, <2>2
<1> QED BY <1>2, <1>3, <1>4, <1>5, AtLeastEither

-----------------------------------------------------------------------------
(* The tables *)

\* Every table is one of two; its rows ask for more and more.
LEMMA TablesAscend ==
  ASSUME NEW software \in DOMAIN Rules
  PROVE  /\ DOMAIN Rules[software] = 1..5
         /\ \A i \in 1..5 : /\ Rules[software][i].minimum \in Nat
                            /\ Rules[software][i].recommended \in Nat
                            /\ Rules[software][i].since \in Seq(Nat)
         /\ \A i, j \in 1..5 : i <= j =>
              Rules[software][i].minimum <= Rules[software][j].minimum
<1>1. software \in {"vanilla", "paper", "velocity"}
  BY DEF Rules
<1>2. Rules[software] = Minecraft \/ Rules[software] = Velocity
  BY <1>1 DEF Rules
<1>3. ASSUME NEW t, t = Minecraft \/ t = Velocity
      PROVE  /\ DOMAIN t = 1..5
             /\ \A i \in 1..5 : /\ t[i].minimum \in Nat
                                /\ t[i].recommended \in Nat
                                /\ t[i].since \in Seq(Nat)
             /\ \A i, j \in 1..5 : i <= j => t[i].minimum <= t[j].minimum
  <2>1. CASE t = Minecraft
    <3>1. DOMAIN t = 1..5
      BY <2>1 DEF Minecraft
    <3>2. /\ t[1].minimum = 8 /\ t[2].minimum = 16 /\ t[3].minimum = 17
          /\ t[4].minimum = 21 /\ t[5].minimum = 25
      BY <2>1 DEF Minecraft, Rule
    <3>3. \A i \in 1..5 : /\ t[i].minimum \in Nat /\ t[i].recommended \in Nat
                           /\ t[i].since \in Seq(Nat)
      <4>1. \A i \in 1..5 : i = 1 \/ i = 2 \/ i = 3 \/ i = 4 \/ i = 5
        OBVIOUS
      <4>2. t = Minecraft
        BY <2>1
      <4>3. \A i \in 1..5 : t[i].minimum \in Nat /\ t[i].recommended \in Nat
        BY <4>1, <4>2 DEF Minecraft, Rule
      <4>4. /\ t[1].since \in Seq(Nat) /\ t[2].since \in Seq(Nat)
            /\ t[3].since \in Seq(Nat) /\ t[4].since \in Seq(Nat)
            /\ t[5].since \in Seq(Nat)
        <5>1. /\ t[1].since = <<1, 0>> /\ t[2].since = <<1, 17>>
              /\ t[3].since = <<1, 18>> /\ t[4].since = <<1, 20, 5>>
              /\ t[5].since = <<26, 1>>
          BY <4>2 DEF Minecraft, Rule
        <5>2. /\ <<1, 0>> \in Seq(Nat) /\ <<1, 17>> \in Seq(Nat)
              /\ <<1, 18>> \in Seq(Nat) /\ <<1, 20, 5>> \in Seq(Nat)
              /\ <<26, 1>> \in Seq(Nat)
          OBVIOUS
        <5> QED BY <5>1, <5>2
      <4> QED BY <4>1, <4>3, <4>4
    <3>4. \A i, j \in 1..5 : i <= j => t[i].minimum <= t[j].minimum
      BY <3>2
    <3> QED BY <3>1, <3>3, <3>4
  <2>2. CASE t = Velocity
    <3>1. DOMAIN t = 1..5
      BY <2>2 DEF Velocity
    <3>2. /\ t[1].minimum = 8 /\ t[2].minimum = 11 /\ t[3].minimum = 17
          /\ t[4].minimum = 21 /\ t[5].minimum = 25
      BY <2>2 DEF Velocity, Rule
    <3>3. \A i \in 1..5 : /\ t[i].minimum \in Nat /\ t[i].recommended \in Nat
                           /\ t[i].since \in Seq(Nat)
      <4>1. \A i \in 1..5 : i = 1 \/ i = 2 \/ i = 3 \/ i = 4 \/ i = 5
        OBVIOUS
      <4>2. t = Velocity
        BY <2>2
      <4>3. \A i \in 1..5 : t[i].minimum \in Nat /\ t[i].recommended \in Nat
        BY <4>1, <4>2 DEF Velocity, Rule
      <4>4. /\ t[1].since \in Seq(Nat) /\ t[2].since \in Seq(Nat)
            /\ t[3].since \in Seq(Nat) /\ t[4].since \in Seq(Nat)
            /\ t[5].since \in Seq(Nat)
        <5>1. /\ t[1].since = <<1, 0>> /\ t[2].since = <<3, 0>>
              /\ t[3].since = <<3, 3>> /\ t[4].since = <<3, 5>>
              /\ t[5].since = <<4, 0>>
          BY <4>2 DEF Velocity, Rule
        <5>2. /\ <<1, 0>> \in Seq(Nat) /\ <<3, 0>> \in Seq(Nat)
              /\ <<3, 3>> \in Seq(Nat) /\ <<3, 5>> \in Seq(Nat)
              /\ <<4, 0>> \in Seq(Nat)
          OBVIOUS
        <5> QED BY <5>1, <5>2
      <4> QED BY <4>1, <4>3, <4>4
    <3>4. \A i, j \in 1..5 : i <= j => t[i].minimum <= t[j].minimum
      BY <3>2
    <3> QED BY <3>1, <3>3, <3>4
  <2> QED BY <1>3, <2>1, <2>2
<1> QED BY <1>2, <1>3

\* The row taken is in the table, and is the last one reached.
LEMMA RowIsLast ==
  ASSUME NEW software \in DOMAIN Rules, NEW version \in Seq(Nat)
  PROVE  LET S == Reached(Rules[software], version)
             r == Row(Rules[software], version)
         IN /\ S \subseteq 1..5 /\ r \in 1..5
            /\ \A i \in S : i <= r
            /\ S # {} => r \in S
<1> DEFINE S == Reached(Rules[software], version)
<1>1. S \subseteq 1..5
  BY TablesAscend DEF Reached
<1>2. CASE S = {}
  BY <1>2 DEF Row
<1>3. CASE S # {}
  <2>1. \E i \in S : \A j \in S : j <= i
    <3> HIDE DEF S
    <3>1. CASE 5 \in S
      BY <1>1, <3>1
    <3>2. CASE 5 \notin S /\ 4 \in S
      BY <1>1, <3>2
    <3>3. CASE 5 \notin S /\ 4 \notin S /\ 3 \in S
      BY <1>1, <3>3
    <3>4. CASE 5 \notin S /\ 4 \notin S /\ 3 \notin S /\ 2 \in S
      BY <1>1, <3>4
    <3>5. CASE 5 \notin S /\ 4 \notin S /\ 3 \notin S /\ 2 \notin S
      <4>1. S \subseteq {1}
        BY <1>1, <3>5
      <4>2. PICK x : x \in S
        BY <1>3
      <4>3. \A y \in S : y = 1
        BY <4>1
      <4>4. x \in S /\ \A y \in S : y <= x
        BY <4>2, <4>3
      <4> QED BY <4>4
    <3> QED BY <3>1, <3>2, <3>3, <3>4, <3>5
  <2> QED BY <1>1, <1>3, <2>1 DEF Row
<1> QED BY <1>1, <1>2, <1>3

LEMMA NatHasLeast ==
  ASSUME NEW T \in SUBSET Nat, T # {}
  PROVE  \E x \in T : \A y \in T : x <= y
<1>1. PICK x \in T : \A y \in T : <<y, x>> \notin OpToRel(<, Nat)
  BY NatLessThanWellFounded, WFMin
<1>2. \A y \in T : ~(y < x)
  BY <1>1 DEF OpToRel
<1> QED BY <1>2

-----------------------------------------------------------------------------
(* The theorems *)

\* A newer version of a server never makes do with an older Java, whichever
\* ids are compared and whether or not the table has them (requirement).
THEOREM NewerNeedsNoOlderJava ==
  ASSUME NEW software \in DOMAIN Rules,
         NEW v \in Versions, NEW w \in Versions, AtLeast(w, v)
  PROVE  Requirement(software, v).minimum <= Requirement(software, w).minimum
<1> DEFINE t == Rules[software]
<1>1. v \in Seq(Nat) /\ w \in Seq(Nat)
  BY DEF Versions
<1>2. Reached(t, v) \subseteq Reached(t, w)
  <2>1. ASSUME NEW i \in DOMAIN t, AtLeast(v, t[i].since)
        PROVE  AtLeast(w, t[i].since)
    <3>1. t[i].since \in Seq(Nat)
      BY TablesAscend
    <3> QED BY <1>1, <2>1, <3>1, AtLeastTransitive
  <2> QED BY <2>1 DEF Reached
<1>3. /\ Row(t, v) \in 1..5 /\ Row(t, w) \in 1..5
      /\ Row(t, v) <= Row(t, w)
  <2>1. CASE Reached(t, v) = {}
    <3>1. Row(t, v) = 1
      BY <2>1 DEF Row
    <3> QED BY <1>1, <3>1, RowIsLast
  <2>2. CASE Reached(t, v) # {}
    BY <1>1, <1>2, <2>2, RowIsLast
  <2> QED BY <2>1, <2>2
<1>4. t[Row(t, v)].minimum <= t[Row(t, w)].minimum
  <2> HIDE DEF t
  <2> QED BY <1>3, TablesAscend DEF t
<1> QED BY <1>4 DEF Requirement

\* The releases MineManager installs cover every row: whatever a server needs,
\* one of them is what is recommended for it (MANAGED_FEATURES).
THEOREM ManagedCoverEveryRow ==
  ASSUME NEW software \in DOMAIN Rules, NEW version \in Versions
  PROVE  Pick(Requirement(software, version), ManagedFeatures)
           = Requirement(software, version).recommended
<1> DEFINE t == Rules[software]
           r == Row(t, version)
           req == Requirement(software, version)
<1>1. r \in 1..5
  BY RowIsLast DEF Versions
<1>2. /\ req.minimum = t[r].minimum
      /\ req.recommended = t[r].recommended
  BY DEF Requirement
<1>3. \A i \in 1..5 : /\ t[i].recommended \in ManagedFeatures
                      /\ t[i].recommended >= t[i].minimum
  <2>1. \A i \in 1..5 : i = 1 \/ i = 2 \/ i = 3 \/ i = 4 \/ i = 5
    OBVIOUS
  <2>2. t = Minecraft \/ t = Velocity
    BY DEF Rules
  <2>3. ASSUME t = Minecraft
        PROVE  \A i \in 1..5 : /\ t[i].recommended \in ManagedFeatures
                               /\ t[i].recommended >= t[i].minimum
    <3> HIDE DEF t
    <3> QED BY <2>1, <2>3 DEF Minecraft, Rule, ManagedFeatures
  <2>4. ASSUME t = Velocity
        PROVE  \A i \in 1..5 : /\ t[i].recommended \in ManagedFeatures
                               /\ t[i].recommended >= t[i].minimum
    <3> HIDE DEF t
    <3> QED BY <2>1, <2>4 DEF Velocity, Rule, ManagedFeatures
  <2> QED BY <2>2, <2>3, <2>4
<1>4. req.recommended \in ManagedFeatures /\ Satisfies(req, req.recommended)
  <2> HIDE DEF t, r, req
  <2> QED BY <1>1, <1>2, <1>3 DEF Satisfies
<1> QED BY <1>4 DEF Pick

\* Of the releases at hand one that will do is picked whenever there is one: the
\* recommended, or else the lowest, closest to what the server was built for.
THEOREM PickIsBest ==
  ASSUME NEW req, req.minimum \in Nat, NEW majors \in SUBSET Nat,
         NEW one \in majors, Satisfies(req, one)
  PROVE  /\ Pick(req, majors) \in majors
         /\ Satisfies(req, Pick(req, majors))
         /\ \/ Pick(req, majors) = req.recommended
            \/ \A m \in majors : Satisfies(req, m) => Pick(req, majors) <= m
<1> DEFINE ok == {m \in majors : Satisfies(req, m)}
<1>1. ok \subseteq Nat /\ one \in ok
  OBVIOUS
<1>2. \E m \in ok : \A n \in ok : m <= n
  <2> HIDE DEF ok
  <2> QED BY <1>1, NatHasLeast
<1>3. CASE req.recommended \in ok
  BY <1>1, <1>3 DEF Pick
<1>4. CASE req.recommended \notin ok
  <2>1. Pick(req, majors) = CHOOSE m \in ok : \A n \in ok : m <= n
    BY <1>1, <1>4 DEF Pick
  <2>2. Pick(req, majors) \in ok /\ \A n \in ok : Pick(req, majors) <= n
    BY <1>2, <2>1
  <2> QED BY <2>2
<1> QED BY <1>3, <1>4

LEMMA RecommendedIsUsable ==
  ASSUME NEW listed \in Seq(Runtimes), NEW req, req.minimum \in Nat,
         Recommended(listed, req) # NoHome
  PROVE  \E i \in Usable(listed) :
           /\ listed[i].home = Recommended(listed, req)
           /\ Satisfies(req, listed[i].major)
           /\ \A j \in Usable(listed) :
                listed[j].default /\ listed[j].major = listed[i].major
                  => listed[i].default
<1> DEFINE majors == {listed[i].major : i \in Usable(listed)}
           best == Pick(req, majors)
           same == {i \in Usable(listed) : listed[i].major = best}
           tops == {i \in same : ~\E j \in same : Before(listed[j], listed[i])}
           top == CHOOSE i \in tops : \A j \in tops : i <= j
<1>1. best # NoMajor /\ Recommended(listed, req) = listed[top].home
  BY DEF Recommended
<1>2. Usable(listed) \subseteq Nat /\ majors \subseteq Nat
  <2>1. \A i \in Usable(listed) : i \in Nat /\ listed[i] \in Runtimes
    BY DEF Usable
  <2>2. \A i \in Usable(listed) : listed[i].major \in Nat
    BY <2>1 DEF Runtimes
  <2> QED BY <2>1, <2>2
<1>3. \E m \in majors : Satisfies(req, m)
  BY <1>1 DEF Pick
<1>4. best \in majors /\ Satisfies(req, best)
  <2> HIDE DEF majors
  <2> QED BY <1>2, <1>3, PickIsBest
<1>5. same # {}
  BY <1>4
<1>6. tops # {}
  <2>1. \A i, j \in same :
          Before(listed[j], listed[i]) <=>
            \/ listed[j].default /\ ~listed[i].default
            \/ /\ listed[j].default = listed[i].default
               /\ listed[j].managed /\ ~listed[i].managed
    BY Zenon DEF Before
  <2> DEFINE NoneBefore(i) == \A j \in same : ~Before(listed[j], listed[i])
  <2> HIDE DEF same
  <2>2. ASSUME NEW i \in same, listed[i].default, listed[i].managed
        PROVE  NoneBefore(i)
    BY <2>1, <2>2, Zenon
  <2>3. ASSUME NEW i \in same, listed[i].default,
               ~\E j \in same : listed[j].default /\ listed[j].managed
        PROVE  NoneBefore(i)
    BY <2>1, <2>3, Zenon
  <2>4. ASSUME NEW i \in same, listed[i].managed,
               ~\E j \in same : listed[j].default
        PROVE  NoneBefore(i)
    BY <2>1, <2>4, Zenon
  <2>5. ASSUME NEW i \in same, ~\E j \in same : listed[j].default,
               ~\E j \in same : listed[j].managed
        PROVE  NoneBefore(i)
    BY <2>1, <2>5, Zenon
  <2>6. \E i \in same : NoneBefore(i)
    <3> HIDE DEF NoneBefore
    <3> QED BY <1>5, <2>2, <2>3, <2>4, <2>5, Zenon
  <2> QED BY <2>6
<1>7. top \in tops
  <2>1. tops \subseteq Nat
    BY <1>2
  <2>2. \E i \in tops : \A j \in tops : i <= j
    <3> HIDE DEF tops
    <3> QED BY <1>6, <2>1, NatHasLeast
  <2> HIDE DEF tops
  <2> QED BY <2>2
<1>8. ASSUME NEW j \in Usable(listed),
             listed[j].default, listed[j].major = listed[top].major
      PROVE  listed[top].default
  <2>1. j \in same /\ top \in same
    BY <1>7, <1>8
  <2>2. ~Before(listed[j], listed[top])
    BY <1>7, <2>1
  <2> QED BY <1>8, <2>2, Zenon DEF Before
<1> QED BY <1>1, <1>4, <1>7, <1>8

\* What the hub recommends is the home of a runtime it shows as compatible, and
\* where the node's default is of that release, it is what is recommended.
THEOREM RecommendedRuns ==
  ASSUME NEW listed \in Seq(Runtimes), NEW software, NEW version \in Seq(Nat),
         ListJava(listed, software, version).recommended # NoHome
  PROVE  \E i \in ListJava(listed, software, version).compatible :
           /\ listed[i].home = ListJava(listed, software, version).recommended
           /\ \A j \in Usable(listed) :
                listed[j].default /\ listed[j].major = listed[i].major
                  => listed[i].default
<1> DEFINE req == Requirement(software, version)
<1>1. Known(software, version)
  BY DEF ListJava
<1>2. /\ ListJava(listed, software, version).recommended
           = Recommended(listed, req)
      /\ ListJava(listed, software, version).compatible
           = {i \in Usable(listed) : Satisfies(req, listed[i].major)}
  BY <1>1 DEF ListJava
<1>3. req.minimum \in Nat
  <2>1. Row(Rules[software], version) \in 1..5
    BY <1>1, RowIsLast DEF Known
  <2>2. Rules[software][Row(Rules[software], version)].minimum \in Nat
    BY <1>1, <2>1, TablesAscend DEF Known
  <2> QED BY <2>2 DEF Requirement
<1> HIDE DEF req
<1> QED BY <1>2, <1>3, RecommendedIsUsable

\* The file that the update of a new server replaces is the one its jar was
\* installed under, for any software and any heap size: the launch line it is
\* given (build_start_command) is read back by resolve.
THEOREM LaunchNamesItsJar ==
  ASSUME NEW software \in DOMAIN Launch, NEW sized \in BOOLEAN
  PROVE  Parsed(StartCommand(software, sized)) = JarForType(software)
<1> DEFINE c == StartCommand(software, sized)
           jar == JarForType(software)
<1>1. /\ Java.is = "java" /\ Word.is = "word" /\ Jar.is = "-jar"
      /\ Path(<<jar>>) = [is |-> "word", names |-> <<jar>>]
  BY DEF Java, Word, Jar, Path
<1>2. \/ c = <<Java, Word, Jar, Path(<<jar>>), Word>>
      \/ c = <<Java, Word, Jar, Path(<<jar>>)>>
      \/ c = <<Java, Jar, Path(<<jar>>), Word>>
      \/ c = <<Java, Jar, Path(<<jar>>)>>
  BY Zenon DEF StartCommand
<1>3. PICK k \in {2, 3} :
        /\ DOMAIN c \in {1..(k + 1), 1..(k + 2)} /\ Len(c) > k
        /\ c[1].is = "java" /\ c[k].is = "-jar"
        /\ c[k + 1] = Path(<<jar>>)
        /\ \A i \in DOMAIN c : i # 1 /\ i # k => c[i].is = "word"
  <2> HIDE DEF c
  <2> QED BY <1>1, <1>2, SMTT(30)
<1>4. /\ Positions(c, "java") # {} /\ Positions(c, "@") = {}
      /\ {i \in Positions(c, "-jar") : HasOperand(c, i)}
           \cup Positions(c, "-jar=") = {k}
  BY <1>3 DEF Positions, HasOperand
<1>5. Parsed(c) = OnlyJar(JarNamed(c, First({k})))
  BY <1>4 DEF Parsed
<1>6. First({k}) = k
  BY DEF First
<1> QED BY <1>1, <1>3, <1>5, <1>6 DEF OnlyJar, JarNamed
=============================================================================
