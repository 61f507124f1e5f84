----------------------------- MODULE JavaChoice -----------------------------
(***************************************************************************)
(* Which Java a server runs on: the table of releases (shared/java.py),    *)
(* and the runtime of a node that the hub recommends (api/java.py).        *)
(*                                                                         *)
(* A version is the sequence of the numbers of its id, <<1, 20, 4>>; an id *)
(* that does not begin with any, a snapshot's, is the empty one.           *)
(***************************************************************************)
EXTENDS Naturals, Sequences

NoMajor == 0
NoHome  == 0

ManagedFeatures == {8, 17, 21, 25}

Rule(since, minimum, recommended) ==
  [since |-> since, minimum |-> minimum, recommended |-> recommended]

Minecraft ==
  << Rule(<<1, 0>>, 8, 8), Rule(<<1, 17>>, 16, 17), Rule(<<1, 18>>, 17, 17),
     Rule(<<1, 20, 5>>, 21, 21), Rule(<<26, 1>>, 25, 25) >>

Velocity ==
  << Rule(<<1, 0>>, 8, 8), Rule(<<3, 0>>, 11, 17), Rule(<<3, 3>>, 17, 17),
     Rule(<<3, 5>>, 21, 21), Rule(<<4, 0>>, 25, 25) >>

Rules == [vanilla |-> Minecraft, paper |-> Minecraft, velocity |-> Velocity]

LegacyMax == 8

\* How Python compares tuples.
AtLeast(v, w) ==
  \/ \E i \in DOMAIN v \cap DOMAIN w :
       v[i] > w[i] /\ \A j \in 1..(i - 1) : v[j] = w[j]
  \/ Len(w) <= Len(v) /\ \A i \in DOMAIN w : v[i] = w[i]

\* The rules a version has reached; it takes the last of them.
Reached(rules, version) ==
  {i \in DOMAIN rules : AtLeast(version, rules[i].since)}

Row(rules, version) ==
  IF Reached(rules, version) = {} THEN 1
  ELSE CHOOSE i \in Reached(rules, version) :
         \A j \in Reached(rules, version) : j <= i

\* Nothing is known of other software, nor of a snapshot.
Known(software, version) == software \in DOMAIN Rules /\ version # <<>>

Requirement(software, version) ==
  LET rule == Rules[software][Row(Rules[software], version)]
  IN [minimum     |-> rule.minimum,
      recommended |-> rule.recommended,
      legacy      |-> rule.minimum <= LegacyMax]

Satisfies(req, major) == major >= req.minimum

\* The recommended release, or the lowest that will do.
Pick(req, majors) ==
  LET ok == {m \in majors : Satisfies(req, m)}
  IN IF ok = {} THEN NoMajor
     ELSE IF req.recommended \in ok THEN req.recommended
     ELSE CHOOSE m \in ok : \A n \in ok : m <= n

-----------------------------------------------------------------------------
(* A node's runtimes, as the agent listed them. *)

Runtimes ==
  [home : Nat \ {NoHome}, major : Nat, error : BOOLEAN, default : BOOLEAN,
   managed : BOOLEAN]

Usable(listed) ==
  {i \in DOMAIN listed : ~listed[i].error /\ listed[i].major # NoMajor}

\* The order of the sort's key: the node's default first, then a managed one.
Before(r, s) ==
  \/ r.default /\ ~s.default
  \/ r.default = s.default /\ r.managed /\ ~s.managed

\* The runtime to suggest, if any will do.
Recommended(listed, req) ==
  LET best == Pick(req, {listed[i].major : i \in Usable(listed)})
      same == {i \in Usable(listed) : listed[i].major = best}
      tops == {i \in same : ~\E j \in same : Before(listed[j], listed[i])}
  IN IF best = NoMajor THEN NoHome
     ELSE listed[CHOOSE i \in tops : \A j \in tops : i <= j].home

\* list_java: the runtimes that can run a server, and the one recommended.
ListJava(listed, software, version) ==
  IF Known(software, version)
    THEN LET req == Requirement(software, version)
         IN [compatible  |-> {i \in Usable(listed) :
                                Satisfies(req, listed[i].major)},
             recommended |-> Recommended(listed, req)]
    ELSE [compatible |-> {}, recommended |-> NoHome]
=============================================================================
