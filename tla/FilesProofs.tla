---------------------------- MODULE FilesProofs ----------------------------
(***************************************************************************)
(* What an extraction never does to a server's files, for any files,       *)
(* archives, commands and requests that run side by side.                  *)
(***************************************************************************)
EXTENDS ServerFilesProperties, WellFoundedInduction,
        SequenceTheorems, TLAPS

Phases == {"idle", "working", "part", "undoing", "installed", "ended",
           "refused", "failed", "killed"}

\* Every variable has its type.
Typed ==
  /\ tree \in [Files -> Contents]
  /\ phase \in [Requests -> Phases]
  /\ members \in [Extractions -> SUBSET Files]
  /\ overwrite \subseteq Extractions
  /\ todo \in [Extractions -> SUBSET Files]
  /\ pre \in [Extractions -> SUBSET Files]
  /\ created \in [Extractions -> SUBSET Files]
  /\ part \in [Extractions \cup Updates -> Files \cup {Unknown}]
  /\ target \in [Renames \cup Updates -> {<<>>} \cup Files \X Files]
  /\ start \in Commands
  /\ jarPath \in Files \cup {Unknown}
  /\ misled \subseteq Updates
  /\ recorded \in Updates \cup {Nobody}
  /\ crashes \in Nat
  /\ changed \in [Updates -> SUBSET (Files \cup {Unknown})]

\* Where a member of an extraction's archive is: found there, still to be
\* written, or made by the extraction, and so for it to take away again.
Accounted(e) ==
  /\ todo[e] \subseteq members[e] /\ pre[e] \subseteq members[e]
  /\ created[e] \subseteq members[e] \ pre[e]
  /\ phase[e] = "idle" => created[e] = {}
  /\ phase[e] \in {"working", "part"} =>
       created[e] = members[e] \ (pre[e] \cup todo[e])
  /\ phase[e] = "part" => part[e] \in todo[e]

Accounts == \A e \in Extractions : Accounted(e)

\* A temporary file is that of the file it is to replace; a rename under way
\* has its names.
Targets ==
  /\ \A u \in Updates : phase[u] = "part" => part[u] \in Files
  /\ \A r \in Renames : phase[r] = "working" => target[r] \in Files \X Files

IInv == Typed /\ Accounts /\ Targets /\ MembersAreWhole

LEMMA InvIsTyped == IInv => TypeOK
  BY DEF IInv, Typed, Accounts, Accounted, TypeOK, Phases

-----------------------------------------------------------------------------
(* What is in a file *)

LEMMA ContentsKinds ==
  /\ NoFile \in Contents /\ NoFile.whole = TRUE
  /\ \A w \in Writers : /\ Whole(w) \in Contents /\ Whole(w).whole = TRUE
                        /\ Partial(w) \in Contents
                        /\ Partial(w).by = w /\ Partial(w).whole = FALSE
  BY DEF NoFile, Contents, Whole, Partial

\* With a jar path in the directory, the file is in it, and so is every file a
\* command is found to run.
LEMMA ResolveNamesFiles ==
  ASSUME NEW c \in Commands, NEW set \in Files \cup {Unknown}
  PROVE  Resolve(c.tokens, set) \in Files \cup {Unknown}
<1> DEFINE t == c.tokens
<1>1. t \in Seq([is : STRING, names : Seq(Files)])
  BY CommandAssumption
<1> HIDE DEF t
<1>2. ASSUME NEW i \in DOMAIN t
      PROVE  OnlyJar(t[i]) \in Files \cup {Unknown}
  <2>1. t[i] \in [is : STRING, names : Seq(Files)]
    BY <1>1, <1>2, ElementOfSeq, LenProperties
  <2>2. t[i].names \in Seq(Files)
    BY <2>1
  <2>3. CASE Len(t[i].names) = 1
    BY <2>2, <2>3 DEF OnlyJar
  <2>4. CASE Len(t[i].names) # 1
    BY <2>4 DEF OnlyJar
  <2>5. QED BY <2>3, <2>4
<1> DEFINE jars  == {i \in Positions(t, "-jar") : HasOperand(t, i)}
                      \cup Positions(t, "-jar=")
           paths == {i \in Positions(t, "-cp") : HasOperand(t, i)}
<1>3. ASSUME NEW P \in SUBSET DOMAIN t, P # {}
      PROVE  First(P) \in P
  <2>1. P \subseteq Nat /\ P # {}
    BY <1>1, <1>3
  <2>2. PICK i \in P : \A j \in P : <<j, i>> \notin OpToRel(<, Nat)
    BY <2>1, NatLessThanWellFounded, WFMin
  <2>3. \A j \in P : ~(j < i)
    BY <2>1, <2>2 DEF OpToRel
  <2>4. \A j \in P : i <= j
    BY <2>1, <2>3
  <2>5. QED BY <2>4 DEF First
<1>4. ASSUME NEW i \in DOMAIN t, HasOperand(t, i)
      PROVE  i + 1 \in DOMAIN t
  <2>1. DOMAIN t = 1..Len(t) /\ Len(t) \in Nat
    BY <1>1
  <2>2. QED BY <1>4, <2>1 DEF HasOperand
<1>5. jars \in SUBSET DOMAIN t /\ paths \in SUBSET DOMAIN t
  BY DEF Positions
<1>6. Parsed(t) \in Files \cup {Unknown}
  <2>1. ASSUME jars # {}
        PROVE  OnlyJar(JarNamed(t, First(jars))) \in Files \cup {Unknown}
    <3>1. First(jars) \in jars
      BY <1>3, <1>5, <2>1
    <3> DEFINE i == First(jars)
    <3> HIDE DEF i
    <3>2. CASE t[i].is = "-jar"
      <4>1. i \in DOMAIN t /\ HasOperand(t, i)
        BY <3>1, <3>2 DEF Positions, i
      <4> QED BY <1>2, <1>4, <3>2, <4>1 DEF JarNamed, i
    <3>3. CASE t[i].is # "-jar"
      <4>1. i \in DOMAIN t
        BY <1>5, <3>1 DEF i
      <4> QED BY <1>2, <3>3, <4>1 DEF JarNamed, i
    <3> QED BY <3>2, <3>3
  <2>2. ASSUME paths # {}
        PROVE  OnlyJar(t[First(paths) + 1]) \in Files \cup {Unknown}
    <3>1. First(paths) \in paths
      BY <1>3, <1>5, <2>2
    <3>2. First(paths) \in DOMAIN t /\ HasOperand(t, First(paths))
      BY <3>1 DEF Positions
    <3> QED BY <1>2, <1>4, <3>2
  <2>3. QED BY <2>1, <2>2 DEF Parsed
<1>7. QED BY <1>6 DEF Resolve, t

-----------------------------------------------------------------------------
(* The invariant holds initially and is preserved *)

LEMMA InitIInv == Init => IInv
<1> SUFFICES ASSUME Init PROVE IInv
  OBVIOUS
<1>1. Whole(Found) \in Contents /\ Whole(Found).whole = TRUE
  BY ContentsKinds DEF Writers
<1>2. Typed
  <2>1. jarPath \in Files \cup {Unknown}
    BY RequestAssumption, CommandAssumption DEF Init
  <2> QED BY <1>1, <2>1, ContentsKinds DEF Init, Typed, Phases
<1>3. Accounts
  BY DEF Init, Accounts, Accounted, Requests
<1>4. Targets
  BY KindAssumption DEF Init, Targets, Requests
<1>5. MembersAreWhole
  BY <1>1, ContentsKinds DEF Init, MembersAreWhole
<1>6. QED BY <1>2, <1>3, <1>4, <1>5 DEF IInv

LEMMA LooksKeeps ==
  ASSUME IInv, NEW e \in Extractions, Looks(e)
  PROVE  IInv'
<1> USE DEF IInv
<1>1. PICK files \in Archives :
        /\ members' = [members EXCEPT ![e] = files]
        /\ todo' = [todo EXCEPT ![e] = files]
        /\ pre' = [pre EXCEPT ![e] = {f \in files : Exists(f)}]
  BY DEF Looks
<1>2. files \subseteq Files
  BY DEF Archives
<1>3. Typed'
  BY <1>1, <1>2 DEF Looks, At, hub, Typed, Phases, Requests
<1>4. Accounts'
  <2> SUFFICES ASSUME NEW x \in Extractions PROVE Accounted(x)'
    BY DEF Accounts
  <2>1. CASE x = e
    BY <1>1, <1>2, <2>1 DEF Looks, Begins, At, Typed, Accounts, Accounted,
                            Requests
  <2>2. CASE x # e
    BY <1>1, <2>2 DEF Looks, At, Typed, Accounts, Accounted, Requests
  <2>3. QED BY <2>1, <2>2
<1>5. Targets'
  BY KindAssumption DEF Looks, At, hub, Typed, Targets, Requests
<1>6. MembersAreWhole'
  BY DEF Looks, MembersAreWhole
<1>7. QED BY <1>3, <1>4, <1>5, <1>6

\* An extraction that ends is as one that has not begun; the others go on.
LEMMA ForgetIs ==
  ASSUME Typed, NEW es \in SUBSET Extractions, Forget(es)
  PROVE  /\ members' \in [Extractions -> SUBSET Files]
         /\ todo' \in [Extractions -> SUBSET Files]
         /\ pre' \in [Extractions -> SUBSET Files]
         /\ created' \in [Extractions -> SUBSET Files]
         /\ overwrite' \subseteq Extractions
         /\ \A e \in es : /\ members'[e] = {} /\ todo'[e] = {}
                          /\ pre'[e] = {} /\ created'[e] = {}
         /\ \A e \in Extractions \ es :
              /\ members'[e] = members[e] /\ todo'[e] = todo[e]
              /\ pre'[e] = pre[e] /\ created'[e] = created[e]
BY DEF Forget, Typed

LEMMA RefusesKeeps ==
  ASSUME IInv, NEW e \in Extractions, Refuses(e)
  PROVE  IInv'
<1> USE DEF IInv
<1>1. Typed'
  BY ForgetIs DEF Refuses, At, hub, Typed, Phases, Requests
<1>2. Accounts'
  BY ForgetIs DEF Refuses, At, Typed, Accounts, Accounted, Requests
<1>3. Targets'
  BY KindAssumption DEF Refuses, At, Typed, Targets, Requests
<1>4. MembersAreWhole'
  BY DEF Refuses, MembersAreWhole
<1>5. QED BY <1>1, <1>2, <1>3, <1>4

LEMMA WritesPartKeeps ==
  ASSUME IInv, NEW e \in Extractions, WritesPart(e)
  PROVE  IInv'
<1> USE DEF IInv
<1>1. PICK f \in todo[e] : part' = [part EXCEPT ![e] = f]
  BY DEF WritesPart
<1>2. tree' = tree /\ f \in Files
  BY DEF WritesPart, During, Typed
<1>3. Typed'
  BY <1>1, <1>2 DEF WritesPart, At, archive, hub, Typed, Phases, Requests
<1>4. Accounts'
  <2> SUFFICES ASSUME NEW x \in Extractions PROVE Accounted(x)'
    BY DEF Accounts
  <2>1. CASE x = e
    BY <1>1, <2>1 DEF WritesPart, At, archive, Typed, Accounts, Accounted,
                      Requests
  <2>2. CASE x # e
    BY <1>1, <2>2 DEF WritesPart, At, archive, Typed, Accounts, Accounted,
                      Requests
  <2>3. QED BY <2>1, <2>2
<1>5. Targets'
  BY <1>1, KindAssumption DEF WritesPart, At, Typed, Targets, Requests
<1>6. MembersAreWhole'
  BY <1>2 DEF MembersAreWhole
<1>7. QED BY <1>3, <1>4, <1>5, <1>6

LEMMA ReplacesKeeps ==
  ASSUME IInv, NEW e \in Extractions, Replaces(e)
  PROVE  IInv'
<1> USE DEF IInv
<1> DEFINE f == part[e]
<1>1. f \in todo[e] /\ f \in Files
  BY DEF Replaces, Accounts, Accounted, Typed
<1>2. /\ tree' = [tree EXCEPT ![f] = Whole(e)]
      /\ created' = [created EXCEPT ![e] = Created(e, f)]
      /\ todo' = [todo EXCEPT ![e] = todo[e] \ {f}]
      /\ Change({f})
  BY DEF Replaces
<1>3. Created(e, f) \subseteq Files
  BY <1>1 DEF Created, Typed
<1>4. Whole(e) \in Contents /\ Whole(e).whole = TRUE
  BY ContentsKinds DEF Writers
<1> HIDE DEF f
<1>5. Typed'
  BY <1>1, <1>2, <1>3, <1>4
     DEF Replaces, Change, At, archive, hub, Typed, Phases, Requests
<1>6. Accounts'
  <2> SUFFICES ASSUME NEW x \in Extractions PROVE Accounted(x)'
    BY DEF Accounts
  <2>1. CASE x = e
    BY <1>1, <1>2, <2>1 DEF Replaces, At, archive, Created, Typed, Accounts,
                            Accounted, Requests
  <2>2. CASE x # e
    BY <1>2, <2>2 DEF Replaces, At, archive, Typed, Accounts, Accounted,
                      Requests
  <2>3. QED BY <2>1, <2>2
<1>7. Targets'
  BY KindAssumption DEF Replaces, At, Typed, Targets, Requests
<1>8. MembersAreWhole'
  BY <1>1, <1>2, <1>4 DEF MembersAreWhole, Typed
<1>9. QED BY <1>5, <1>6, <1>7, <1>8

LEMMA RaisesKeeps ==
  ASSUME IInv, NEW e \in Extractions, Raises(e)
  PROVE  IInv'
<1> USE DEF IInv
<1>1. Typed'
  BY DEF Raises, PartLeft, At, archive, hub, Typed, Phases, Requests
<1>2. Accounts'
  <2> SUFFICES ASSUME NEW x \in Extractions PROVE Accounted(x)'
    BY DEF Accounts
  <2>1. CASE x = e
    BY <2>1 DEF Raises, At, archive, Typed, Accounts, Accounted, Requests
  <2>2. CASE x # e
    BY <2>2 DEF Raises, PartLeft, At, archive, Typed, Accounts, Accounted,
                Requests
  <2>3. QED BY <2>1, <2>2
<1>3. Targets'
  BY KindAssumption DEF Raises, PartLeft, At, Typed, Targets, Requests
<1>4. MembersAreWhole'
  BY DEF Raises, MembersAreWhole
<1>5. QED BY <1>1, <1>2, <1>3, <1>4

LEMMA UndoesKeeps ==
  ASSUME IInv, NEW e \in Extractions, Undoes(e)
  PROVE  IInv'
<1> USE DEF IInv
<1>1. PICK f \in created[e] :
        /\ tree' = [tree EXCEPT ![f] = NoFile]
        /\ created' = [created EXCEPT ![e] = created[e] \ {f}]
        /\ Change({f})
  BY DEF Undoes
<1>2. f \in Files
  BY DEF Typed
<1>3. Typed'
  BY <1>1, <1>2, ContentsKinds DEF Undoes, Change, archive, hub, Typed
<1>4. Accounts'
  <2> SUFFICES ASSUME NEW x \in Extractions PROVE Accounted(x)'
    BY DEF Accounts
  <2>1. CASE x = e
    BY <1>1, <2>1 DEF Undoes, archive, Typed, Accounts, Accounted
  <2>2. CASE x # e
    BY <1>1, <2>2 DEF Undoes, archive, Typed, Accounts, Accounted
  <2>3. QED BY <2>1, <2>2
<1>5. Targets'
  BY DEF Undoes, Targets
<1>6. MembersAreWhole'
  BY <1>1, <1>2, ContentsKinds DEF MembersAreWhole, Typed
<1>7. QED BY <1>3, <1>4, <1>5, <1>6

LEMMA EndsKeeps ==
  ASSUME IInv, NEW e \in Extractions, Ends(e)
  PROVE  IInv'
<1> USE DEF IInv
<1>1. Typed'
  BY ForgetIs, SMTT(30) DEF Ends, At, hub, Typed, Phases, Requests
<1>2. Accounts'
  <2> SUFFICES ASSUME NEW x \in Extractions PROVE Accounted(x)'
    BY DEF Accounts
  <2>1. CASE x = e
    BY <2>1, ForgetIs DEF Ends, At, Typed, Accounts, Accounted, Requests
  <2>2. CASE x # e
    BY <2>2, ForgetIs DEF Ends, At, Typed, Accounts, Accounted, Requests
  <2>3. QED BY <2>1, <2>2
<1>3. Targets'
  BY KindAssumption DEF Ends, At, Typed, Targets, Requests
<1>4. MembersAreWhole'
  BY DEF Ends, MembersAreWhole
<1>5. QED BY <1>1, <1>2, <1>3, <1>4

\* What the file explorer and the updates do to the accounts: nothing.
LEMMA OthersKeepAccounts ==
  ASSUME IInv, NEW r \in Requests \ Extractions, NEW p \in Phases,
         At(r, p), UNCHANGED <<archive, todo, pre, created>>,
         \A e \in Extractions : part'[e] = part[e]
  PROVE  Accounts'
<1> SUFFICES ASSUME NEW x \in Extractions PROVE Accounted(x)'
  BY DEF Accounts
<1>1. phase'[x] = phase[x]
  BY DEF At, IInv, Typed, Requests
<1>2. QED BY <1>1 DEF IInv, archive, Accounts, Accounted

LEMMA SavesKeep ==
  ASSUME IInv, NEW s \in Saves, Truncates(s) \/ Fills(s)
  PROVE  IInv'
<1> USE DEF IInv
<1>1. /\ s \in Requests \ Extractions /\ s \notin Updates
      /\ s \notin Renames /\ s \in Writers
  BY KindAssumption DEF Requests, Writers
<1>2. /\ Whole(s) \in Contents /\ Whole(s).whole = TRUE
      /\ Partial(s) \in Contents /\ Partial(s).by = s
  BY <1>1, ContentsKinds
<1>3. Accounts'
  BY <1>1, OthersKeepAccounts DEF Truncates, Fills, Phases
<1>4. Typed'
  BY <1>1, <1>2 DEF Truncates, Fills, Change, At, archive, hub, Typed, Phases
<1>5. Targets'
  BY <1>1 DEF Truncates, Fills, At, Typed, Targets, Requests
<1>6. MembersAreWhole'
  BY <1>1, <1>2 DEF Truncates, Fills, MembersAreWhole, Typed
<1>7. QED BY <1>3, <1>4, <1>5, <1>6

LEMMA RenamesKeep ==
  ASSUME IInv, NEW r \in Renames, RenameLooks(r) \/ Renamed(r)
  PROVE  IInv'
<1> USE DEF IInv
<1>1. r \in Requests \ Extractions /\ r \notin Updates
  BY KindAssumption DEF Requests
<1>2. Accounts'
  BY <1>1, OthersKeepAccounts DEF RenameLooks, Renamed, Phases
<1>3. CASE RenameLooks(r)
  <2>1. PICK from \in Files, to \in Files :
          target' = [target EXCEPT ![r] = <<from, to>>]
    BY <1>3 DEF RenameLooks
  <2>2. Typed'
    BY <1>1, <1>3, <2>1 DEF RenameLooks, At, archive, hub, Typed, Phases
  <2>3. Targets'
    BY <1>1, <1>3, <2>1 DEF RenameLooks, At, Typed, Targets, Requests
  <2>4. MembersAreWhole'
    BY <1>3 DEF RenameLooks, MembersAreWhole
  <2>5. QED BY <1>2, <2>2, <2>3, <2>4
<1>4. CASE Renamed(r)
  <2> DEFINE from == target[r][1]
             to   == target[r][2]
  <2>1. from \in Files /\ to \in Files
    BY <1>4 DEF Renamed, Targets
  <2>2. \/ /\ tree' = [tree EXCEPT ![to] = tree[from], ![from] = NoFile]
           /\ Change({from, to})
        \/ UNCHANGED <<tree, changed>>
    BY <1>4 DEF Renamed
  <2> HIDE DEF from, to
  <2>3. Typed'
    <3>1. tree' \in [Files -> Contents]
      BY <2>1, <2>2, ContentsKinds DEF Typed
    <3>2. changed' \in [Updates -> SUBSET (Files \cup {Unknown})]
      BY <2>1, <2>2 DEF Change, Typed
    <3>3. phase' \in [Requests -> Phases]
      BY <1>1, <1>4 DEF Renamed, At, Typed, Phases
    <3> QED BY <1>4, <3>1, <3>2, <3>3 DEF Renamed, archive, hub, Typed
  <2>4. Targets'
    BY <1>1, <1>4 DEF Renamed, At, Typed, Targets, Requests
  <2>5. MembersAreWhole'
    BY <2>1, <2>2, ContentsKinds DEF MembersAreWhole, Typed
  <2>6. QED BY <1>2, <2>3, <2>4, <2>5
<1>5. QED BY <1>3, <1>4

LEMMA DeletesKeeps ==
  ASSUME IInv, NEW d \in Deletions, Deletes(d)
  PROVE  IInv'
<1> USE DEF IInv
<1>1. d \in Requests \ Extractions /\ d \notin Updates
  BY KindAssumption DEF Requests
<1>2. PICK f \in Files : /\ tree' = [tree EXCEPT ![f] = NoFile]
                         /\ Change({f})
  BY DEF Deletes
<1>3. Accounts'
  BY <1>1, OthersKeepAccounts DEF Deletes, Phases
<1>4. Typed'
  BY <1>1, <1>2, ContentsKinds
     DEF Deletes, Change, At, archive, hub, Typed, Phases
<1>5. Targets'
  BY <1>1 DEF Deletes, At, Typed, Targets, Requests
<1>6. MembersAreWhole'
  BY <1>2, ContentsKinds DEF MembersAreWhole, Typed
<1>7. QED BY <1>3, <1>4, <1>5, <1>6

LEMMA EditsKeep ==
  ASSUME IInv, NEW x \in Edits, EditsCommand(x)
  PROVE  IInv'
<1> USE DEF IInv
<1>1. x \in Requests \ Extractions /\ x \notin Updates
  BY KindAssumption DEF Requests
<1>2. Accounts'
  BY <1>1, OthersKeepAccounts DEF EditsCommand, Phases
<1>3. Typed'
  BY <1>1, RequestAssumption
     DEF EditsCommand, Change, At, archive, Typed, Phases
<1>4. Targets'
  BY <1>1 DEF EditsCommand, At, Typed, Targets, Requests
<1>5. MembersAreWhole'
  BY DEF EditsCommand, MembersAreWhole
<1>6. QED BY <1>2, <1>3, <1>4, <1>5

LEMMA AsksKeeps ==
  ASSUME IInv, NEW u \in Updates, Asks(u)
  PROVE  IInv'
<1> USE DEF IInv
<1>1. u \in Requests \ Extractions /\ u \notin Renames
  BY KindAssumption DEF Requests
<1>2. PICK f \in Files : /\ target' = [target EXCEPT ![u] = <<f, f>>]
                         /\ part' = [part EXCEPT ![u] = f]
  <2>1. Resolve(start.tokens, jarPath) \in Files \cup {Unknown}
    BY ResolveNamesFiles DEF Typed
  <2>2. QED BY <2>1 DEF Asks
<1>3. Accounts'
  <2>1. \A e \in Extractions : part'[e] = part[e]
    BY <1>1, <1>2 DEF Typed
  <2>2. QED BY <1>1, <2>1, OthersKeepAccounts DEF Asks, Phases
<1>4. Typed'
  BY <1>1, <1>2 DEF Asks, At, archive, Typed, Phases
<1>5. Targets'
  BY <1>1, <1>2 DEF Asks, At, Typed, Targets, Requests
<1>6. MembersAreWhole'
  BY DEF Asks, MembersAreWhole
<1>7. QED BY <1>3, <1>4, <1>5, <1>6

LEMMA UpdatesKeep ==
  ASSUME IInv, NEW u \in Updates, Swaps(u) \/ UpdateFails(u) \/ Records(u)
  PROVE  IInv'
<1> USE DEF IInv
<1>1. u \in Requests \ Extractions /\ u \notin Renames /\ u \in Writers
  BY KindAssumption DEF Requests, Writers
<1>2. Whole(u) \in Contents /\ Whole(u).whole = TRUE
  BY <1>1, ContentsKinds
<1>3. Accounts'
  <2>1. \A e \in Extractions : part'[e] = part[e]
    BY <1>1 DEF Swaps, UpdateFails, Records, PartLeft, Typed
  <2>2. QED BY <1>1, <2>1, OthersKeepAccounts
            DEF Swaps, UpdateFails, Records, Phases
<1>4. Swaps(u) => part[u] \in Files
  BY DEF Swaps, Targets
<1>5. Typed'
  BY <1>1, <1>2, <1>4, SMTT(30) DEF Swaps, UpdateFails, Records, PartLeft, At, archive,
                          hub, Typed, Phases
<1>6. Targets'
  BY <1>1 DEF Swaps, UpdateFails, Records, PartLeft, At, Typed, Targets,
              Requests
<1>7. MembersAreWhole'
  BY <1>2, <1>4 DEF Swaps, UpdateFails, Records, MembersAreWhole, Typed
<1>8. QED BY <1>3, <1>5, <1>6, <1>7

LEMMA AgentDiesKeeps ==
  ASSUME IInv, AgentDies
  PROVE  IInv'
<1> USE DEF IInv
<1>1. \A r \in Requests :
        /\ phase'[r] \in Phases
        /\ phase'[r] \notin {"working", "part", "undoing", "installed"}
        /\ phase'[r] = "idle" => phase[r] = "idle"
  BY DEF AgentDies, Typed, Phases
<1>2. Typed'
  BY <1>1, ForgetIs DEF AgentDies, hub, Typed
<1>3. Accounts'
  BY <1>1, ForgetIs DEF AgentDies, Typed, Accounts, Accounted, Requests
<1>4. Targets'
  BY <1>1 DEF Targets, Requests
<1>5. MembersAreWhole'
  BY DEF AgentDies, MembersAreWhole
<1>6. QED BY <1>2, <1>3, <1>4, <1>5

LEMMA NextKeepsIInv == IInv /\ [Next]_vars => IInv'
<1> SUFFICES ASSUME IInv, [Next]_vars PROVE IInv'
  OBVIOUS
<1>1. CASE \E e \in Extractions : Extracts(e)
  BY <1>1, LooksKeeps, RefusesKeeps, WritesPartKeeps, ReplacesKeeps,
     RaisesKeeps, UndoesKeeps, EndsKeeps DEF Extracts
<1>2. CASE \/ \E s \in Saves : Truncates(s) \/ Fills(s)
           \/ \E r \in Renames : RenameLooks(r) \/ Renamed(r)
  BY <1>2, SavesKeep, RenamesKeep
<1>3. CASE \/ \E d \in Deletions : Deletes(d)
           \/ \E x \in Edits : EditsCommand(x)
           \/ \E u \in Updates : Update(u)
  BY <1>3, DeletesKeeps, EditsKeep, AsksKeeps, UpdatesKeep DEF Update
<1>4. CASE AgentDies
  BY <1>4, AgentDiesKeeps
<1>5. CASE UNCHANGED vars
  BY <1>5 DEF vars, work, archive, hub, IInv, Typed, Accounts, Accounted,
              Targets, MembersAreWhole
<1>6. QED BY <1>1, <1>2, <1>3, <1>4, <1>5 DEF Next

LEMMA Invariance == Spec => []IInv
  BY InitIInv, NextKeepsIInv, PTL DEF Spec

-----------------------------------------------------------------------------
(* What the hub records of an update *)

\* An update that is under way or recorded is of the file the start command
\* runs, unless the jar path misled it, and one that is done is what is in its
\* file: but for the files changed and the edits made since.
Remembered(u) ==
  /\ phase[u] \in {"part", "installed"} \/ recorded = u =>
       /\ target[u] \in Files \X Files
       /\ \/ u \in misled \/ Unknown \in changed[u]
          \/ target[u][1] = start.runs
  /\ phase[u] = "part" => part[u] = target[u][1]
  /\ phase[u] = "installed" \/ recorded = u =>
       target[u][1] \in changed[u] \/ tree[target[u][1]] = Whole(u)
  /\ recorded = u => phase[u] = "ended"

RecordInv == \A u \in Updates : Remembered(u)

\* A command the jar is read off runs the file that was read; any other is
\* left to the operator.
CommandsResolve ==
  \A c \in Commands : Parsed(c.tokens) \in {Unknown, c.runs}

\* A step that is not the update's own, and leaves behind what it changes.
Beside(u) ==
  /\ phase'[u] = phase[u] \/ (phase'[u] = "killed" /\ phase[u] # "ended")
  /\ target'[u] = target[u] /\ part'[u] = part[u]
  /\ recorded' = u => recorded = u
  /\ changed[u] \subseteq changed'[u]
  /\ start' = start \/ Unknown \in changed'[u]
  /\ misled \subseteq misled'
  /\ \A f \in Files :
       tree'[f] = tree[f] \/ f \in changed'[u] \/ tree[f] # Whole(u)

LEMMA BesideKeeps ==
  ASSUME NEW u \in Updates, Remembered(u), Beside(u)
  PROVE  Remembered(u)'
BY DEF Remembered, Beside

LEMMA ChangeAdds ==
  ASSUME NEW S, Change(S)
  PROVE  /\ \A u \in Updates : changed[u] \subseteq changed'[u]
         /\ \A u \in Updates : S \subseteq changed'[u]
BY DEF Change

LEMMA ExtractsBeside ==
  ASSUME IInv, NEW u \in Updates, NEW e \in Extractions, Extracts(e)
  PROVE  Beside(u)
<1> USE DEF IInv
<1>1. u \in Requests /\ u # e /\ u \notin Extractions /\ e \in Requests
  BY KindAssumption DEF Requests
<1>2. phase'[u] = phase[u]
  BY <1>1 DEF Extracts, Looks, Refuses, WritesPart, Replaces, Raises, Undoes,
              Ends, At, Typed
<1>3. part'[u] = part[u]
  BY <1>1 DEF Extracts, Looks, Refuses, WritesPart, Replaces, Raises, Undoes,
              Ends, PartLeft, Typed
<1>4. UNCHANGED <<target, start, recorded, misled>>
  BY DEF Extracts, Looks, Refuses, WritesPart, Replaces, Raises, Undoes, Ends,
         hub
<1>5. CASE UNCHANGED <<tree, changed>>
  BY <1>2, <1>3, <1>4, <1>5 DEF Beside
<1>6. CASE \E f, c : f \in Files /\ tree' = [tree EXCEPT ![f] = c] /\ Change({f})
  <2>1. PICK f, c : f \in Files /\ tree' = [tree EXCEPT ![f] = c] /\ Change({f})
    BY <1>6
  <2>2. changed[u] \subseteq changed'[u] /\ f \in changed'[u]
    BY <2>1, ChangeAdds
  <2>3. \A g \in Files : tree'[g] = tree[g] \/ g \in changed'[u]
    BY <2>1, <2>2 DEF Typed
  <2> QED BY <1>2, <1>3, <1>4, <2>2, <2>3 DEF Beside
<1>7. CASE Replaces(e)
  <2>1. part[e] \in Files
    BY <1>7 DEF Replaces, Accounts, Accounted, Typed
  <2>2. tree' = [tree EXCEPT ![part[e]] = Whole(e)] /\ Change({part[e]})
    BY <1>7 DEF Replaces
  <2> QED BY <1>6, <2>1, <2>2
<1>8. CASE Undoes(e)
  <2>1. PICK f \in created[e] :
          tree' = [tree EXCEPT ![f] = NoFile] /\ Change({f})
    BY <1>8 DEF Undoes
  <2>2. f \in Files
    BY DEF Typed
  <2> QED BY <1>6, <2>1, <2>2
<1>9. CASE \/ Looks(e) \/ Refuses(e) \/ WritesPart(e) \/ Raises(e) \/ Ends(e)
  BY <1>5, <1>9 DEF Looks, Refuses, WritesPart, During, Raises, Ends
<1> QED BY <1>7, <1>8, <1>9 DEF Extracts

LEMMA ExplorerBeside ==
  ASSUME IInv, NEW u \in Updates, NEW r \in Requests \ Updates,
         \/ r \in Saves /\ (Truncates(r) \/ Fills(r))
         \/ r \in Renames /\ (RenameLooks(r) \/ Renamed(r))
         \/ r \in Deletions /\ Deletes(r)
         \/ r \in Edits /\ EditsCommand(r)
  PROVE  Beside(u)
<1> USE DEF IInv
<1>1. u \in Requests /\ u # r
  BY DEF Requests
<1>2. phase'[u] = phase[u] /\ UNCHANGED <<part, recorded, misled>>
  BY <1>1 DEF Truncates, Fills, RenameLooks, Renamed, Deletes, EditsCommand,
              At, hub, Typed
<1>3. target'[u] = target[u]
  BY <1>1 DEF Truncates, Fills, RenameLooks, Renamed, Deletes, EditsCommand,
              Typed
<1>4. start' = start \/ Unknown \in changed'[u]
  BY ChangeAdds DEF Truncates, Fills, RenameLooks, Renamed, Deletes,
                    EditsCommand, hub
<1>5. /\ changed[u] \subseteq changed'[u]
      /\ \A f \in Files :
           tree'[f] = tree[f] \/ f \in changed'[u] \/ tree[f] # Whole(u)
  <2>1. CASE Truncates(r)
    <3>1. PICK f \in Files :
            tree' = [tree EXCEPT ![f] = Partial(r)] /\ Change({f})
      BY <2>1 DEF Truncates
    <3>2. changed[u] \subseteq changed'[u] /\ f \in changed'[u]
      BY <3>1, ChangeAdds
    <3> QED BY <3>1, <3>2 DEF Typed
  <2>2. CASE Fills(r)
    <3>1. Partial(r) # Whole(u)
      BY DEF Partial, Whole
    <3> QED BY <2>2, <3>1 DEF Fills
  <2>3. CASE Renamed(r) /\ r \in Renames
    <3>1. PICK from \in Files, to \in Files :
            \/ /\ tree' = [tree EXCEPT ![to] = tree[from], ![from] = NoFile]
               /\ Change({from, to})
            \/ UNCHANGED <<tree, changed>>
      BY <2>3 DEF Renamed, Targets
    <3>2. CASE UNCHANGED <<tree, changed>>
      BY <3>2
    <3>3. CASE /\ tree' = [tree EXCEPT ![to] = tree[from], ![from] = NoFile]
               /\ Change({from, to})
      <4>1. changed[u] \subseteq changed'[u] /\ {from, to} \subseteq changed'[u]
        BY <3>3, ChangeAdds
      <4> QED BY <3>3, <4>1 DEF Typed
    <3> QED BY <3>1, <3>2, <3>3
  <2>4. CASE Deletes(r)
    <3>1. PICK f \in Files : tree' = [tree EXCEPT ![f] = NoFile] /\ Change({f})
      BY <2>4 DEF Deletes
    <3>2. changed[u] \subseteq changed'[u] /\ f \in changed'[u]
      BY <3>1, ChangeAdds
    <3> QED BY <3>1, <3>2 DEF Typed
  <2>5. CASE EditsCommand(r)
    BY <2>5, ChangeAdds DEF EditsCommand
  <2>6. CASE RenameLooks(r)
    BY <2>6 DEF RenameLooks
  <2> QED BY <2>1, <2>2, <2>3, <2>4, <2>5, <2>6
<1> QED BY <1>2, <1>3, <1>4, <1>5 DEF Beside

LEMMA UpdatesBeside ==
  ASSUME IInv, NEW u \in Updates, NEW v \in Updates \ {u}, Update(v)
  PROVE  Beside(u)
<1> USE DEF IInv
<1>1. u \in Requests /\ v \in Requests
  BY DEF Requests
<1>2. /\ phase'[u] = phase[u] /\ part'[u] = part[u] /\ target'[u] = target[u]
      /\ start' = start /\ misled \subseteq misled'
  BY <1>1 DEF Update, Asks, Swaps, UpdateFails, Records, At, PartLeft, hub,
              Typed
<1>3. recorded' = u => recorded = u
  BY DEF Update, Asks, Swaps, UpdateFails, Records, hub
<1>4. CASE Swaps(v)
  <2>1. PICK f \in Files :
          /\ tree' = [tree EXCEPT ![f] = Whole(v)]
          /\ changed'[u] = changed[u] \cup {f}
    BY <1>4 DEF Swaps, Targets
  <2> QED BY <1>2, <1>3, <2>1 DEF Beside, Typed
<1>5. CASE Asks(v) \/ UpdateFails(v) \/ Records(v)
  <2>1. tree' = tree /\ changed'[u] = changed[u]
    BY <1>5 DEF Asks, UpdateFails, Records, Typed
  <2> QED BY <1>2, <1>3, <2>1 DEF Beside
<1> QED BY <1>4, <1>5 DEF Update

LEMMA AgentDiesBeside ==
  ASSUME IInv, NEW u \in Updates, AgentDies
  PROVE  Beside(u)
<1>1. u \in Requests
  BY DEF Requests
<1> QED BY <1>1 DEF AgentDies, Beside, hub

\* The file an update is asked for is the one the start command runs, unless
\* the jar path names another.
LEMMA AsksRemembers ==
  ASSUME CommandsResolve, IInv, RecordInv, NEW u \in Updates, Asks(u)
  PROVE  Remembered(u)'
<1> USE DEF IInv
<1>1. u \in Requests
  BY DEF Requests
<1>2. PICK f \in Files :
        /\ target' = [target EXCEPT ![u] = <<f, f>>]
        /\ part' = [part EXCEPT ![u] = f]
        /\ u \in misled' \/ f = start.runs
  <2> DEFINE f == Resolve(start.tokens, jarPath)
  <2>1. /\ f # Unknown
        /\ target' = [target EXCEPT ![u] = <<f, f>>]
        /\ part' = [part EXCEPT ![u] = f]
    BY DEF Asks
  <2>2. f \in Files
    BY <2>1, ResolveNamesFiles DEF Typed
  <2>3. CASE jarPath = Unknown
    BY <2>1, <2>2, <2>3 DEF Resolve, CommandsResolve, Typed
  <2>4. CASE jarPath # Unknown /\ jarPath = start.runs
    BY <2>1, <2>2, <2>4 DEF Resolve
  <2>5. CASE jarPath # Unknown /\ jarPath # start.runs
    <3>1. u \in misled'
      BY <2>5 DEF Asks
    <3> QED BY <2>1, <2>2, <3>1
  <2> QED BY <2>3, <2>4, <2>5
<1>3. phase' = [phase EXCEPT ![u] = "part"] /\ phase[u] = "idle"
      /\ UNCHANGED <<recorded, start>>
  BY DEF Asks, At, Begins
<1>4. phase'[u] = "part" /\ recorded' # u
  BY <1>1, <1>3 DEF RecordInv, Remembered, Typed
<1>5. target'[u] = <<f, f>> /\ part'[u] = f
  BY <1>2 DEF Typed
<1> QED BY <1>2, <1>3, <1>4, <1>5 DEF Remembered

LEMMA UpdateRemembers ==
  ASSUME IInv, RecordInv, NEW u \in Updates,
         Swaps(u) \/ UpdateFails(u) \/ Records(u)
  PROVE  Remembered(u)'
<1> USE DEF IInv
<1>1. u \in Requests /\ Remembered(u) /\ UNCHANGED <<target, start, misled>>
  BY DEF Requests, RecordInv, Swaps, UpdateFails, Records, hub
<1>2. CASE Swaps(u)
  <2>1. /\ phase[u] = "part" /\ part[u] \in Files /\ part[u] = target[u][1]
        /\ recorded # u
    BY <1>1, <1>2 DEF Swaps, Targets, Remembered
  <2>2. /\ phase'[u] = "installed" /\ recorded' = recorded
        /\ tree'[part[u]] = Whole(u)
        /\ Unknown \in changed[u] => Unknown \in changed'[u]
    BY <1>1, <1>2, <2>1, RequestAssumption DEF Swaps, At, hub, Typed
  <2> QED BY <1>1, <2>1, <2>2 DEF Remembered
<1>3. CASE UpdateFails(u)
  <2>1. phase'[u] = "failed" /\ recorded' # u
    BY <1>1, <1>3 DEF UpdateFails, At, hub, Typed, Remembered
  <2> QED BY <2>1 DEF Remembered
<1>4. CASE Records(u)
  <2>1. phase[u] = "installed" /\ phase'[u] = "ended"
        /\ UNCHANGED <<tree, changed>>
    BY <1>1, <1>4 DEF Records, At, Typed
  <2> QED BY <1>1, <2>1 DEF Remembered
<1> QED BY <1>2, <1>3, <1>4

LEMMA NextRemembers ==
  ASSUME CommandsResolve, IInv, RecordInv, [Next]_vars
  PROVE  RecordInv'
<1> SUFFICES ASSUME NEW u \in Updates PROVE Remembered(u)'
  BY DEF RecordInv
<1>1. CASE Beside(u)
  BY <1>1, BesideKeeps DEF RecordInv
<1>2. CASE \E e \in Extractions : Extracts(e)
  BY <1>1, <1>2, ExtractsBeside
<1>3. CASE \/ \E s \in Saves : Truncates(s) \/ Fills(s)
           \/ \E r \in Renames : RenameLooks(r) \/ Renamed(r)
           \/ \E d \in Deletions : Deletes(d)
           \/ \E x \in Edits : EditsCommand(x)
  <2>1. /\ Saves \cup Renames \cup Deletions \cup Edits \subseteq Requests
        /\ Updates \cap (Saves \cup Renames \cup Deletions \cup Edits) = {}
    BY KindAssumption DEF Requests
  <2> QED BY <1>1, <1>3, <2>1, ExplorerBeside
<1>4. CASE \E v \in Updates : Update(v)
  <2>1. CASE Update(u)
    BY <2>1, AsksRemembers, UpdateRemembers DEF Update
  <2>2. CASE \E v \in Updates \ {u} : Update(v)
    BY <1>1, <2>2, UpdatesBeside
  <2> QED BY <1>4, <2>1, <2>2
<1>5. CASE AgentDies
  BY <1>1, <1>5, AgentDiesBeside
<1>6. CASE UNCHANGED vars
  <2>1. Beside(u)
    BY <1>6 DEF vars, work, archive, hub, Beside
  <2> QED BY <1>1, <2>1
<1> QED BY <1>2, <1>3, <1>4, <1>5, <1>6 DEF Next

-----------------------------------------------------------------------------
(* The theorems *)

\* The state is well typed, and every member of every extraction is accounted
\* for (archive.py:120-153).
THEOREM FilesTyped == Spec => []TypeOK
  BY Invariance, InvIsTyped, PTL

\* A member is whole or not there at all, whatever fails, is killed or runs
\* beside the extraction; a torn file is a save's (archive.py:136-142).
THEOREM MembersWhole == Spec => []MembersAreWhole
<1>1. IInv => MembersAreWhole
  BY DEF IInv
<1>2. QED BY Invariance, <1>1, PTL

\* A failed extraction takes away only what it made, however many of them
\* clean up side by side (archive.py:143-151).
THEOREM UndoSpares == Spec => UndoSparesFound
<1> DEFINE Spares ==
      \A e \in Extractions, f \in Files :
        phase[e] = "undoing" /\ created'[e] # created[e] /\ tree'[f] # tree[f]
          => f \notin pre[e]
<1>1. IInv /\ [Next]_vars => [Spares]_vars
  <2> SUFFICES ASSUME IInv, Next, NEW e \in Extractions, NEW f \in Files,
                      phase[e] = "undoing", created'[e] # created[e],
                      tree'[f] # tree[f]
               PROVE  f \notin pre[e]
    OBVIOUS
  <2>1. ASSUME NEW x \in Extractions, Undoes(x)
        PROVE  f \notin pre[e]
    <3>1. x = e
      BY <2>1 DEF Undoes, IInv, Typed
    <3>2. f \in created[e]
      BY <2>1, <3>1 DEF Undoes, IInv, Typed
    <3>3. QED BY <3>2 DEF IInv, Accounts, Accounted
  <2>2. ASSUME NEW x \in Extractions, Replaces(x)
        PROVE  FALSE
    BY <2>2 DEF Replaces, IInv, Typed
  <2>3. ASSUME NEW x \in Extractions,
               \/ Looks(x) \/ Refuses(x) \/ WritesPart(x) \/ Raises(x)
               \/ Ends(x)
        PROVE  FALSE
    BY <2>3 DEF Looks, Refuses, WritesPart, During, Raises, Ends
  <2>4. ASSUME NEW s \in Saves, Truncates(s) \/ Fills(s)
        PROVE  FALSE
    BY <2>4 DEF Truncates, Fills
  <2>5. ASSUME NEW r \in Renames, RenameLooks(r) \/ Renamed(r)
        PROVE  FALSE
    BY <2>5 DEF RenameLooks, Renamed
  <2>6. ASSUME NEW d \in Deletions, Deletes(d)
        PROVE  FALSE
    BY <2>6 DEF Deletes
  <2>7. ASSUME NEW x \in Edits, EditsCommand(x)
        PROVE  FALSE
    BY <2>7 DEF EditsCommand
  <2>8. ASSUME NEW u \in Updates, Update(u)
        PROVE  FALSE
    BY <2>8 DEF Update, Asks, Swaps, UpdateFails, Records
  <2>9. ~AgentDies
    BY DEF AgentDies
  <2>10. QED
    BY <2>1, <2>2, <2>3, <2>4, <2>5, <2>6, <2>7, <2>8, <2>9
       DEF Next, Extracts
<1>2. QED BY Invariance, <1>1, PTL DEF Spec, UndoSparesFound

\* What the hub has recorded is in the file the update was for, and that file
\* is the one the server will run unless a stored jar path named another, however
\* many updates of one server, extractions and edits of files, commands and jar
\* paths run side by side or are cut short: where the jar read off a command is
\* the one it runs (versions.py:71-128, serverjar.py:64-109).
THEOREM RecordedInstalled ==
  ASSUME CommandsResolve
  PROVE  Spec => []RecordedIsInstalled
<1>1. Init => RecordInv
  BY RequestAssumption DEF Init, RecordInv, Remembered, Requests
<1>2. RecordInv /\ IInv => RecordedIsInstalled
  BY DEF RecordInv, Remembered, RecordedIsInstalled, IInv, Typed
<1>3. CommandsResolve /\ IInv /\ RecordInv /\ [Next]_vars => RecordInv'
  BY NextRemembers
<1> QED BY Invariance, <1>1, <1>2, <1>3, PTL DEF Spec
=============================================================================
