----------------------------- MODULE ServerJar -----------------------------
(***************************************************************************)
(* serverjar.py: which file a start command executes.  A token is a record *)
(* of what it looks like and the files it names; a command is a sequence   *)
(* of tokens.  And the command a new server starts with.                   *)
(***************************************************************************)
EXTENDS Naturals, Sequences, FiniteSets

Unknown == "unknown"

Java        == [is |-> "java", names |-> <<>>]
Jar         == [is |-> "-jar", names |-> <<>>]
ClassPath   == [is |-> "-cp", names |-> <<>>]
ArgFile     == [is |-> "@", names |-> <<>>]
Word        == [is |-> "word", names |-> <<>>]
Path(files) == [is |-> "word", names |-> files]   \* one jar, or a class path
JarOf(file) == [is |-> "-jar=", names |-> <<file>>]   \* flag and file in one

Positions(command, kind) == {i \in DOMAIN command : command[i].is = kind}

First(positions) == CHOOSE i \in positions : \A j \in positions : i <= j

\* Wildcard entries of a class path are not among its names; of several jars
\* none is the executable.  What follows -jar is one file.
OnlyJar(token) ==
  IF Len(token.names) = 1 THEN token.names[1] ELSE Unknown

HasOperand(command, i) == i < Len(command)

ParsedMistake(command) ==
  LET words == {i \in DOMAIN command : command[i].names # <<>>}
  IN IF words = {} THEN Unknown ELSE command[First(words)].names[1]

\* The token with the name of the file that a -jar of either form runs.
JarNamed(command, i) ==
  IF command[i].is = "-jar" THEN command[i + 1] ELSE command[i]

\* resolve, without the operator's override.
Parsed(command) ==
  LET jars  == {i \in Positions(command, "-jar") : HasOperand(command, i)}
                 \cup Positions(command, "-jar=")
      paths == {i \in Positions(command, "-cp") : HasOperand(command, i)}
  IN CASE \/ Positions(command, "java") = {}
          \/ Positions(command, "@") # {} -> Unknown
       [] OTHER -> IF jars # {} THEN OnlyJar(JarNamed(command, First(jars)))
                   ELSE IF paths # {} THEN OnlyJar(command[First(paths) + 1])
                   ELSE Unknown

\* The jar path stored with the instance always wins.
Resolve(command, jarPath) ==
  IF jarPath # Unknown THEN jarPath ELSE Parsed(command)

\* Only a file that path names may be created by an update.
AllowCreate(jarPath) == jarPath # Unknown

-----------------------------------------------------------------------------
(* New servers *)

Launch ==
  [paper    |-> [jar |-> "paper.jar", nogui |-> TRUE],
   vanilla  |-> [jar |-> "server.jar", nogui |-> TRUE],
   velocity |-> [jar |-> "velocity.jar", nogui |-> FALSE]]

\* The name its jar is installed under.
JarForType(software) == Launch[software].jar

\* build_start_command, with a heap size or without.
StartCommand(software, sized) ==
  LET jar == Path(<<JarForType(software)>>)
  IN IF Launch[software].nogui
       THEN IF sized THEN <<Java, Word, Jar, jar, Word>>
                     ELSE <<Java, Jar, jar, Word>>
       ELSE IF sized THEN <<Java, Word, Jar, jar>>
                     ELSE <<Java, Jar, jar>>
=============================================================================
