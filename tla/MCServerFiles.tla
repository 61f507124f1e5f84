---------------------------- MODULE MCServerFiles ----------------------------
(* Instances of ServerFiles for TLC. *)
EXTENDS ServerFilesProperties, TLC

CONSTANTS a, b, e1, e2, u1, u2

TwoExtractions == {e1, e2}
TwoUpdates     == {u1, u2}
Same == Permutations(TwoExtractions) \cup Permutations(TwoUpdates)

Command(tokens, file) == [tokens |-> tokens, runs |-> file]

\* The command of a new server, and a -jar after a class path.
SomeCommands ==
  { Command(StartCommand("paper", TRUE), JarForType("paper")),
    Command(<<Java, ClassPath, Path(<<a>>), Jar, Path(<<b>>)>>, b) }
=============================================================================
