------------------------- MODULE ConsoleProperties -------------------------
(* What the way from a server's log to the browsers promises.               *)
EXTENDS Console

WholeLine(text) ==
  \E h \in Halves : EndsLine(h) /\ text = <<Half(h.gen, h.k - 1), h>>

\* No line is ever emitted with text of another in it, or with a part missing:
\* however the writes of the server and the polls fall, and across rotation
\* and truncation.  But the first after the follower began in mid-line, and
\* the lines of a file it could not tell from the one before (follow).
LinesAreWhole ==
  \A i \in DOMAIN lines :
    LET text == lines[i]
        h    == text[Len(text)]
    IN \/ WholeLine(text)
       \/ h.gen \in misread
       \/ last.first /\ i = 1 /\ text = <<h>>

\* Lines are emitted in their order, each once and none left out, within a
\* file and from its first line, or from where the follower began; a file is
\* never gone back to (follow).
LinesFollowOn ==
  [][last' # last /\ ~last'.first /\ last'.gen \notin misread =>
       \/ last'.gen = last.gen /\ last'.n = last.n + 1
       \/ last'.gen > last.gen /\ last'.n = 1]_vars

\* What waits for a browser is always the newest events published to it, in
\* their order: all it has not taken, or QueueMax of them (registry.stream).
Lower(m, n) == IF m < n THEN m ELSE n

Newest(n, m) == [i \in 1..n |-> m - n + i]     \* the last n of events 1..m

BacklogIsLatest ==
  \A b \in watching :
    queue[b] = Newest(Lower(published - taken[b], QueueMax), published)

\* Once a server goes quiet, as it does here, a browser that stays connected is
\* sent its last line, however far behind it was (node_events).
NewestIsSent ==
  \A b \in Browsers :
    queue[b] # <<>> ~> \/ b \notin watching
                       \/ taken[b] = published /\ inflight[b] = 0
=============================================================================
