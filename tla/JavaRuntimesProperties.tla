----------------------- MODULE JavaRuntimesProperties -----------------------
(* What managed runtimes promise.  See JavaRuntimes for the model. *)
EXTENDS JavaRuntimes

\* Two installs never work on one release at once, so neither moves the
\* other's runtime (java.py:371-374).
OneInstallPerRelease ==
  \A i, j \in Running : feature[i] = feature[j] => i = j

\* What stands in a release's place has passed the probe for that release, and
\* is whole but for a removal, or a sweep that raced with an install of it.
HomeIsVerified ==
  \A f \in Features : home[f] \in Installs =>
    /\ home[f] \in sound /\ feature[home[f]] = f
    /\ home[f] \in torn => f \in pulled \cup {feature[i] : i \in hit}

\* A release that was installed stays so: its place is empty for no longer than
\* a swap takes, unless an operator removed it, a crash cut the swap, or a
\* sweep took the names of the install that was swapping (java.py:400-408).
PreviousIsKept ==
  \A f \in had : home[f] = None =>
    \/ \E i \in Running : feature[i] = f /\ phase[i] = "swapped"
    \/ f \in pulled \cup cut \cup {feature[i] : i \in hit}

\* What a killed install left under temporary names is gone once the next
\* install that runs alone has swept (java.py:418-434).
SweepIsThorough ==
  [][\A i \in Installs :
       phase[i] = "sweeping" /\ phase'[i] = "download" =>
         \A n \in temp : phase[n[2]] # "killed"
     ]_vars

\* java.py:420-421: "Only while this is the sole install running, since those
\* names are in use otherwise": a sweep takes no name of a running install.
SweepSparesInstalls == hit = {}
=============================================================================
