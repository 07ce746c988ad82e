----------------------------- MODULE MCHostTables ----------------------------
(***************************************************************************)
(* Small instances of HostTables.  errno and so differ between the two     *)
(* numberings in both rows, so a table that is torn anywhere shows.        *)
(***************************************************************************)
EXTENDS HostTables

MCRows == {1, 2}

\* Linux 11/110 and Windows 10035/1460 for errno, shortened; SOL_SOCKET 1/65535.
MCLinuxCol ==
  [g \in Groups |-> [r \in MCRows |-> r]]
MCHostCol ==
  [g \in Groups |-> [r \in MCRows |-> 10 + r]]

TwoProcs == {"app", "child"}

AllFrames == {"t1", "t2", "h1", "c1"}
AllProc == [f \in AllFrames |-> IF f = "c1" THEN "child" ELSE "app"]

SignalHandlers == {"h1"}
OverT1 == [h \in SignalHandlers |-> "t1"]

\* setsockopt: the option's number there, and an errno if it fails.
OptionPlans == {[before |-> <<"so">>, after |-> <<>>]}

ErrnoOnly == <<"errno">>
==============================================================================
