----------------------------- MODULE MCHostCalls -----------------------------
(***************************************************************************)
(* Instances of HostCalls for TLC: the groups of gen.rs whole.             *)
(***************************************************************************)
EXTENDS HostCalls

\* Signals that XNU numbers by what is another signal's number on Linux.
Moved == {"SIGBUS", "SIGCHLD", "SIGCONT", "SIGIO", "SIGRTMAX", "SIGSTOP", "SIGSYS", "SIGTSTP",
          "SIGURG", "SIGUSR2"}

\* What does not cross as a C program would have it: the README tells of each.
MCExcepted ==
  ({"windows", "xnu"} \X {"file"} \X {"O_PATH"})
  \union ({"windows", "xnu"} \X {"unlinkat"} \X {"AT_REMOVEDIR"})
  \union ({"xnu"} \X {"file"} \X {"O_SYNC", "O_RSYNC"})
  \union ({"xnu"} \X {"command"} \X {"F_DUPFD", "F_GETFD"})
  \union ({"xnu"} \X {"signal"} \X {"SIGUSR1", "SIGRTMAX"})
  \union ({"xnu"} \X {"blocked"} \X {"SIGRTMAX"})
  \union ({"xnu"} \X {"awaited"} \X Moved)
  \union ({"windows"} \X {"option"} \X {"SO_REUSEADDR"})
  \union ({"xnu"} \X {"discovery"} \X {"PROBE"})

NoneExcepted == {}

\* errno_to_linux can rely on the tables of gen.rs.
ASSUME ErrnoAssumption ==
  \A h \in {"linux", "windows", "xnu"} :
    ErrnoTables([errno |-> errno[h], compat |-> compat[h], junkerr |-> junkerr[h],
                 preferred |-> ERRNO_PREFERRED])

==============================================================================
