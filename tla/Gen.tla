--------------------------------- MODULE Gen ---------------------------------
(***************************************************************************)
(* The groups of constants of crates/cosmo-compat/src/gen.rs that a        *)
(* wrapper translates by, as they stand there for each host.               *)
(*                                                                         *)
(* A number of a "mask" group is the set of its bits.  One of an "enum"    *)
(* group beyond 31 bits is written as the i32 of the same 32 bits.         *)
(***************************************************************************)
EXTENDS Xlate

\* Every bit of a u32, what a host without the constant has for it.
Word == 0..31

\* The names of a group, Linux's numbers for them, and each host's.
Table(kind, names, linux, windows, xnu) ==
  [h \in {"linux", "windows", "xnu"} |->
     [kind |-> kind, names |-> names, linux |-> linux,
      host |-> [linux |-> linux, windows |-> windows, xnu |-> xnu][h]]]

-------------------------------------------------------------------------------

errno == Table("enum",
  <<"E2BIG", "EACCES", "EADDRINUSE", "EADDRNOTAVAIL", "EAFNOSUPPORT",
    "EAGAIN", "EALREADY", "EAUTH", "EBADARCH", "EBADEXEC", "EBADF", "EBADFD",
    "EBADMACHO", "EBADMSG", "EBADRPC", "EBUSY", "ECANCELED", "ECHILD",
    "ECONNABORTED", "ECONNREFUSED", "ECONNRESET", "EDEADLK", "EDESTADDRREQ",
    "EDEVERR", "EDOM", "EDQUOT", "EEXIST", "EFAULT", "EFBIG", "EFTYPE",
    "EHOSTDOWN", "EHOSTUNREACH", "EIDRM", "EILSEQ", "EINPROGRESS", "EINTR",
    "EINVAL", "EIO", "EISCONN", "EISDIR", "ELOOP", "EMEDIUMTYPE", "EMFILE",
    "EMLINK", "EMSGSIZE", "EMULTIHOP", "ENAMETOOLONG", "ENEEDAUTH",
    "ENETDOWN", "ENETRESET", "ENETUNREACH", "ENFILE", "ENOATTR", "ENOBUFS",
    "ENODATA", "ENODEV", "ENOENT", "ENOEXEC", "ENOLCK", "ENOLINK",
    "ENOMEDIUM", "ENOMEM", "ENOMSG", "ENONET", "ENOPOLICY", "ENOPROTOOPT",
    "ENOSPC", "ENOSR", "ENOSTR", "ENOSYS", "ENOTBLK", "ENOTCONN", "ENOTDIR",
    "ENOTEMPTY", "ENOTRECOVERABLE", "ENOTSOCK", "ENOTSUP", "ENOTTY", "ENXIO",
    "EOPNOTSUPP", "EOVERFLOW", "EOWNERDEAD", "EPERM", "EPFNOSUPPORT", "EPIPE",
    "EPROCLIM", "EPROCUNAVAIL", "EPROGMISMATCH", "EPROGUNAVAIL", "EPROTO",
    "EPROTONOSUPPORT", "EPROTOTYPE", "EPWROFF", "ERANGE", "EREMOTE",
    "ERESTART", "EROFS", "ERPCMISMATCH", "ESHLIBVERS", "ESHUTDOWN",
    "ESOCKTNOSUPPORT", "ESPIPE", "ESRCH", "ESTALE", "ETIME", "ETIMEDOUT",
    "ETOOMANYREFS", "ETXTBSY", "EUSERS", "EXDEV">>,
  <<7, 13, 98, 99, 97, 11, 114, 306, 313, 312, 9, 77, 315, 74, 300, 16, 125,
    10, 103, 111, 104, 35, 89, 311, 33, 122, 17, 14, 27, 305, 112, 113, 43,
    84, 115, 4, 22, 5, 106, 21, 40, 124, 24, 31, 90, 72, 36, 307, 100, 102,
    101, 23, 309, 105, 61, 19, 2, 8, 37, 67, 123, 12, 42, 64, 316, 92, 28, 63,
    60, 38, 15, 107, 20, 39, 131, 88, 95, 25, 6, 95, 75, 130, 1, 96, 32, 308,
    304, 303, 302, 71, 93, 91, 310, 34, 66, 85, 30, 301, 314, 108, 94, 29, 3,
    116, 62, 110, 109, 26, 87, 18>>,
  <<1639, 5, 10048, 10049, 10047, 10035, 10037, 1244, 216, 192, 6, 0, 0, 0,
    1626, 170, 1223, 128, 10053, 10061, 10054, 1131, 10039, 483, 20000, 1816,
    183, 487, 223, 222, 10064, 10065, 1287, 582, 10036, 10004, 87, 1117,
    10056, 267, 1921, 0, 4, 1142, 10040, 0, 10063, 224, 10050, 10052, 10051,
    331, 117, 10055, 232, 1200, 2, 193, 158, 0, 0, 14, 4306, 0, 0, 10042, 39,
    0, 0, 1, 26, 10057, 3, 145, 0, 10038, 10045, 1118, 1112, 10045, 534, 105,
    12, 10046, 109, 10067, 15841, 595, 329, 7065, 10043, 10041, 639, 6604,
    10071, 20000, 6009, 1627, 0, 10058, 10044, 25, 566, 10070, 1460, 1460,
    10059, 148, 10068, 17>>,
  <<7, 13, 48, 49, 47, 35, 37, 80, 86, 85, 9, 9, 88, 94, 72, 16, 89, 10, 53,
    61, 54, 11, 39, 83, 33, 69, 17, 14, 27, 79, 64, 65, 90, 92, 36, 4, 22, 5,
    56, 21, 62, 0, 24, 31, 40, 95, 63, 81, 50, 52, 51, 23, 93, 55, 96, 19, 2,
    8, 77, 97, 0, 12, 91, 317, 103, 42, 28, 98, 99, 78, 15, 57, 20, 66, 104,
    38, 45, 25, 6, 102, 84, 105, 1, 46, 32, 67, 76, 75, 74, 100, 43, 41, 82,
    34, 71, 318, 30, 73, 87, 58, 44, 29, 3, 70, 101, 60, 59, 26, 68, 18>>)

compat == Table("enum",
  <<"EWOULDBLOCK", "MAP_32BIT", "MAP_ANON", "MAP_DENYWRITE", "MAP_EXECUTABLE",
    "MAP_NOCORE", "O_LARGEFILE", "RLIMIT_VMEM", "SA_NOMASK", "SA_ONESHOT",
    "SIGIOT", "SIGPOLL">>,
  <<11, 64, 32, 2048, 4096, 0, 32768, 9, 1073741824, (-2147483647 - 1), 6, 29>>,
  <<10035, 0, 32, 0, 0, 0, 0, 127, 1073741824, (-2147483647 - 1), 6, 29>>,
  <<35, 0, 4096, 0, 0, 0, 0, 5, 16, 4, 6, 23>>)

junkerr == Table("enum",
  <<"EADV", "EBADE", "EBADR", "EBADRQC", "EBADSLT", "ECHRNG", "ECOMM",
    "EDOTDOT", "EHWPOISON", "EISNAM", "EKEYEXPIRED", "EKEYREJECTED",
    "EKEYREVOKED", "EL2HLT", "EL2NSYNC", "EL3HLT", "EL3RST", "ELIBACC",
    "ELIBBAD", "ELIBEXEC", "ELIBMAX", "ELIBSCN", "ELNRNG", "ENAVAIL",
    "ENOANO", "ENOCSI", "ENOKEY", "ENOPKG", "ENOTNAM", "ENOTUNIQ", "EREMCHG",
    "EREMOTEIO", "ERFKILL", "ESRMNT", "ESTRPIPE", "EUCLEAN", "EUNATCH",
    "EXFULL">>,
  <<68, 52, 53, 56, 57, 44, 70, 73, 133, 120, 127, 129, 128, 51, 45, 46, 47,
    79, 80, 83, 82, 81, 48, 119, 55, 50, 126, 65, 118, 76, 78, 121, 132, 69,
    86, 117, 49, 54>>,
  <<-1, -1, -1, -1, -1, -1, -1, -1, -1, -1, -1, -1, -1, -1, -1, -1, -1, -1,
    -1, -1, -1, -1, -1, -1, -1, -1, -1, -1, -1, -1, -1, -1, -1, -1, -1, -1,
    -1, -1>>,
  <<-1, -1, -1, -1, -1, -1, -1, -1, -1, -1, -1, -1, -1, -1, -1, -1, -1, -1,
    -1, -1, -1, -1, -1, -1, -1, -1, -1, -1, -1, -1, -1, -1, -1, -1, -1, -1,
    -1, -1>>)

open == Table("mask",
  <<"O_APPEND", "O_ASYNC", "O_CLOEXEC", "O_COMPRESSED", "O_CREAT", "O_DIRECT",
    "O_DIRECTORY", "O_DSYNC", "O_EXCL", "O_EXEC", "O_EXLOCK", "O_INDEXED",
    "O_NOATIME", "O_NOCTTY", "O_NOFOLLOW", "O_NOFOLLOW_ANY", "O_NONBLOCK",
    "O_PATH", "O_RANDOM", "O_RSYNC", "O_SEARCH", "O_SEQUENTIAL", "O_SHLOCK",
    "O_SYNC", "O_TMPFILE", "O_TRUNC", "O_TTY_INIT", "O_UNLINK", "O_VERIFY">>,
  <<{10}, {13}, {19}, {}, {6}, {14}, {16}, {12}, {7}, {21}, Word, {}, {18},
    {8}, {17}, Word, {11}, {21}, {}, {12, 20}, Word, {}, Word, {12, 20}, {16,
    22}, {9}, {}, {30}, Word>>,
  <<{10}, Word, {19}, {29}, {6}, {14}, {16}, Word, {7}, {}, Word, {28}, {},
    {}, {17}, Word, {11}, Word, {31}, Word, Word, {30}, Word, Word, Word, {9},
    {}, {8, 26}, Word>>,
  <<{3}, {6}, {24}, {}, {9}, Word, {20}, {22}, {11}, {}, {5}, {}, {}, {17},
    {8}, {29}, {2}, Word, {}, Word, Word, {}, {4}, {7}, Word, {10}, {}, {30},
    Word>>)

mmap == Table("mask",
  <<"MAP_ANONYMOUS", "MAP_CONCEAL", "MAP_FILE", "MAP_FIXED",
    "MAP_FIXED_NOREPLACE", "MAP_HASSEMAPHORE", "MAP_HUGETLB", "MAP_INHERIT",
    "MAP_JIT", "MAP_LOCKED", "MAP_NOCACHE", "MAP_NOEXTEND", "MAP_NONBLOCK",
    "MAP_NORESERVE", "MAP_NOSYNC", "MAP_POPULATE", "MAP_PRIVATE",
    "MAP_SHARED", "MAP_SHARED_VALIDATE", "MAP_SYNC", "MAP_TYPE">>,
  <<{5}, {}, {}, {4}, {27}, {}, {18}, AllBits, {}, {13}, {}, {}, {16}, {14},
    {}, {15}, {1}, {0}, {0, 1}, {19}, 0..3>>,
  <<{5}, {}, {}, {4}, {27}, {}, AllBits, AllBits, {}, {}, {}, {}, {}, {}, {},
    {}, {1}, {0}, {0}, {}, 0..3>>,
  <<{12}, {}, {}, {4}, {14}, {9}, AllBits, AllBits, {}, {}, {10}, {8}, {},
    {6}, {}, {}, {1}, {0}, {0}, {}, 0..3>>)

mprot == Table("mask",
  <<"PROT_EXEC", "PROT_GUARD", "PROT_NONE", "PROT_READ", "PROT_WRITE">>,
  <<{2}, {}, {}, {0}, {1}>>,
  <<{2}, {8}, {}, {0}, {1}>>,
  <<{2}, {}, {}, {0}, {1}>>)

msg == Table("mask",
  <<"MSG_CTRUNC", "MSG_DONTROUTE", "MSG_DONTWAIT", "MSG_FASTOPEN",
    "MSG_NOSIGNAL", "MSG_OOB", "MSG_PEEK", "MSG_TRUNC", "MSG_WAITALL">>,
  <<{3}, {2}, {6}, {29}, {14}, {0}, {1}, {5}, {8}>>,
  <<{9}, {2}, {6}, AllBits, {28}, {0}, {1}, {8}, {3}>>,
  <<{5}, {2}, {7}, AllBits, {19}, {0}, {1}, {4}, {6}>>)

poll == Table("mask",
  <<"POLLERR", "POLLHUP", "POLLIN", "POLLNVAL", "POLLOUT", "POLLPRI",
    "POLLRDBAND", "POLLRDHUP", "POLLRDNORM", "POLLWRBAND", "POLLWRNORM">>,
  <<{3}, {4}, {0}, {5}, {2}, {1}, {7}, {13}, {6}, {9}, {8}>>,
  <<{0}, {1}, {8, 9}, {2}, {4}, {10}, {9}, {1}, {8}, {5}, {4}>>,
  <<{3}, {4}, {0}, {5}, {2}, {1}, {7}, {4}, {6}, {8}, {2}>>)

sock == Table("mask",
  <<"SOCK_CLOEXEC", "SOCK_DCCP", "SOCK_DGRAM", "SOCK_NONBLOCK", "SOCK_PACKET",
    "SOCK_RAW", "SOCK_RDM", "SOCK_SEQPACKET", "SOCK_STREAM">>,
  <<{19}, {1, 2}, {1}, {11}, {1, 3}, {0, 1}, {2}, {0, 2}, {0}>>,
  <<{19}, {}, {1}, {11}, {}, {0, 1}, {2}, {0, 2}, {0}>>,
  <<{19}, {}, {1}, {11}, {}, {0, 1}, {2}, {0, 2}, {0}>>)

sigact == Table("mask",
  <<"SA_NOCLDSTOP", "SA_NOCLDWAIT", "SA_NODEFER", "SA_ONSTACK",
    "SA_RESETHAND", "SA_RESTART", "SA_SIGINFO">>,
  <<{0}, {1}, {30}, {27}, {31}, {28}, {2}>>,
  <<{0}, {1}, {30}, {27}, {31}, {28}, {2}>>,
  <<{3}, {5}, {4}, {0}, {2}, {1}, {6}>>)

waitpid == Table("mask",
  <<"WCONTINUED", "WNOHANG", "WUNTRACED">>,
  <<{3}, {0}, {1}>>,
  <<{}, {0}, {}>>,
  <<{4}, {0}, {1}>>)

at == Table("enum",
  <<"AT_EACCESS", "AT_EMPTY_PATH", "AT_FDCWD", "AT_REMOVEDIR",
    "AT_SYMLINK_FOLLOW", "AT_SYMLINK_NOFOLLOW">>,
  <<512, 4096, -100, 512, 1024, 256>>,
  <<0, 4096, -100, 512, 1024, 256>>,
  <<16, 0, -2, 128, 64, 32>>)

af == Table("enum",
  <<"AF_ALG", "AF_APPLETALK", "AF_ASH", "AF_ATMPVC", "AF_ATMSVC", "AF_AX25",
    "AF_BLUETOOTH", "AF_BRIDGE", "AF_CAIF", "AF_CAN", "AF_ECONET", "AF_FILE",
    "AF_IB", "AF_IEEE802154", "AF_INET", "AF_INET6", "AF_IPX", "AF_IRDA",
    "AF_ISDN", "AF_IUCV", "AF_KCM", "AF_KEY", "AF_LINK", "AF_LLC", "AF_LOCAL",
    "AF_MAX", "AF_MPLS", "AF_NETBEUI", "AF_NETLINK", "AF_NETROM", "AF_NFC",
    "AF_PACKET", "AF_PHONET", "AF_PPPOX", "AF_RDS", "AF_ROSE", "AF_ROUTE",
    "AF_RXRPC", "AF_SECURITY", "AF_SNA", "AF_TIPC", "AF_UNIX", "AF_UNSPEC",
    "AF_VSOCK", "AF_WANPIPE", "AF_X25", "PF_CAN">>,
  <<38, 5, 18, 8, 20, 3, 31, 7, 37, 29, 19, 1, 27, 36, 2, 10, 4, 23, 34, 32,
    41, 15, -1, 26, 1, 42, 28, 13, 16, 6, 39, 17, 35, 24, 21, 11, 16, 33, 14,
    22, 30, 1, 0, 40, 25, 9, 29>>,
  <<-1, 16, -1, -1, -1, -1, -1, -1, -1, -1, -1, -1, -1, -1, 2, 23, 6, -1, -1,
    -1, -1, -1, -1, -1, 1, 35, -1, -1, -1, -1, -1, -1, -1, -1, -1, -1, -1, -1,
    -1, 11, -1, 1, 0, -1, -1, -1, 0>>,
  <<-1, 16, -1, -1, -1, -1, -1, -1, -1, -1, -1, -1, -1, -1, 2, 30, 23, -1, 28,
    -1, -1, -1, 18, -1, 1, 40, -1, -1, -1, -1, -1, -1, -1, -1, -1, -1, 17, -1,
    -1, 11, -1, 1, 0, -1, -1, -1, 0>>)

so == Table("enum",
  <<"SOL_SOCKET", "SO_ACCEPTCONN", "SO_BROADCAST", "SO_DEBUG", "SO_DONTROUTE",
    "SO_ERROR", "SO_KEEPALIVE", "SO_LINGER", "SO_OOBINLINE", "SO_RCVBUF",
    "SO_RCVLOWAT", "SO_RCVTIMEO", "SO_REUSEADDR", "SO_REUSEPORT", "SO_SNDBUF",
    "SO_SNDLOWAT", "SO_SNDTIMEO", "SO_TYPE", "SO_USELOOPBACK">>,
  <<1, 30, 6, 1, 5, 4, 9, 13, 10, 8, 18, 20, 2, 15, 7, 19, 21, 3, 0>>,
  <<65535, 2, 32, 1, 16, 4103, 8, 128, 256, 4098, 4100, 4102, -5, 0, 4097,
    4099, 4101, 4104, 64>>,
  <<65535, 2, 32, 1, 16, 4103, 8, 4224, 256, 4098, 4100, 4102, 4, 512, 4097,
    4099, 4101, 4104, 64>>)

tcp == Table("enum",
  <<"TCP_CC_INFO", "TCP_CONGESTION", "TCP_COOKIE_TRANSACTIONS", "TCP_CORK",
    "TCP_DEFER_ACCEPT", "TCP_FASTOPEN", "TCP_FASTOPEN_CONNECT", "TCP_INFO",
    "TCP_KEEPCNT", "TCP_KEEPIDLE", "TCP_KEEPINTVL", "TCP_LINGER2",
    "TCP_MAXSEG", "TCP_MD5SIG", "TCP_MD5SIG_MAXKEYLEN", "TCP_NODELAY",
    "TCP_NOTSENT_LOWAT", "TCP_QUEUE_SEQ", "TCP_QUICKACK", "TCP_REPAIR",
    "TCP_REPAIR_OPTIONS", "TCP_REPAIR_QUEUE", "TCP_SAVED_SYN", "TCP_SAVE_SYN",
    "TCP_SYNCNT", "TCP_THIN_DUPACK", "TCP_THIN_LINEAR_TIMEOUTS",
    "TCP_TIMESTAMP", "TCP_ULP", "TCP_USER_TIMEOUT", "TCP_WINDOW_CLAMP">>,
  <<26, 13, 15, 3, 9, 23, 30, 11, 6, 4, 5, 8, 2, 14, 80, 1, 25, 21, 12, 19,
    22, 20, 28, 27, 7, 17, 16, 24, 31, 18, 10>>,
  <<0, 0, 0, 0, 0, 15, 0, 0, 16, 3, 17, 0, 0, 0, 0, 1, 0, 0, 0, 0, 0, 0, 0, 0,
    0, 0, 0, 0, 0, 0, 0>>,
  <<0, 0, 0, 4, 0, 261, 0, 512, 258, 0, 257, 0, 2, 0, 0, 1, 513, 0, 0, 0, 0,
    0, 0, 0, 0, 0, 0, 0, 0, 0, 0>>)

ip == Table("enum",
  <<"IP_ADD_MEMBERSHIP", "IP_DROP_MEMBERSHIP", "IP_HDRINCL", "IP_MTU",
    "IP_MULTICAST_IF", "IP_MULTICAST_LOOP", "IP_MULTICAST_TTL", "IP_OPTIONS",
    "IP_PKTINFO", "IP_RECVTOS", "IP_RECVTTL", "IP_TOS", "IP_TTL">>,
  <<35, 36, 3, 14, 32, 34, 33, 4, 8, 13, 12, 1, 2>>,
  <<12, 13, 2, 73, 9, 11, 10, 1, 19, 40, 21, 3, 4>>,
  <<12, 13, 2, 0, 9, 11, 10, 1, 26, 0, 24, 3, 4>>)

ipv6 == Table("enum",
  <<"IPV6_CHECKSUM", "IPV6_DONTFRAG", "IPV6_HOPLIMIT", "IPV6_HOPOPTS",
    "IPV6_JOIN_GROUP", "IPV6_LEAVE_GROUP", "IPV6_MULTICAST_HOPS",
    "IPV6_MULTICAST_IF", "IPV6_MULTICAST_LOOP", "IPV6_PKTINFO",
    "IPV6_RECVRTHDR", "IPV6_RECVTCLASS", "IPV6_RTHDR", "IPV6_TCLASS",
    "IPV6_UNICAST_HOPS", "IPV6_V6ONLY">>,
  <<7, 62, 52, 54, 20, 21, 18, 17, 19, 50, 56, 66, 57, 67, 16, 26>>,
  <<26, 14, 21, 1, 12, 13, 10, 9, 11, 19, 38, 40, 32, 39, 4, 27>>,
  <<26, 0, 0, 0, 12, 13, 10, 9, 11, 0, 0, 35, 0, 36, 4, 27>>)

sig == Table("enum",
  <<"SIGABRT", "SIGALRM", "SIGBUS", "SIGCHLD", "SIGCONT", "SIGEMT", "SIGFPE",
    "SIGHUP", "SIGILL", "SIGINFO", "SIGINT", "SIGIO", "SIGKILL", "SIGPIPE",
    "SIGPROF", "SIGPWR", "SIGQUIT", "SIGRTMAX", "SIGRTMIN", "SIGSEGV",
    "SIGSTKFLT", "SIGSTOP", "SIGSYS", "SIGTERM", "SIGTHR", "SIGTRAP",
    "SIGTSTP", "SIGTTIN", "SIGTTOU", "SIGURG", "SIGUSR1", "SIGUSR2",
    "SIGVTALRM", "SIGWINCH", "SIGXCPU", "SIGXFSZ">>,
  <<6, 14, 7, 17, 18, 64, 8, 1, 4, 63, 2, 29, 9, 13, 27, 30, 3, 64, 32, 11,
    16, 19, 31, 15, 32, 5, 20, 21, 22, 23, 10, 12, 26, 28, 24, 25>>,
  <<6, 14, 7, 17, 18, 64, 8, 1, 4, 63, 2, 29, 9, 13, 27, 30, 3, 64, 32, 11, 0,
    19, 31, 15, 32, 5, 20, 21, 22, 23, 10, 12, 26, 28, 24, 25>>,
  <<6, 14, 10, 20, 19, 7, 8, 1, 4, 29, 2, 23, 9, 13, 27, 30, 3, 0, 0, 11, 0,
    17, 12, 15, 7, 5, 18, 21, 22, 16, 30, 31, 26, 28, 24, 25>>)

clock == Table("enum",
  <<"CLOCK_BOOTTIME", "CLOCK_MONOTONIC", "CLOCK_MONOTONIC_COARSE",
    "CLOCK_MONOTONIC_RAW", "CLOCK_PROCESS_CPUTIME_ID", "CLOCK_REALTIME",
    "CLOCK_REALTIME_COARSE", "CLOCK_THREAD_CPUTIME_ID">>,
  <<7, 1, 6, 4, 2, 0, 5, 3>>,
  <<3, 1, 6, 1, 4, 0, 2, 5>>,
  <<6, 8, 9, 127, 12, 0, 0, 16>>)

fcntl == Table("enum",
  <<"FREAD", "FWRITE", "F_DUPFD_CLOEXEC", "F_GETLEASE", "F_GETLK",
    "F_GETOWN_EX", "F_GETPIPE_SZ", "F_GETSIG", "F_MAXFD", "F_NOTIFY",
    "F_OFD_GETLK", "F_OFD_SETLK", "F_OFD_SETLKW", "F_RDLCK", "F_SETLEASE",
    "F_SETLK", "F_SETLKW", "F_SETOWN_EX", "F_SETPIPE_SZ", "F_SETSIG",
    "F_UNLCK", "F_WRLCK">>,
  <<0, 0, 1030, 1025, 5, 16, 1032, 11, -1, 1026, 36, 37, 38, 0, 1024, 6, 7,
    15, 1031, 10, 2, 1>>,
  <<0, 0, 1030, -1, 5, -1, -1, -1, -1, -1, -1, -1, -1, 0, -1, 6, 7, -1, -1,
    -1, 2, 1>>,
  <<1, 2, 67, -1, 7, -1, -1, -1, -1, -1, -1, -1, -1, 1, -1, 8, 9, -1, -1, -1,
    2, 3>>)

fcntl2 == Table("enum",
  <<"F_BARRIERFSYNC", "F_DUPFD", "F_FULLFSYNC", "F_GETFD", "F_GETFL",
    "F_GETOWN", "F_NOCACHE", "F_SETFD", "F_SETFL", "F_SETOWN">>,
  <<-1, 0, -1, 1, 3, 9, -1, 2, 4, 8>>,
  <<-1, 0, -1, 1, 3, -1, -1, 2, 4, -1>>,
  <<85, 0, 51, 1, 3, 5, 48, 2, 4, 6>>)

fcntl3 == Table("enum",
  <<"FD_CLOEXEC", "F_GETNOSIGPIPE", "F_GETPATH", "F_SETNOSIGPIPE">>,
  <<1, -1, -1, -1>>,
  <<1, -1, -1, -1>>,
  <<1, 74, 50, 73>>)

ioctl == Table("enum",
  <<"FIOASYNC", "FIOCLEX", "FIONBIO", "FIONCLEX", "FIONREAD", "SIOCADDDLCI",
    "SIOCADDMULTI", "SIOCADDRT", "SIOCDARP", "SIOCDELDLCI", "SIOCDELMULTI",
    "SIOCDELRT", "SIOCDEVPRIVATE", "SIOCDIFADDR", "SIOCDRARP", "SIOCGARP",
    "SIOCGIFADDR", "SIOCGIFBR", "SIOCGIFBRDADDR", "SIOCGIFCONF",
    "SIOCGIFCOUNT", "SIOCGIFDSTADDR", "SIOCGIFENCAP", "SIOCGIFFLAGS",
    "SIOCGIFHWADDR", "SIOCGIFINDEX", "SIOCGIFMAP", "SIOCGIFMEM",
    "SIOCGIFMETRIC", "SIOCGIFMTU", "SIOCGIFNAME", "SIOCGIFNETMASK",
    "SIOCGIFPFLAGS", "SIOCGIFSLAVE", "SIOCGIFTXQLEN", "SIOCGPGRP",
    "SIOCGRARP", "SIOCGSTAMP", "SIOCGSTAMPNS", "SIOCPROTOPRIVATE",
    "SIOCRTMSG", "SIOCSARP", "SIOCSIFADDR", "SIOCSIFBR", "SIOCSIFBRDADDR",
    "SIOCSIFDSTADDR", "SIOCSIFENCAP", "SIOCSIFFLAGS", "SIOCSIFHWADDR",
    "SIOCSIFHWBROADCAST", "SIOCSIFLINK", "SIOCSIFMAP", "SIOCSIFMEM",
    "SIOCSIFMETRIC", "SIOCSIFMTU", "SIOCSIFNAME", "SIOCSIFNETMASK",
    "SIOCSIFPFLAGS", "SIOCSIFSLAVE", "SIOCSIFTXQLEN", "SIOCSPGRP",
    "SIOCSRARP", "SIOGIFINDEX">>,
  <<21586, 21585, 21537, 21584, 21531, 35200, 35121, 35083, 35155, 35201,
    35122, 35084, 35312, 35126, 35168, 35156, 35093, 35136, 35097, 35090,
    35128, 35095, 35109, 35091, 35111, 35123, 35184, 35103, 35101, 35105,
    35088, 35099, 35125, 35113, 35138, 35076, 35169, 35078, 35079, 35296,
    35085, 35157, 35094, 35137, 35098, 35096, 35110, 35092, 35108, 35127,
    35089, 35185, 35104, 35102, 35106, 35107, 35100, 35124, 35120, 35139,
    35074, 35170, 35123>>,
  <<-2147195267, 21585, -2147195266, 21584, 1074030207, 0, 35121, 0, 0, 0,
    35122, 0, 0, 35126, 0, 0, 35093, 0, 35097, 35090, 0, 35095, 0, 35091, 0,
    0, 0, 0, 35101, 35105, 0, 35099, 0, 0, 0, 35076, 0, 0, 0, 0, 0, 0, 35094,
    0, 35098, 35096, 0, 35092, 0, 0, 0, 0, 0, 35102, 35106, 0, 35100, 0, 0, 0,
    35074, 0, 0>>,
  <<-2147195267, 536897025, -2147195266, 536897026, 1074030207, 0,
    -2145359567, 0, 0, 0, -2145359566, 0, 0, -2145359591, 0, 0, -1071617759,
    0, -1071617757, -1072928476, 0, -1071617758, 0, -1071617775, 0, 0, 0, 0,
    -1071617769, -1071617741, 0, -1071617755, 0, 0, 0, 1074033417, 0, 0, 0, 0,
    0, 0, -2145359604, 0, -2145359597, -2145359602, 0, -2145359600, 0, 0, 0,
    0, 0, -2145359592, -2145359564, 0, -2145359594, 0, 0, 0, -2147192056, 0, 0>>)

iff == Table("mask",
  <<"IFF_ALLMULTI", "IFF_AUTOMEDIA", "IFF_BROADCAST", "IFF_DEBUG",
    "IFF_DYNAMIC", "IFF_LOOPBACK", "IFF_MASTER", "IFF_MULTICAST", "IFF_NOARP",
    "IFF_NOTRAILERS", "IFF_POINTOPOINT", "IFF_PORTSEL", "IFF_PROMISC",
    "IFF_RUNNING", "IFF_SLAVE", "IFF_UP">>,
  <<{9}, {14}, {1}, {2}, {15}, {3}, {10}, {12}, {7}, {5}, {4}, {13}, {8}, {6},
    {11}, {0}>>,
  <<{9}, {}, {1}, {2}, {}, {2}, {}, {12}, {7}, {}, {4}, {}, {}, {}, {}, {0}>>,
  <<{9}, {}, {1}, {2}, {}, {3}, {}, {15}, {7}, {5}, {4}, {}, {8}, {6}, {}, {0}>>)

-------------------------------------------------------------------------------

\* std's own vocabulary, by which an errno shared by several names is read.
ERRNO_PREFERRED ==
  <<"EINVAL", "EINTR", "ETIMEDOUT", "ENOSYS", "EBADF", "EAGAIN", "EPERM", "ENOMEM",
    "ENOENT", "EINPROGRESS", "EEXIST", "EXDEV", "ERANGE", "EPIPE", "ENOTTY", "ENOTSUP",
    "ENOTDIR", "ENOTCONN", "ENFILE", "ENAMETOOLONG", "EMFILE", "ELOOP", "ECONNRESET",
    "ECONNREFUSED", "ECONNABORTED", "ECHILD", "EADDRNOTAVAIL", "EADDRINUSE", "EACCES",
    "ETXTBSY", "ESTALE", "ESRCH", "ESPIPE", "EROFS", "ENOTEMPTY", "ENOSPC", "ENETUNREACH",
    "ENETDOWN", "EMLINK", "EISDIR", "EISCONN", "EIO", "EHOSTUNREACH", "EFBIG", "EFAULT",
    "EDQUOT", "EDEADLK", "EBUSY", "E2BIG", "EDOM">>

==============================================================================
