CONSTANTS
  Threads = {t1, t2}
  Fds <- MC_Fds
  MaxConns <- MC_MaxConns
  ListenBlocking = FALSE
  FcntlMayFail = FALSE
  SOCK_CLOEXEC = SOCK_CLOEXEC
  SOCK_NONBLOCK = SOCK_NONBLOCK
  SOCK_OTHER = SOCK_OTHER

SPECIFICATION Spec

SYMMETRY Symmetry

INVARIANT NoCloexecLeak
