---------------------------- MODULE MCShmChannel -----------------------------
\* One channel whose messages use every way a message can go, in every succession of two:
\* directly, through one buffer, and in chunks that alternate between two buffers.  A real
\* channel uses the first two (SHMHACK) or the last (POSIXIPC).
EXTENDS ShmChannel, TLC

CONSTANTS direct, x1, x2

\* Large, small, large, large, small, small messages of SHMHACK, then messages of two,
\* three and one chunks of POSIXIPC, then a large one of SHMHACK again.
MCRoute == ShmhackRoute(<<FALSE, TRUE, FALSE, FALSE, TRUE, TRUE>>, direct)
           \o PipcRoute(<<2, 3, 1>>) \o ShmhackRoute(<<FALSE>>, direct)
==============================================================================
