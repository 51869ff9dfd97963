------------------------------ MODULE MCShell ------------------------------
EXTENDS Shell, TLC

CONSTANTS t1, t2
Symmetric == Permutations({t1, t2})
MCTasks == {t1, t2}
MCTask1 == {t1}
MCPaths == {<<"a">>, <<"b">>, <<"a", "a">>, <<"dev">>, <<"dev", "tty">>, <<"dev2">>, <<"proc", "mem">>}
MCBegins == {<<"dev2", "dev">>}
MCSeeks == {-1, 1}
MCDeepPaths == {<<"a">>, <<"a", "a">>, <<"a", "a", "a">>, <<"a", "a", "b">>}
MCBlks == 1..9
\* Where nothing is claimed nothing is explored, and with /dev unmounted the
\* shells make one file or directory, instead of two.
MCBound ==
  /\ ~strayed
  /\ mount_point[1].unmount = 0 \/ Len(disk.inodes) <= 6
=============================================================================
