-------------------------- MODULE MC_LSProcesses --------------------------
EXTENDS LSProcesses

\* Every stdout/stderr disposition pair a ProcessCreate may carry.
MC_StdioReqs == StdoutModes \X StderrModes

\* One request of each shape for the liveness runs: a channel stdout with
\* stderr merged into it, launcher-bound stdout and stderr, and stderr
\* merged into a discarded stdout (the request create_process crashes on).
MC_LiveStdioReqs == {<<"chan", "stdout">>, <<"be", "pipe">>, <<"devnull", "stdout">>}
=============================================================================
