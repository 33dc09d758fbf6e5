--------------------------- MODULE MCBlobsAvailable -------------------------
EXTENDS BlobsAvailable

\* One connection with everything going on, or two connections, the second
\* perhaps of another process.
MCSetting == {[conns |-> 1, actions |-> TRUE, readers |-> TRUE],
              [conns |-> 2, actions |-> FALSE, readers |-> FALSE]}

\* Two connections of one process.
MCReconnect == {[conns |-> 2, actions |-> FALSE, readers |-> FALSE]}
=============================================================================
