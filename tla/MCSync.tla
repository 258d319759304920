------------------------------- MODULE MCSync -------------------------------
\* The scenes of the runs of Sync.
EXTENDS Sync

\* A device on a good socket, one in trouble, one that reads pages only, and one
\* over whose conversation an old copy is written besides.
Calm == [pageSize |-> 2, live |-> TRUE, httpFails |-> FALSE, restarts |-> FALSE,
         keeps |-> {TRUE}, staleWrites |-> FALSE, maxSeq |-> 2]
Trouble == [Calm EXCEPT !.pageSize = 1, !.httpFails = TRUE, !.restarts = TRUE,
                        !.keeps = BOOLEAN]
Pages == [Calm EXCEPT !.live = FALSE, !.httpFails = TRUE, !.restarts = TRUE,
                      !.maxSeq = 3]
Stale == [Pages EXCEPT !.staleWrites = TRUE, !.maxSeq = 2]

MCScenes == {Calm, Trouble, Pages, Stale}
=============================================================================
