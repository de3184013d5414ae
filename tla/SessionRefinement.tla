------------------------- MODULE SessionRefinement -------------------------
(***************************************************************************)
(* When is the session engine the atomic machine that one user expects?    *)
(* SessionEngine with a history variable that says whether a request went  *)
(* past a chat that is waiting for the model.                              *)
(***************************************************************************)
EXTENDS SessionEngine

VARIABLE overlapped \* history: a chat is waiting past which another request went

Waiting == {c \in Callers : ~Free(c)}

WatchedInit == Init /\ overlapped = FALSE

WatchedNext == /\ Next
               /\ overlapped' = (/\ Waiting' # {}
                                 /\ \/ overlapped
                                    \/ \E c \in Waiting : call'[c] = call[c])

WatchedSpec == WatchedInit /\ [][WatchedNext]_<<vars, overlapped>>

\* As long as no request goes past a chat that is waiting, the engine is an
\* atomic session machine, chats, clones, crashes and torn files included.
\* So it is again after chats have overlapped, whatever they left behind.
ImplementsMachine ==
    /\ Machine!Init
    /\ [][overlapped \/ overlapped' \/ Machine!Next]_(Machine!vars)
=============================================================================
