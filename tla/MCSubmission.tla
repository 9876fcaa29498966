---------------------------- MODULE MCSubmission ----------------------------
(***************************************************************************)
(* SubmissionAuthority on small instances, and what its documentation and  *)
(* the submit handler say of it.                                           *)
(***************************************************************************)
EXTENDS SubmissionAuthority

CONSTANTS c1, c2, q1, q2, s1

Perms == Permutations(Callers)

\* The run explores concurrent handlers and snapshots while at most one item has
\* been enqueued and the queue has changed at most twice; beyond that, handlers
\* one after another.
Focus ==
    \/ issued <= 1 /\ revision <= 2
    \/ /\ \E c \in Callers : \A d \in Callers \ {c} : call[d].step = "idle"
       /\ \A s \in Readers : snapshot[s].stage = "none"

\* SubmissionAuthority: (session_id, client_request_id) is the primary key of
\* de-duplication.  A client request enqueues one item.
EnqueuedOnce ==
    \A i, j \in DOMAIN queue : queue[i].request = queue[j].request => i = j

\* submit_session_input, Auto mode: the input of a busy session is put in the
\* queue.  A submission answered Queued names an item that was enqueued.
QueuedIsEnqueued ==
    \A c \in Callers :
        call[c].step = "done" /\ call[c].disp.kind = "Queued" => call[c].disp.item \in 1..issued
=============================================================================
