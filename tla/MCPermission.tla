---------------------------- MODULE MCPermission ----------------------------
(***************************************************************************)
(* PermissionRendezvous on a small instance, and what four comments of the *)
(* server say of it.                                                       *)
(***************************************************************************)
EXTENDS PermissionRendezvous

CONSTANTS r1, h1, h2, k1

OneRun == [r \in {r1} |-> k1]

TwoHttp == [r \in {h1, h2} |-> k1]

\* reply_permission: "The HTTP reply itself is still valid and must reach the
\* waiter immediately".  A request still waiting after its reply was handled
\* has the reply in its channel.
ReplyReachesWaiter ==
    \A r \in Requests : reply[r].step = "done" /\ pc[r] = "waiting" => channel[r] # None

\* reply_permission: "Task-governance seam: the wait is over; resume the
\* ledger."  When reply and request are both over the ledger does not wait.
ReplyResumesLedger ==
    \A r \in Requests :
        reply[r].step = "done" /\ pc[r] \in {"granted", "rejected"} => r \notin ledger.awaiting

\* PendingPermissionGuard: "Ensures a pending permission request can never
\* outlive its waiting future".
PendingHasFuture == \A r \in pending : pc[r] # "dropped"

\* RuntimeStateStore: "every active execution aspect must be reflected here".
\* While a request waits unanswered, the runtime state shows a request.
WaitIsShown ==
    (\E r \in pending : pc[r] = "waiting" /\ channel[r] = None) => shown # None
=============================================================================
