-------------------------- MODULE SubmissionAuthority --------------------------
(***************************************************************************)
(* The queue of one session behind agendao-server-core's                   *)
(* SubmissionAuthority and the HTTP handlers of routes/session/steering.rs *)
(* that call it.                                                           *)
(*                                                                         *)
(* Every table has a lock of its own.  A submission checks the idempotency *)
(* cache, enqueues and records its disposition under three separate locks; *)
(* a queue mutation does the same under one more lock, held throughout.    *)
(* Enqueue and pop take none of that lock.  A handler may be dropped with  *)
(* its connection at any await.  Calls refused before they reach the       *)
(* authority (unknown session, blank request id) change nothing and are    *)
(* left out; payload hashes are taken to be free of collisions.            *)
(***************************************************************************)
EXTENDS Integers, Sequences, SequencesExt

CONSTANTS
    Callers,        \* handler invocations that may run at the same time
    RequestIds,     \* client_request_id values
    Readers,        \* handlers that build snapshots
    Contents,       \* prompt texts
    Blank,          \* a text that is empty when trimmed
    Modes,          \* submission modes in use: "Queue", "Auto"
    None,
    MaxItems,       \* bound on the items ever enqueued
    MaxRevision,    \* bound on the queue revision
    MaxStale        \* bound on how far behind an expected revision is

Ids == 1..MaxItems

QueuedItems == [id : Ids, request : RequestIds, content : Contents]

\* What a request carries, and so what its payload hash tells apart.
Submits == [op : {"submit"}, item : {0}, expected : {0}, arg : Contents]
Mutates ==
    [op : {"edit"}, item : Ids, expected : 0..MaxRevision, arg : Contents \cup {Blank}]
        \cup [op : {"delete"}, item : Ids, expected : 0..MaxRevision, arg : {0}]
        \cup [op : {"move"}, item : Ids, expected : 0..MaxRevision, arg : 0..(MaxItems - 1)]

Kinds == {"Queued", "Applied", "Started", "EmptyContent", "QueueRevisionConflict",
          "QueuePositionOutOfRange", "QueueItemNotFound", "IdempotencyPayloadMismatch"}

\* A disposition: Queued, Applied, Started, or the reason of a rejection.
Dispositions == [kind : Kinds, item : 0..MaxItems, position : Nat, revision : Nat]

Payloads == Submits \cup Mutates

Entries == [payload : Payloads, disp : Dispositions]

ASSUME QueueAssumption ==
    /\ None \notin Callers \cup Entries \cup Kinds
    /\ Modes \subseteq {"Queue", "Auto"}
    /\ MaxItems \in Nat
    /\ MaxRevision \in Nat
    /\ MaxStale \in Nat

VARIABLES
    queue,        \* queued_prompts: the session's items, in order
    revision,     \* queue_revisions: the session's revision
    issued,       \* items ever enqueued; their ids are 1..issued
    gone,         \* ids popped or removed
    submissions,  \* idempotency_cache
    mutations,    \* queue_mutation_cache
    lock,         \* queue_mutation_lock
    call,         \* the call of each handler: step, request id, payload, disposition
    effects,      \* the mutations that changed the queue, in order
    snapshot      \* the build_runtime_snapshot of each reader: stage, revision, items

tables == <<queue, revision, issued, gone>>
vars == <<queue, revision, issued, gone, submissions, mutations, lock, call, effects, snapshot>>

Submit(content) == [op |-> "submit", item |-> 0, expected |-> 0, arg |-> content]

Disposition(kind, item, position, rev) ==
    [kind |-> kind, item |-> item, position |-> position, revision |-> rev]

Rejected(reason) == Disposition(reason, 0, 0, 0)

Init ==
    /\ queue = <<>>
    /\ revision = 0
    /\ issued = 0
    /\ gone = {}
    /\ submissions = [q \in RequestIds |-> None]
    /\ mutations = [q \in RequestIds |-> None]
    /\ lock = None
    /\ call = [c \in Callers |-> [step |-> "idle", req |-> None, payload |-> None, disp |-> None]]
    /\ effects = <<>>
    /\ snapshot = [s \in Readers |-> [stage |-> "none", revision |-> 0, items |-> <<>>]]

-----------------------------------------------------------------------------
\* A cached disposition answers the same payload; another payload under the
\* same request id is refused.
Replay(entry, payload) ==
    IF entry.payload = payload THEN entry.disp ELSE Rejected("IdempotencyPayloadMismatch")

Free(c) == call[c].step \in {"idle", "done"}

At(c, step, q, payload, disp) ==
    call' = [call EXCEPT ![c] = [step |-> step, req |-> q, payload |-> payload, disp |-> disp]]

Advance(c, step, disp) == At(c, step, call[c].req, call[c].payload, disp)

(* submit_session_input *)

\* Auto mode answers without touching the authority: Started when the session
\* is free, otherwise Queued with a made-up item at position 0, revision 1.
SubmitAuto(c, q, content) ==
    /\ "Auto" \in Modes
    /\ Free(c)
    /\ \E disp \in {Disposition("Started", 0, 0, 0), Disposition("Queued", 0, 0, 1)} :
          At(c, "done", q, Submit(content), disp)
    /\ UNCHANGED <<tables, submissions, mutations, lock, effects, snapshot>>

CheckIdempotent(c, q, content) ==
    /\ "Queue" \in Modes
    /\ Free(c)
    /\ IF submissions[q] = None
       THEN At(c, "checked", q, Submit(content), None)
       ELSE At(c, "done", q, Submit(content), Replay(submissions[q], Submit(content)))
    /\ UNCHANGED <<tables, submissions, mutations, lock, effects, snapshot>>

\* Variant: the item gets the id of the one before it.
EnqueueReusesId(c) ==
    /\ call[c].step = "checked"
    /\ issued < MaxItems
    /\ revision < MaxRevision
    /\ queue' = Append(queue, [id |-> issued, request |-> call[c].req,
                               content |-> call[c].payload.arg])
    /\ issued' = issued + 1
    /\ revision' = revision + 1
    /\ Advance(c, "enqueued", Disposition("Queued", issued + 1, Len(queue), revision + 1))
    /\ UNCHANGED <<gone, submissions, mutations, lock, effects, snapshot>>

EnqueuePrompt(c) ==
    /\ call[c].step = "checked"
    /\ issued < MaxItems
    /\ revision < MaxRevision
    /\ queue' = Append(queue, [id |-> issued + 1, request |-> call[c].req,
                               content |-> call[c].payload.arg])
    /\ issued' = issued + 1
    /\ revision' = revision + 1
    /\ Advance(c, "enqueued", Disposition("Queued", issued + 1, Len(queue), revision + 1))
    /\ UNCHANGED <<gone, submissions, mutations, lock, effects, snapshot>>

RecordDisposition(c) ==
    /\ call[c].step = "enqueued"
    /\ submissions' = [submissions EXCEPT ![call[c].req] =
                         [payload |-> call[c].payload, disp |-> call[c].disp]]
    /\ Advance(c, "done", call[c].disp)
    /\ UNCHANGED <<tables, mutations, lock, effects, snapshot>>

-----------------------------------------------------------------------------
(* delete_queued_input, edit_queued_input, reorder_queued_input *)

Holds(item) == \E i \in DOMAIN queue : queue[i].id = item

PositionOf(item) == CHOOSE i \in DOMAIN queue : queue[i].id = item

\* The checks of remove_, edit_ and reorder_queued_prompt, in the code's order.
\* Variant: the expected revision is not compared.
RejectionUnversioned(p) ==
    CASE p.op = "edit" /\ p.arg = Blank -> "EmptyContent"
      [] p.op = "move" /\ issued > 0 /\ p.arg >= Len(queue) -> "QueuePositionOutOfRange"
      [] ~ Holds(p.item) -> "QueueItemNotFound"
      [] OTHER -> None

Rejection(p) ==
    CASE p.op = "edit" /\ p.arg = Blank -> "EmptyContent"
      [] p.expected # revision -> "QueueRevisionConflict"
      [] p.op = "move" /\ issued > 0 /\ p.arg >= Len(queue) -> "QueuePositionOutOfRange"
      [] ~ Holds(p.item) -> "QueueItemNotFound"
      [] OTHER -> None

\* Positions count from 0; moving an item to its own position changes nothing.
InPlace(p) == p.op = "move" /\ PositionOf(p.item) = p.arg + 1

Edited(i, content) == [queue EXCEPT ![i].content = content]

Removed(i) == RemoveAt(queue, i)

\* Variant: the item is inserted at its new position and left at the old one.
MovedTwice(i, position) == InsertAt(queue, position + 1, queue[i])

Moved(i, position) == InsertAt(RemoveAt(queue, i), position + 1, queue[i])

Mutated(p) ==
    LET i == PositionOf(p.item)
    IN  CASE p.op = "edit" -> Edited(i, p.arg)
          [] p.op = "delete" -> Removed(i)
          [] p.op = "move" -> Moved(i, p.arg)

\* Variant: the mutation lock is not taken into account.
BeginMutationUnlocked(c, q, p) ==
    /\ Free(c)
    /\ p.expected \in (revision - MaxStale)..revision
    /\ IF mutations[q] = None
       THEN At(c, "locked", q, p, None) /\ lock' = c
       ELSE At(c, "done", q, p, Replay(mutations[q], p)) /\ UNCHANGED lock
    /\ UNCHANGED <<tables, submissions, mutations, effects, snapshot>>

\* A caller expects a revision it has been told.
BeginMutation(c, q, p) ==
    /\ Free(c)
    /\ lock = None
    /\ p.expected \in (revision - MaxStale)..revision
    /\ IF mutations[q] = None
       THEN At(c, "locked", q, p, None) /\ lock' = c
       ELSE At(c, "done", q, p, Replay(mutations[q], p)) /\ UNCHANGED lock
    /\ UNCHANGED <<tables, submissions, mutations, effects, snapshot>>

RejectMutation(c) ==
    LET p == call[c].payload
    IN  /\ call[c].step = "locked"
        /\ Rejection(p) # None
        /\ Advance(c, "applied", Rejected(Rejection(p)))
        /\ UNCHANGED <<tables, submissions, mutations, lock, effects, snapshot>>

ApplyMutation(c) ==
    LET p == call[c].payload
    IN  /\ call[c].step = "locked"
        /\ Rejection(p) = None
        /\ ~ InPlace(p)
        /\ revision < MaxRevision
        /\ queue' = Mutated(p)
        /\ revision' = revision + 1
        /\ gone' = IF p.op = "delete" THEN gone \cup {p.item} ELSE gone
        /\ effects' = Append(effects, [req |-> call[c].req, payload |-> p])
        /\ Advance(c, "applied",
                   Disposition("Applied", p.item,
                               IF p.op = "move" THEN p.arg ELSE PositionOf(p.item) - 1,
                               revision + 1))
        /\ UNCHANGED <<issued, submissions, mutations, lock, snapshot>>

KeepInPlace(c) ==
    LET p == call[c].payload
    IN  /\ call[c].step = "locked"
        /\ Rejection(p) = None
        /\ InPlace(p)
        /\ Advance(c, "applied", Disposition("Applied", p.item, p.arg, revision))
        /\ UNCHANGED <<tables, submissions, mutations, lock, effects, snapshot>>

RecordMutation(c) ==
    /\ call[c].step = "applied"
    /\ mutations' = [mutations EXCEPT ![call[c].req] =
                       [payload |-> call[c].payload, disp |-> call[c].disp]]
    /\ lock' = None
    /\ Advance(c, "done", call[c].disp)
    /\ UNCHANGED <<tables, submissions, effects, snapshot>>

\* The connection of a waiting handler goes away; the lock's guard with it.
DropCall(c) ==
    /\ ~ Free(c)
    /\ lock' = IF lock = c THEN None ELSE lock
    /\ At(c, "idle", None, None, None)
    /\ UNCHANGED <<tables, submissions, mutations, effects, snapshot>>

-----------------------------------------------------------------------------
\* Variant: a pop is not a new revision.
PopUnversioned ==
    /\ queue # <<>>
    /\ queue' = Tail(queue)
    /\ gone' = gone \cup {Head(queue).id}
    /\ UNCHANGED <<revision, issued, submissions, mutations, lock, call, effects, snapshot>>

PopQueuedPrompt ==
    /\ queue # <<>>
    /\ revision < MaxRevision
    /\ queue' = Tail(queue)
    /\ revision' = revision + 1
    /\ gone' = gone \cup {Head(queue).id}
    /\ UNCHANGED <<issued, submissions, mutations, lock, call, effects, snapshot>>

(* build_runtime_snapshot reads the revision and the items one after the other. *)

ReadRevision(s) ==
    /\ snapshot[s].stage # "revision"
    /\ snapshot' = [snapshot EXCEPT ![s] =
                       [stage |-> "revision", revision |-> revision, items |-> <<>>]]
    /\ UNCHANGED <<tables, submissions, mutations, lock, call, effects>>

ReadItems(s) ==
    /\ snapshot[s].stage = "revision"
    /\ snapshot' = [snapshot EXCEPT ![s] =
                       [stage |-> "full", revision |-> snapshot[s].revision, items |-> queue]]
    /\ UNCHANGED <<tables, submissions, mutations, lock, call, effects>>

-----------------------------------------------------------------------------
SubmitStep(c) ==
    \/ \E q \in RequestIds, content \in Contents :
          SubmitAuto(c, q, content) \/ CheckIdempotent(c, q, content)
    \/ EnqueuePrompt(c)
    \/ RecordDisposition(c)

MutateStep(c) ==
    \/ \E q \in RequestIds, p \in Mutates : BeginMutation(c, q, p)
    \/ RejectMutation(c)
    \/ ApplyMutation(c)
    \/ KeepInPlace(c)
    \/ RecordMutation(c)

Next ==
    \/ \E c \in Callers : SubmitStep(c) \/ MutateStep(c) \/ DropCall(c)
    \/ PopQueuedPrompt
    \/ \E s \in Readers : ReadRevision(s) \/ ReadItems(s)

Spec == Init /\ [][Next]_vars

-----------------------------------------------------------------------------
(* Properties *)

\* Every variable holds a value of its type.
TypeOK ==
    /\ queue \in Seq(QueuedItems)
    /\ revision \in 0..MaxRevision
    /\ issued \in 0..MaxItems
    /\ gone \subseteq Ids
    /\ submissions \in [RequestIds -> Entries \cup {None}]
    /\ mutations \in [RequestIds -> Entries \cup {None}]
    /\ lock \in Callers \cup {None}
    /\ call \in [Callers ->
           [step : {"idle", "checked", "enqueued", "locked", "applied", "done"},
            req : RequestIds \cup {None}, payload : Payloads \cup {None},
            disp : Dispositions \cup {None}]]
    /\ effects \in Seq([req : RequestIds, payload : Mutates])
    /\ snapshot \in [Readers -> [stage : {"none", "revision", "full"},
                                 revision : 0..MaxRevision, items : Seq(QueuedItems)]]

\* Every item ever enqueued is in the queue or gone, never both, and in the
\* queue once: no edit, move, removal or pop loses or doubles one.
NothingLostOrDoubled ==
    /\ {queue[i].id : i \in DOMAIN queue} = (1..issued) \ gone
    /\ \A i, j \in DOMAIN queue : queue[i].id = queue[j].id => i = j

\* A mutation changes the queue at most once, however often it is retried, by
\* whichever handler, before or after its answer was lost.
AppliedOnce == \A i, j \in DOMAIN effects : effects[i] = effects[j] => i = j

\* Two answers to the same mutation agree: concurrent duplicates see one
\* disposition.
ReplaysAgree ==
    \A c, d \in Callers :
        /\ call[c].step = "done" /\ call[c].payload.op # "submit"
        /\ call[d].step = "done" /\ call[d].payload = call[c].payload
        /\ call[d].req = call[c].req
        => call[d].disp = call[c].disp

\* A snapshot whose revision is still current shows the current queue, although
\* its two parts are read at different times: a mutation that expects the
\* revision of a snapshot acts on the queue its author saw.
SnapshotIsCurrent ==
    \A s \in Readers :
        snapshot[s].stage = "full" /\ snapshot[s].revision = revision =>
            snapshot[s].items = queue

\* The queue conserves its items (enqueue_prompt, pop_queued_prompt and the mutations).
QueueSound == TypeOK /\ NothingLostOrDoubled

\* Mutations are idempotent: one effect and one answer for each of them
\* (the *_idempotent operations under queue_mutation_lock).
Idempotent == AppliedOnce /\ ReplaysAgree
=============================================================================
