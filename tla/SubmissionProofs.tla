--------------------------- MODULE SubmissionProofs ---------------------------
(***************************************************************************)
(* Proofs about SubmissionAuthority, for any number of handlers, readers,  *)
(* request ids and items.  IndInv is inductive: it adds to the typing that *)
(* a mutation that has begun holds the lock and finds its request id still *)
(* undecided, that an answered mutation got what the cache holds, that the *)
(* expected revisions of the effective mutations increase and lie below    *)
(* the revision, and that a snapshot is never ahead of the queue.          *)
(*                                                                         *)
(* The second part is about ProjectionSync, the client of these snapshots, *)
(* for all sessions, events and faults.  SyncInv is inductive: events and  *)
(* snapshots under way are of the server's present life, and the snapshot  *)
(* a recovery waits for is not older than what is shown.                   *)
(*                                                                         *)
(* The third part is about WebIngress, where web prompts become turns, for *)
(* all prompts, repetitions and faults.  WebInv is inductive: a prompt is  *)
(* in one place, the batch or one turn, and a batch has a leader.          *)
(***************************************************************************)
EXTENDS SubmissionAuthority, ProjectionSync, WebIngress, SequenceTheorems, FiniteSetTheorems, WellFoundedInduction, TLAPS

\* A call carries what its step needs; one that is past BeginMutation holds the
\* lock; the answer to a mutation is the one the cache gives.
CallGood(c) ==
    /\ call[c].step # "idle" => call[c].req \in RequestIds
    /\ call[c].step \in {"checked", "enqueued"} => call[c].payload \in Submits
    /\ call[c].step \in {"locked", "applied"} =>
          call[c].payload \in Mutates /\ lock = c /\ mutations[call[c].req] = None
    /\ call[c].step \in {"enqueued", "applied", "done"} =>
          call[c].payload \in Payloads /\ call[c].disp \in Dispositions
    /\ call[c].step = "done" /\ call[c].payload \in Mutates =>
          /\ mutations[call[c].req] # None
          /\ call[c].disp = Replay(mutations[call[c].req], call[c].payload)

CallInv == \A c \in Callers : CallGood(c)

\* The expected revisions of the mutations that took effect increase.
EffectsInv ==
    /\ \A i \in DOMAIN effects : effects[i].payload.expected < revision
    /\ \A i, j \in DOMAIN effects :
          i < j => effects[i].payload.expected < effects[j].payload.expected

\* A reader is never ahead of the queue, and at its revision it saw this queue.
SnapshotInv ==
    \A s \in Readers :
        /\ snapshot[s].stage # "none" => snapshot[s].revision <= revision
        /\ snapshot[s].stage = "full" /\ snapshot[s].revision = revision =>
              snapshot[s].items = queue

\* Every id handed out is in the queue or gone, and in the queue once.
IdsOf(s) == {s[i].id : i \in DOMAIN s}

Distinct(s) == \A i, j \in DOMAIN s : s[i].id = s[j].id => i = j

QueueInv ==
    /\ IdsOf(queue) = (1..issued) \ gone
    /\ Distinct(queue)
    /\ gone \subseteq 1..issued

IndInv == TypeOK /\ QueueInv /\ CallInv /\ EffectsInv /\ SnapshotInv

\* RemoveAt closes the gap it makes.
LEMMA RemoveAtProperties ==
    ASSUME NEW S, NEW s \in Seq(S), NEW i \in 1..Len(s)
    PROVE  /\ RemoveAt(s, i) \in Seq(S)
           /\ Len(RemoveAt(s, i)) = Len(s) - 1
           /\ \A j \in 1..(Len(s) - 1) : RemoveAt(s, i)[j] = IF j < i THEN s[j] ELSE s[j + 1]
<1> DEFINE a == SubSeq(s, 1, i - 1)
           b == SubSeq(s, i + 1, Len(s))
<1>1. a \in Seq(S) /\ Len(a) = i - 1 /\ \A j \in 1..(i - 1) : a[j] = s[j]
    OBVIOUS
<1>2. b \in Seq(S) /\ Len(b) = Len(s) - i /\ \A j \in 1..(Len(s) - i) : b[j] = s[i + j]
    OBVIOUS
<1>3. RemoveAt(s, i) = a \o b
    BY DEF RemoveAt
<1> HIDE DEF a, b
<1>4. a \o b \in Seq(S) /\ Len(a \o b) = Len(s) - 1
  <2>1. a \o b \in Seq(S) /\ Len(a \o b) = Len(a) + Len(b)
      BY <1>1, <1>2, ConcatProperties, Zenon
  <2> QED
      BY <1>1, <1>2, <2>1
<1>5. \A j \in 1..(Len(s) - 1) : (a \o b)[j] = IF j < i THEN s[j] ELSE s[j + 1]
  <2> SUFFICES ASSUME NEW j \in 1..(Len(s) - 1)
               PROVE  (a \o b)[j] = IF j < i THEN s[j] ELSE s[j + 1]
      OBVIOUS
  <2>1. CASE j < i
      BY <2>1, <1>1, <1>2
  <2>2. CASE ~(j < i)
    <3>1. (a \o b)[j] = b[j - (i - 1)]
        BY <2>2, <1>1, <1>2
    <3>2. b[j - (i - 1)] = s[j + 1]
        BY <2>2, <1>2
    <3> QED
        BY <2>2, <3>1, <3>2
  <2> QED
      BY <2>1, <2>2
<1> QED
    BY <1>3, <1>4, <1>5

\* InsertAt shifts the tail by one.
LEMMA InsertAtProperties ==
    ASSUME NEW S, NEW s \in Seq(S), NEW i \in 1..(Len(s) + 1), NEW e \in S
    PROVE  /\ InsertAt(s, i, e) \in Seq(S)
           /\ Len(InsertAt(s, i, e)) = Len(s) + 1
           /\ InsertAt(s, i, e)[i] = e
           /\ \A j \in 1..(i - 1) : InsertAt(s, i, e)[j] = s[j]
           /\ \A j \in (i + 1)..(Len(s) + 1) : InsertAt(s, i, e)[j] = s[j - 1]
<1> DEFINE a == SubSeq(s, 1, i - 1)
           m == <<e>>
           b == SubSeq(s, i, Len(s))
           c == a \o m
<1>1. a \in Seq(S) /\ Len(a) = i - 1 /\ \A j \in 1..(i - 1) : a[j] = s[j]
    OBVIOUS
<1>2. b \in Seq(S) /\ Len(b) = Len(s) - i + 1
      /\ \A j \in 1..(Len(s) - i + 1) : b[j] = s[i + j - 1]
    OBVIOUS
<1>3. m \in Seq(S) /\ Len(m) = 1 /\ m[1] = e
    OBVIOUS
<1>4. InsertAt(s, i, e) = c \o b
    BY DEF InsertAt
<1> HIDE DEF a, b, m
<1>5. c \in Seq(S) /\ Len(c) = i
  <2>1. c \in Seq(S) /\ Len(c) = Len(a) + Len(m)
      BY <1>1, <1>3, ConcatProperties, Zenon
  <2> QED
      BY <1>1, <1>3, <2>1
<1>6. \A j \in 1..i : c[j] = IF j < i THEN s[j] ELSE e
  <2> SUFFICES ASSUME NEW j \in 1..i
               PROVE  c[j] = IF j < i THEN s[j] ELSE e
      OBVIOUS
  <2>1. CASE j < i
    <3>1. (a \o m)[j] = a[j]
        BY <2>1, <1>1, <1>3
    <3> QED
        BY <2>1, <3>1, <1>1
  <2>2. CASE j = i
    <3>1. j - Len(a) = 1 /\ Len(a) \in Nat /\ j \in (Len(a) + 1)..(Len(a) + Len(m))
        BY <2>2, <1>1, <1>3
    <3>2. (a \o m)[j] = IF j <= Len(a) THEN a[j] ELSE m[j - Len(a)]
      <4>1. j \in 1..(Len(a) + Len(m))
          BY <3>1, <1>3
      <4> QED
          BY <4>1, <1>1, <1>3, ConcatProperties, Zenon
    <3> QED
        BY <2>2, <3>1, <3>2, <1>3
  <2>3. j < i \/ j = i
      OBVIOUS
  <2> QED
      BY <2>1, <2>2, <2>3
<1> HIDE DEF c
<1>7. c \o b \in Seq(S) /\ Len(c \o b) = Len(s) + 1
  <2>1. c \o b \in Seq(S) /\ Len(c \o b) = Len(c) + Len(b)
      BY <1>2, <1>5, ConcatProperties, Zenon
  <2> QED
      BY <1>2, <1>5, <2>1
<1>8. \A j \in 1..(Len(s) + 1) :
         (c \o b)[j] = IF j < i THEN s[j] ELSE IF j = i THEN e ELSE s[j - 1]
  <2> SUFFICES ASSUME NEW j \in 1..(Len(s) + 1)
               PROVE  (c \o b)[j] = IF j < i THEN s[j] ELSE IF j = i THEN e ELSE s[j - 1]
      OBVIOUS
  <2>1. CASE j <= i
      BY <2>1, <1>2, <1>5, <1>6
  <2>2. CASE ~(j <= i)
    <3>1. (c \o b)[j] = b[j - i]
        BY <2>2, <1>2, <1>5
    <3>2. b[j - i] = s[j - 1]
        BY <2>2, <1>2
    <3> QED
        BY <2>2, <3>1, <3>2
  <2> QED
      BY <2>1, <2>2
<1> DEFINE r == c \o b
<1>9. \A j \in 1..(Len(s) + 1) :
         r[j] = IF j < i THEN s[j] ELSE IF j = i THEN e ELSE s[j - 1]
    BY <1>8, Zenon
<1>10. InsertAt(s, i, e) = r /\ r \in Seq(S) /\ Len(r) = Len(s) + 1
    BY <1>4, <1>7, Zenon
<1> HIDE DEF r
<1>11. Len(s) \in Nat /\ i \in 1..(Len(s) + 1)
    OBVIOUS
<1>12. r[i] = e
    BY <1>9, <1>11
<1>13. \A j \in 1..(i - 1) : r[j] = s[j]
    BY <1>9, <1>11
<1>14. \A j \in (i + 1)..(Len(s) + 1) : r[j] = s[j - 1]
    BY <1>9, <1>11
<1> QED
    BY <1>10, <1>12, <1>13, <1>14, Zenon

\* A removal takes exactly one id out of a queue of distinct items.
LEMMA RemoveAtIds ==
    ASSUME NEW s \in Seq(QueuedItems), Distinct(s), NEW i \in 1..Len(s)
    PROVE  /\ RemoveAt(s, i) \in Seq(QueuedItems)
           /\ Len(RemoveAt(s, i)) = Len(s) - 1
           /\ Distinct(RemoveAt(s, i))
           /\ IdsOf(RemoveAt(s, i)) = IdsOf(s) \ {s[i].id}
<1> DEFINE r == RemoveAt(s, i)
<1>1. /\ r \in Seq(QueuedItems)
      /\ Len(r) = Len(s) - 1
      /\ \A j \in 1..(Len(s) - 1) : r[j] = IF j < i THEN s[j] ELSE s[j + 1]
  BY RemoveAtProperties
<1> HIDE DEF r
<1>2. DOMAIN r = 1..(Len(s) - 1) /\ DOMAIN s = 1..Len(s) /\ Len(s) \in Nat
  BY <1>1
<1>3. Distinct(r)
  <2> SUFFICES ASSUME NEW j \in DOMAIN r, NEW k \in DOMAIN r, r[j].id = r[k].id
               PROVE  j = k
    BY DEF Distinct
  <2> DEFINE Old(x) == IF x < i THEN x ELSE x + 1
  <2>1. \A x \in DOMAIN r : Old(x) \in DOMAIN s /\ r[x] = s[Old(x)]
    BY <1>1, <1>2
  <2>2. Old(j) = Old(k)
    BY <2>1 DEF Distinct
  <2> QED
    BY <1>2, <2>2
<1>4. ASSUME NEW j \in DOMAIN r PROVE r[j].id \in IdsOf(s) \ {s[i].id}
  BY <1>1, <1>2 DEF Distinct, IdsOf
<1>5. ASSUME NEW k \in DOMAIN s, k # i PROVE s[k].id \in IdsOf(r)
  <2>1. CASE k < i
    <3>1. k \in DOMAIN r /\ r[k] = s[k]
      BY <1>1, <1>2, <2>1
    <3> QED
      BY <3>1 DEF IdsOf
  <2>2. CASE k > i
    <3>1. k - 1 \in DOMAIN r /\ r[k - 1] = s[k]
      BY <1>1, <1>2, <2>2
    <3> QED
      BY <3>1 DEF IdsOf
  <2> QED
    BY <1>2, <1>5, <2>1, <2>2
<1>6. IdsOf(r) = IdsOf(s) \ {s[i].id}
  <2>1. IdsOf(r) \subseteq IdsOf(s) \ {s[i].id}
    BY <1>4 DEF IdsOf
  <2>2. IdsOf(s) \ {s[i].id} \subseteq IdsOf(r)
    BY <1>5 DEF IdsOf
  <2> QED
    BY <2>1, <2>2
<1> QED
  BY <1>1, <1>3, <1>6 DEF r

\* An insertion of an item with a new id adds that id and keeps ids distinct.
LEMMA InsertAtIds ==
    ASSUME NEW s \in Seq(QueuedItems), Distinct(s), NEW i \in 1..(Len(s) + 1),
           NEW e \in QueuedItems, e.id \notin IdsOf(s)
    PROVE  /\ InsertAt(s, i, e) \in Seq(QueuedItems)
           /\ Distinct(InsertAt(s, i, e))
           /\ IdsOf(InsertAt(s, i, e)) = IdsOf(s) \cup {e.id}
<1> DEFINE r == InsertAt(s, i, e)
<1>1. /\ r \in Seq(QueuedItems)
      /\ Len(r) = Len(s) + 1
      /\ r[i] = e
      /\ \A j \in 1..(i - 1) : r[j] = s[j]
      /\ \A j \in (i + 1)..(Len(s) + 1) : r[j] = s[j - 1]
  BY InsertAtProperties
<1> HIDE DEF r
<1>2. DOMAIN r = 1..(Len(s) + 1) /\ DOMAIN s = 1..Len(s) /\ Len(s) \in Nat
  BY <1>1
<1>3. \A k \in DOMAIN s : s[k].id # e.id
  BY DEF IdsOf
<1>4. Distinct(r)
  <2> SUFFICES ASSUME NEW j \in DOMAIN r, NEW k \in DOMAIN r, r[j].id = r[k].id
               PROVE  j = k
    BY DEF Distinct
  <2> DEFINE Old(x) == IF x < i THEN x ELSE x - 1
  <2>1. \A x \in DOMAIN r : x # i => Old(x) \in DOMAIN s /\ r[x] = s[Old(x)]
    BY <1>1, <1>2
  <2>2. r[i] = e
    BY <1>1, <1>2
  <2>3. CASE j = i \/ k = i
    BY <1>3, <2>1, <2>2, <2>3
  <2>4. CASE j # i /\ k # i
    <3>1. Old(j) = Old(k)
      BY <2>1, <2>4 DEF Distinct
    <3> QED
      BY <1>2, <2>4, <3>1
  <2> QED
    BY <2>3, <2>4
<1>5. ASSUME NEW j \in DOMAIN r PROVE r[j].id \in IdsOf(s) \cup {e.id}
  <2>1. CASE j < i
    <3>1. j \in DOMAIN s /\ r[j] = s[j]
      BY <1>1, <1>2, <2>1
    <3> QED
      BY <3>1 DEF IdsOf
  <2>2. CASE j = i
    BY <1>1, <2>2
  <2>3. CASE j > i
    <3>1. j - 1 \in DOMAIN s /\ r[j] = s[j - 1]
      BY <1>1, <1>2, <2>3
    <3> QED
      BY <3>1 DEF IdsOf
  <2> QED
    BY <1>2, <2>1, <2>2, <2>3
<1>6. ASSUME NEW k \in DOMAIN s PROVE s[k].id \in IdsOf(r)
  <2>1. CASE k < i
    <3>1. k \in DOMAIN r /\ r[k] = s[k]
      BY <1>1, <1>2, <2>1
    <3> QED
      BY <3>1 DEF IdsOf
  <2>2. CASE k >= i
    <3>1. k + 1 \in DOMAIN r /\ r[k + 1] = s[k]
      BY <1>1, <1>2, <2>2
    <3> QED
      BY <3>1 DEF IdsOf
  <2> QED
    BY <1>2, <2>1, <2>2
<1>7. e.id \in IdsOf(r)
  <2>1. i \in DOMAIN r /\ r[i] = e
    BY <1>1, <1>2
  <2> QED
    BY <2>1 DEF IdsOf
<1>8. IdsOf(r) = IdsOf(s) \cup {e.id}
  <2>1. IdsOf(r) \subseteq IdsOf(s) \cup {e.id}
    BY <1>5 DEF IdsOf
  <2>2. IdsOf(s) \subseteq IdsOf(r)
    BY <1>6 DEF IdsOf
  <2> QED
    BY <1>7, <2>1, <2>2
<1> QED
  BY <1>1, <1>4, <1>8 DEF r

\* The position of a held item is one of the queue's positions and holds it.
LEMMA PositionOfHeld ==
    ASSUME NEW item, Holds(item)
    PROVE  PositionOf(item) \in DOMAIN queue /\ queue[PositionOf(item)].id = item
BY DEF Holds, PositionOf

\* A mutation that is not rejected expects the current revision, names an item
\* of the queue, and carries a usable argument.
LEMMA Unrejected ==
    ASSUME TypeOK, NEW p \in Mutates, Rejection(p) = None
    PROVE  /\ p.expected = revision
           /\ Holds(p.item)
           /\ p.op = "edit" => p.arg # Blank
           /\ p.op = "move" /\ issued > 0 => p.arg < Len(queue)
BY QueueAssumption DEF Rejection, Kinds, Mutates, Ids, TypeOK

\* An edit replaces one text: no id moves.
LEMMA EditedIds ==
    ASSUME NEW s \in Seq(QueuedItems), Distinct(s), NEW i \in 1..Len(s), NEW content \in Contents
    PROVE  /\ [s EXCEPT ![i].content = content] \in Seq(QueuedItems)
           /\ Distinct([s EXCEPT ![i].content = content])
           /\ IdsOf([s EXCEPT ![i].content = content]) = IdsOf(s)
<1> DEFINE r == [s EXCEPT ![i].content = content]
<1>1. \A j \in 1..Len(s) : s[j] \in QueuedItems
  OBVIOUS
<1>2. DOMAIN r = 1..Len(s) /\ DOMAIN s = 1..Len(s) /\ Len(s) \in Nat
  OBVIOUS
<1>3. r[i] = [s[i] EXCEPT !.content = content] /\ \A j \in 1..Len(s) : j # i => r[j] = s[j]
  BY <1>2
<1>4. r[i] \in QueuedItems /\ r[i].id = s[i].id
  BY <1>1, <1>3 DEF QueuedItems
<1>5. \A j \in 1..Len(s) : r[j].id = s[j].id /\ r[j] \in QueuedItems
  BY <1>1, <1>3, <1>4
<1>6. r \in Seq(QueuedItems)
  <2>1. r \in [1..Len(s) -> QueuedItems]
    BY <1>2, <1>5
  <2> QED
    BY <1>2, <2>1, SeqDef
<1> HIDE DEF r
<1>7. Distinct(r)
  BY <1>2, <1>5 DEF Distinct
<1>8. IdsOf(r) = IdsOf(s)
  <2>1. ASSUME NEW j \in 1..Len(s) PROVE r[j].id \in IdsOf(s) /\ s[j].id \in IdsOf(r)
    BY <1>2, <1>5 DEF IdsOf
  <2> QED
    BY <1>2, <2>1 DEF IdsOf
<1> QED
  BY <1>6, <1>7, <1>8 DEF r

\* An accepted mutation keeps the items distinct and takes out at most the item
\* it deletes.
LEMMA MutatedIds ==
    ASSUME TypeOK, QueueInv, NEW p \in Mutates, Rejection(p) = None
    PROVE  /\ Mutated(p) \in Seq(QueuedItems)
           /\ Distinct(Mutated(p))
           /\ IdsOf(Mutated(p)) =
                 IF p.op = "delete" THEN IdsOf(queue) \ {p.item} ELSE IdsOf(queue)
<1> DEFINE i == PositionOf(p.item)
<1>1. queue \in Seq(QueuedItems) /\ Distinct(queue)
  BY DEF TypeOK, QueueInv
<1>2. /\ Holds(p.item)
      /\ p.op = "edit" => p.arg # Blank
      /\ p.op = "move" /\ issued > 0 => p.arg < Len(queue)
  BY Unrejected
<1>3. i \in 1..Len(queue) /\ queue[i].id = p.item /\ queue[i] \in QueuedItems
  BY <1>1, <1>2, PositionOfHeld
<1> HIDE DEF i
<1>4. Mutated(p) = CASE p.op = "edit" -> Edited(i, p.arg)
                     [] p.op = "delete" -> Removed(i)
                     [] p.op = "move" -> Moved(i, p.arg)
  BY DEF Mutated, i
<1>5. CASE p.op = "edit"
  <2>1. p.arg \in Contents
    BY <1>2, <1>5 DEF Mutates
  <2>2. Mutated(p) = [queue EXCEPT ![i].content = p.arg]
    BY <1>4, <1>5 DEF Edited
  <2> DEFINE r == [queue EXCEPT ![i].content = p.arg]
  <2>3. r \in Seq(QueuedItems) /\ Distinct(r) /\ IdsOf(r) = IdsOf(queue)
    BY <1>1, <1>3, <2>1, EditedIds
  <2> HIDE DEF r
  <2>4. Mutated(p) = r /\ p.op # "delete"
    BY <1>5, <2>2 DEF r
  <2> QED
    BY <2>3, <2>4
<1>6. CASE p.op = "delete"
  <2>1. Mutated(p) = RemoveAt(queue, i)
    BY <1>4, <1>6 DEF Removed
  <2>2. /\ RemoveAt(queue, i) \in Seq(QueuedItems)
        /\ Distinct(RemoveAt(queue, i))
        /\ IdsOf(RemoveAt(queue, i)) = IdsOf(queue) \ {p.item}
    BY <1>1, <1>3, RemoveAtIds
  <2> QED
    BY <1>6, <2>1, <2>2
<1>7. CASE p.op = "move"
  <2> DEFINE r == RemoveAt(queue, i)
             e == queue[i]
             k == p.arg + 1
  <2>1. Mutated(p) = InsertAt(r, k, e)
    BY <1>4, <1>7 DEF Moved
  <2>2. /\ r \in Seq(QueuedItems) /\ Distinct(r) /\ Len(r) = Len(queue) - 1
        /\ IdsOf(r) = IdsOf(queue) \ {e.id}
    BY <1>1, <1>3, RemoveAtIds
  <2>3. e \in QueuedItems /\ e.id \notin IdsOf(r) /\ e.id \in IdsOf(queue)
    BY <1>3, <2>2 DEF IdsOf
  <2>4. p.arg \in Nat
    BY <1>7, QueueAssumption DEF Mutates
  <2>5. issued > 0
    BY <2>3 DEF QueueInv, TypeOK
  <2>6. k \in 1..(Len(r) + 1)
    BY <1>1, <1>2, <1>7, <2>2, <2>4, <2>5
  <2> HIDE DEF r, e, k
  <2>7. /\ InsertAt(r, k, e) \in Seq(QueuedItems)
        /\ Distinct(InsertAt(r, k, e))
        /\ IdsOf(InsertAt(r, k, e)) = IdsOf(r) \cup {e.id}
    BY <2>2, <2>3, <2>6, InsertAtIds
  <2>8. IdsOf(r) \cup {e.id} = IdsOf(queue)
    BY <2>2, <2>3
  <2>9. p.op # "delete"
    BY <1>7
  <2> QED
    BY <2>1, <2>7, <2>8, <2>9
<1> QED
  BY <1>5, <1>6, <1>7 DEF Mutates

-----------------------------------------------------------------------------
(* Induction *)

\* A disposition made of typed parts is a disposition; so is a replayed one.
LEMMA DispositionTypes ==
    /\ \A kind \in Kinds, item \in 0..MaxItems, position \in Nat, rev \in Nat :
          Disposition(kind, item, position, rev) \in Dispositions
    /\ \A kind \in Kinds : Rejected(kind) \in Dispositions
    /\ \A entry \in Entries : \A p : Replay(entry, p) \in Dispositions
<1>1. \A kind \in Kinds, item \in 0..MaxItems, position \in Nat, rev \in Nat :
         Disposition(kind, item, position, rev) \in Dispositions
  BY DEF Disposition, Dispositions
<1>2. \A kind \in Kinds : Rejected(kind) \in Dispositions
  BY <1>1, QueueAssumption DEF Rejected
<1>3. "IdempotencyPayloadMismatch" \in Kinds
  BY DEF Kinds
<1> QED
  BY <1>1, <1>2, <1>3 DEF Replay, Entries

\* The payloads of submissions and of mutations never coincide.
LEMMA PayloadKinds ==
    /\ \A content \in Contents :
          Submit(content) \in Submits /\ Submit(content) \in Payloads /\ Submit(content) \notin Mutates
    /\ \A p \in Payloads : p.op # "submit" => p \in Mutates
    /\ \A p \in Submits : p \in Payloads /\ p \notin Mutates /\ p.arg \in Contents
    /\ \A p \in Mutates : p \in Payloads
BY DEF Submit, Submits, Mutates, Payloads

\* The initial state satisfies the invariant.
LEMMA InitInv == Init => IndInv
<1> SUFFICES ASSUME Init PROVE IndInv
  OBVIOUS
<1>1. TypeOK
  BY QueueAssumption DEF Init, TypeOK
<1>2. QueueInv
  BY DEF Init, QueueInv, IdsOf, Distinct
<1>3. CallInv
  BY DEF Init, CallInv, CallGood
<1>4. EffectsInv
  BY DEF Init, EffectsInv
<1>5. SnapshotInv
  BY DEF Init, SnapshotInv
<1> QED
  BY <1>1, <1>2, <1>3, <1>4, <1>5 DEF IndInv

\* What a call record may be.
CallRecords ==
    [step : {"idle", "checked", "enqueued", "locked", "applied", "done"},
     req : RequestIds \cup {None}, payload : Payloads \cup {None},
     disp : Dispositions \cup {None}]

\* A step that leaves the queue and the snapshots alone keeps their invariants.
LEMMA TablesKept ==
    ASSUME IndInv, UNCHANGED <<tables, effects, snapshot>>
    PROVE  QueueInv' /\ EffectsInv' /\ SnapshotInv'
BY DEF IndInv, tables, QueueInv, EffectsInv, SnapshotInv, IdsOf, Distinct

\* A call that keeps the mutation cache, and the lock from every other holder,
\* leaves the other calls good.
LEMMA OtherCalls ==
    ASSUME IndInv, NEW c \in Callers, NEW k \in CallRecords,
           call' = [call EXCEPT ![c] = k], UNCHANGED mutations,
           lock' = lock \/ lock \in {None, c}
    PROVE  /\ call' \in [Callers -> CallRecords]
           /\ call'[c] = k
           /\ \A d \in Callers : d # c => CallGood(d)'
<1>1. call \in [Callers -> CallRecords]
  BY DEF IndInv, TypeOK, CallRecords
<1>2. call' \in [Callers -> CallRecords] /\ call'[c] = k
  BY <1>1
<1>3. ASSUME NEW d \in Callers, d # c PROVE CallGood(d)'
  <2>1. call'[d] = call[d]
    BY <1>1, <1>3
  <2>2. CallGood(d)
    BY DEF IndInv, CallInv
  <2>3. call[d].step \in {"locked", "applied"} => lock = d /\ lock' = d
    BY <1>3, <2>2, QueueAssumption DEF CallGood
  <2> QED
    BY <2>1, <2>2, <2>3 DEF CallGood, Replay
<1> QED
  BY <1>2, <1>3

\* An answer made up by auto mode keeps the invariant.
LEMMA SubmitAutoInv ==
    ASSUME IndInv, NEW c \in Callers, NEW q \in RequestIds, NEW content \in Contents,
           SubmitAuto(c, q, content)
    PROVE  IndInv'
<1>1. PICK disp \in {Disposition("Started", 0, 0, 0), Disposition("Queued", 0, 0, 1)} :
         At(c, "done", q, Submit(content), disp)
  BY DEF SubmitAuto
<1> DEFINE k == [step |-> "done", req |-> q, payload |-> Submit(content), disp |-> disp]
<1>2. UNCHANGED <<tables, submissions, mutations, lock, effects, snapshot>>
  BY DEF SubmitAuto
<1>3. disp \in Dispositions
  <2>1. "Started" \in Kinds /\ "Queued" \in Kinds /\ 0 \in 0..MaxItems
    BY QueueAssumption DEF Kinds
  <2> QED
    BY <2>1, DispositionTypes
<1>4. k \in CallRecords
  BY <1>3, PayloadKinds DEF CallRecords
<1>5. /\ call' \in [Callers -> CallRecords]
      /\ call'[c] = k
      /\ \A d \in Callers : d # c => CallGood(d)'
  BY <1>1, <1>2, <1>4, OtherCalls DEF At
<1>6. CallGood(c)'
  BY <1>3, <1>5, PayloadKinds DEF CallGood
<1>7. TypeOK'
  BY <1>2, <1>5 DEF IndInv, TypeOK, tables, CallRecords
<1> QED
  BY <1>2, <1>5, <1>6, <1>7, TablesKept DEF IndInv, CallInv

\* Looking up the idempotency cache keeps the invariant.
LEMMA CheckIdempotentInv ==
    ASSUME IndInv, NEW c \in Callers, NEW q \in RequestIds, NEW content \in Contents,
           CheckIdempotent(c, q, content)
    PROVE  IndInv'
<1> DEFINE k == IF submissions[q] = None
                THEN [step |-> "checked", req |-> q, payload |-> Submit(content), disp |-> None]
                ELSE [step |-> "done", req |-> q, payload |-> Submit(content),
                      disp |-> Replay(submissions[q], Submit(content))]
<1>1. call' = [call EXCEPT ![c] = k]
  BY DEF CheckIdempotent, At
<1>2. UNCHANGED <<tables, submissions, mutations, lock, effects, snapshot>>
  BY DEF CheckIdempotent
<1>3. submissions[q] # None => Replay(submissions[q], Submit(content)) \in Dispositions
  BY DispositionTypes DEF IndInv, TypeOK
<1>4. k \in CallRecords
  BY <1>3, PayloadKinds DEF CallRecords
<1>41. /\ k.req = q
       /\ k.payload = Submit(content)
       /\ k.step \in {"checked", "done"}
       /\ k.step = "done" => k.disp \in Dispositions
  BY <1>3
<1> HIDE DEF k
<1>5. /\ call' \in [Callers -> CallRecords]
      /\ call'[c] = k
      /\ \A d \in Callers : d # c => CallGood(d)'
  BY <1>1, <1>2, <1>4, OtherCalls
<1>6. CallGood(c)'
  BY <1>41, <1>5, PayloadKinds DEF CallGood
<1>7. TypeOK'
  BY <1>2, <1>5 DEF IndInv, TypeOK, tables, CallRecords
<1> QED
  BY <1>2, <1>5, <1>6, <1>7, TablesKept DEF IndInv, CallInv

\* Appending an item with a new id adds that id.
LEMMA AppendIds ==
    ASSUME NEW s \in Seq(QueuedItems), Distinct(s), NEW e \in QueuedItems, e.id \notin IdsOf(s)
    PROVE  /\ Append(s, e) \in Seq(QueuedItems)
           /\ Distinct(Append(s, e))
           /\ IdsOf(Append(s, e)) = IdsOf(s) \cup {e.id}
<1> DEFINE r == Append(s, e)
<1>1. r \in Seq(QueuedItems) /\ Len(r) = Len(s) + 1 /\ r[Len(s) + 1] = e
  OBVIOUS
<1>2. \A j \in 1..Len(s) : r[j] = s[j]
  OBVIOUS
<1> HIDE DEF r
<1>3. DOMAIN r = 1..(Len(s) + 1) /\ DOMAIN s = 1..Len(s) /\ Len(s) \in Nat
  BY <1>1
<1>4. \A j \in DOMAIN s : s[j].id # e.id
  BY DEF IdsOf
<1>5. Distinct(r)
  BY <1>1, <1>2, <1>3, <1>4 DEF Distinct
<1>6. ASSUME NEW j \in DOMAIN r PROVE r[j].id \in IdsOf(s) \cup {e.id}
  BY <1>1, <1>2, <1>3 DEF IdsOf
<1>7. ASSUME NEW j \in DOMAIN s PROVE s[j].id \in IdsOf(r)
  <2>1. j \in DOMAIN r /\ r[j] = s[j]
    BY <1>2, <1>3
  <2> QED
    BY <2>1 DEF IdsOf
<1>8. e.id \in IdsOf(r)
  <2>1. Len(s) + 1 \in DOMAIN r
    BY <1>3
  <2> QED
    BY <1>1, <2>1 DEF IdsOf
<1>9. IdsOf(r) = IdsOf(s) \cup {e.id}
  <2>1. IdsOf(r) \subseteq IdsOf(s) \cup {e.id}
    BY <1>6 DEF IdsOf
  <2>2. IdsOf(s) \subseteq IdsOf(r)
    BY <1>7 DEF IdsOf
  <2> QED
    BY <1>8, <2>1, <2>2
<1> QED
  BY <1>1, <1>5, <1>9 DEF r

\* A new revision keeps the invariants that compare others with the revision.
LEMMA NewRevision ==
    ASSUME IndInv, revision' = revision + 1, UNCHANGED snapshot
    PROVE  /\ SnapshotInv'
           /\ UNCHANGED effects => EffectsInv'
<1>1. revision \in Nat
  BY QueueAssumption DEF IndInv, TypeOK
<1>2. \A s \in Readers : snapshot[s].stage # "none" => snapshot[s].revision < revision + 1
  <2>1. \A s \in Readers : snapshot[s].revision \in 0..MaxRevision
    BY DEF IndInv, TypeOK
  <2>2. \A s \in Readers : snapshot[s].stage # "none" => snapshot[s].revision <= revision
    BY DEF IndInv, SnapshotInv
  <2> QED
    BY <1>1, <2>1, <2>2, QueueAssumption
<1>3. SnapshotInv'
  BY <1>1, <1>2, QueueAssumption DEF SnapshotInv, IndInv, TypeOK
<1>4. ASSUME UNCHANGED effects PROVE EffectsInv'
  <2>1. \A i \in DOMAIN effects : effects[i].payload \in Mutates
    <3> DEFINE R == [req : RequestIds, payload : Mutates]
    <3>1. effects \in Seq(R)
      BY DEF IndInv, TypeOK
    <3> HIDE DEF R
    <3>2. \A i \in DOMAIN effects : effects[i] \in R
      BY <3>1
    <3> QED
      BY <3>2 DEF R
  <2>2. \A p \in Mutates : p.expected \in Int
    BY QueueAssumption DEF Mutates
  <2> QED
    BY <1>1, <1>4, <2>1, <2>2 DEF EffectsInv, IndInv
<1> QED
  BY <1>3, <1>4

\* Enqueuing keeps the invariant.
LEMMA EnqueuePromptInv ==
    ASSUME IndInv, NEW c \in Callers, EnqueuePrompt(c)
    PROVE  IndInv'
<1> DEFINE e == [id |-> issued + 1, request |-> call[c].req, content |-> call[c].payload.arg]
           disp == Disposition("Queued", issued + 1, Len(queue), revision + 1)
           k == [step |-> "enqueued", req |-> call[c].req, payload |-> call[c].payload, disp |-> disp]
<1>1. /\ call[c].step = "checked"
      /\ issued \in Nat /\ issued < MaxItems
      /\ revision \in Nat /\ revision < MaxRevision
      /\ queue \in Seq(QueuedItems)
      /\ queue' = Append(queue, e)
      /\ issued' = issued + 1
      /\ revision' = revision + 1
      /\ Advance(c, "enqueued", disp)
      /\ UNCHANGED <<gone, submissions, mutations, lock, effects, snapshot>>
  BY QueueAssumption DEF EnqueuePrompt, IndInv, TypeOK
<1>2. CallGood(c)
  BY DEF IndInv, CallInv
<1>3. call[c].req \in RequestIds /\ call[c].payload \in Submits
  BY <1>1, <1>2 DEF CallGood
<1>4. e \in QueuedItems /\ e.id = issued + 1
  BY <1>1, <1>3, PayloadKinds, QueueAssumption DEF QueuedItems, Ids
<1>5. disp \in Dispositions
  <2>1. "Queued" \in Kinds /\ issued + 1 \in 0..MaxItems /\ Len(queue) \in Nat /\ revision + 1 \in Nat
    BY <1>1, QueueAssumption DEF Kinds
  <2> QED
    BY <2>1, DispositionTypes
<1> HIDE DEF e, disp
<1>6. call' = [call EXCEPT ![c] = k]
  BY <1>1 DEF Advance, At
<1>7. k \in CallRecords
  BY <1>3, <1>5, PayloadKinds DEF CallRecords
<1>8. /\ call' \in [Callers -> CallRecords]
      /\ call'[c] = k
      /\ \A d \in Callers : d # c => CallGood(d)'
  BY <1>1, <1>6, <1>7, OtherCalls
<1>9. CallGood(c)'
  BY <1>3, <1>5, <1>8, PayloadKinds DEF CallGood
<1>10. QueueInv' /\ queue' \in Seq(QueuedItems)
  <2>1. /\ Distinct(queue)
        /\ IdsOf(queue) = (1..issued) \ gone
        /\ gone \subseteq 1..issued
        /\ e.id \notin IdsOf(queue)
    BY <1>1, <1>4 DEF IndInv, QueueInv
  <2>2. /\ Append(queue, e) \in Seq(QueuedItems)
        /\ Distinct(Append(queue, e))
        /\ IdsOf(Append(queue, e)) = IdsOf(queue) \cup {e.id}
    BY <1>1, <1>4, <2>1, AppendIds
  <2>3. ((1..issued) \ gone) \cup {issued + 1} = (1..(issued + 1)) \ gone
    BY <1>1, <2>1
  <2>4. IdsOf(queue)' = (1..issued') \ gone' /\ Distinct(queue)'
    <3>1. IdsOf(Append(queue, e)) = (1..(issued + 1)) \ gone
      BY <1>4, <2>1, <2>2, <2>3
    <3> QED
      BY <1>1, <2>2, <3>1 DEF IdsOf, Distinct
  <2>5. gone \subseteq 1..(issued + 1)
    BY <1>1, <2>1
  <2> QED
    BY <1>1, <2>2, <2>4, <2>5 DEF QueueInv
<1>11. TypeOK'
  <2>1. issued' \in 0..MaxItems /\ revision' \in 0..MaxRevision
    BY <1>1, QueueAssumption
  <2> QED
    BY <1>1, <1>8, <1>10, <2>1 DEF IndInv, TypeOK, CallRecords
<1>12. SnapshotInv' /\ EffectsInv'
  BY <1>1, NewRevision
<1> QED
  BY <1>8, <1>9, <1>10, <1>11, <1>12 DEF IndInv, CallInv

\* Recording a disposition keeps the invariant.
LEMMA RecordDispositionInv ==
    ASSUME IndInv, NEW c \in Callers, RecordDisposition(c)
    PROVE  IndInv'
<1> DEFINE k == [step |-> "done", req |-> call[c].req, payload |-> call[c].payload,
                 disp |-> call[c].disp]
           entry == [payload |-> call[c].payload, disp |-> call[c].disp]
<1>1. /\ call[c].step = "enqueued"
      /\ call' = [call EXCEPT ![c] = k]
      /\ submissions' = [submissions EXCEPT ![call[c].req] = entry]
      /\ UNCHANGED <<tables, mutations, lock, effects, snapshot>>
  BY DEF RecordDisposition, Advance, At
<1>2. CallGood(c)
  BY DEF IndInv, CallInv
<1>3. /\ call[c].req \in RequestIds
      /\ call[c].payload \in Submits
      /\ call[c].payload \in Payloads /\ call[c].disp \in Dispositions
  BY <1>1, <1>2 DEF CallGood
<1>4. k \in CallRecords /\ entry \in Entries
  BY <1>3 DEF CallRecords, Entries
<1>5. /\ call' \in [Callers -> CallRecords]
      /\ call'[c] = k
      /\ \A d \in Callers : d # c => CallGood(d)'
  BY <1>1, <1>4, OtherCalls
<1>6. CallGood(c)'
  BY <1>3, <1>5, PayloadKinds DEF CallGood
<1> HIDE DEF entry
<1>7. TypeOK'
  BY <1>1, <1>3, <1>4, <1>5 DEF IndInv, TypeOK, tables, CallRecords
<1> QED
  BY <1>1, <1>5, <1>6, <1>7, TablesKept DEF IndInv, CallInv

\* Taking the mutation lock, or answering from the cache under it, keeps the
\* invariant: a free lock means that no other mutation is under way.
LEMMA BeginMutationInv ==
    ASSUME IndInv, NEW c \in Callers, NEW q \in RequestIds, NEW p \in Mutates,
           BeginMutation(c, q, p)
    PROVE  IndInv'
<1> DEFINE k == IF mutations[q] = None
                THEN [step |-> "locked", req |-> q, payload |-> p, disp |-> None]
                ELSE [step |-> "done", req |-> q, payload |-> p,
                      disp |-> Replay(mutations[q], p)]
<1>1. /\ call' = [call EXCEPT ![c] = k]
      /\ lock = None
      /\ lock' = IF mutations[q] = None THEN c ELSE lock
  BY DEF BeginMutation, At
<1>2. UNCHANGED <<tables, submissions, mutations, effects, snapshot>>
  BY DEF BeginMutation
<1>3. mutations[q] # None => Replay(mutations[q], p) \in Dispositions
  BY DispositionTypes DEF IndInv, TypeOK
<1>4. k \in CallRecords
  BY <1>3, PayloadKinds DEF CallRecords
<1>41. /\ k.req = q
       /\ k.payload = p
       /\ mutations[q] = None => k.step = "locked"
       /\ mutations[q] # None => k.step = "done" /\ k.disp = Replay(mutations[q], p)
  OBVIOUS
<1> HIDE DEF k
<1>5. /\ call' \in [Callers -> CallRecords]
      /\ call'[c] = k
      /\ \A d \in Callers : d # c => CallGood(d)'
  BY <1>1, <1>2, <1>4, OtherCalls
<1>6. CallGood(c)'
  <2>1. CASE mutations[q] = None
    BY <1>1, <1>2, <1>41, <1>5, <2>1 DEF CallGood
  <2>2. CASE mutations[q] # None
    BY <1>2, <1>3, <1>41, <1>5, <2>2, PayloadKinds DEF CallGood
  <2> QED
    BY <2>1, <2>2
<1>7. TypeOK'
  BY <1>1, <1>2, <1>5 DEF IndInv, TypeOK, tables, CallRecords
<1> QED
  BY <1>2, <1>5, <1>6, <1>7, TablesKept DEF IndInv, CallInv

\* A decision under the lock that leaves the tables alone keeps the invariant.
LEMMA DecidedInv ==
    ASSUME IndInv, NEW c \in Callers, NEW disp \in Dispositions,
           call[c].step = "locked",
           Advance(c, "applied", disp),
           UNCHANGED <<tables, submissions, mutations, lock, effects, snapshot>>
    PROVE  IndInv'
<1> DEFINE k == [step |-> "applied", req |-> call[c].req, payload |-> call[c].payload,
                 disp |-> disp]
<1>1. call' = [call EXCEPT ![c] = k]
  BY DEF Advance, At
<1>2. CallGood(c)
  BY DEF IndInv, CallInv
<1>3. /\ call[c].req \in RequestIds
      /\ call[c].payload \in Mutates /\ call[c].payload \in Payloads
      /\ lock = c /\ mutations[call[c].req] = None
  BY <1>2, PayloadKinds DEF CallGood
<1>4. k \in CallRecords
  BY <1>3 DEF CallRecords
<1>5. /\ call' \in [Callers -> CallRecords]
      /\ call'[c] = k
      /\ \A d \in Callers : d # c => CallGood(d)'
  BY <1>1, <1>4, OtherCalls
<1>6. CallGood(c)'
  BY <1>3, <1>5 DEF CallGood
<1>7. TypeOK'
  BY <1>5 DEF IndInv, TypeOK, tables, CallRecords
<1> QED
  BY <1>5, <1>6, <1>7, TablesKept DEF IndInv, CallInv

\* A rejected mutation keeps the invariant.
LEMMA RejectMutationInv ==
    ASSUME IndInv, NEW c \in Callers, RejectMutation(c)
    PROVE  IndInv'
<1>1. Rejection(call[c].payload) \in Kinds
  BY DEF RejectMutation, Rejection, Kinds
<1>2. Rejected(Rejection(call[c].payload)) \in Dispositions
  BY <1>1, DispositionTypes
<1> QED
  BY <1>2, DecidedInv DEF RejectMutation

\* Moving an item to where it is keeps the invariant.
LEMMA KeepInPlaceInv ==
    ASSUME IndInv, NEW c \in Callers, KeepInPlace(c)
    PROVE  IndInv'
<1> DEFINE p == call[c].payload
<1>1. CallGood(c) /\ call[c].step = "locked" /\ p.op = "move"
  BY DEF IndInv, CallInv, KeepInPlace, InPlace
<1>2. p \in Mutates
  BY <1>1 DEF CallGood
<1>3. p.item \in 0..MaxItems /\ p.arg \in Nat
  BY <1>1, <1>2, QueueAssumption DEF Mutates, Ids
<1>4. "Applied" \in Kinds /\ revision \in Nat
  BY QueueAssumption DEF Kinds, IndInv, TypeOK
<1>5. Disposition("Applied", p.item, p.arg, revision) \in Dispositions
  BY <1>3, <1>4, DispositionTypes
<1> QED
  BY <1>1, <1>5, DecidedInv DEF KeepInPlace

\* A mutation that takes effect expects the revision it finds, and so one above
\* the expectations of all that took effect before it.
LEMMA ApplyMutationInv ==
    ASSUME IndInv, NEW c \in Callers, ApplyMutation(c)
    PROVE  IndInv'
<1> DEFINE p == call[c].payload
           position == IF p.op = "move" THEN p.arg ELSE PositionOf(p.item) - 1
           disp == Disposition("Applied", p.item, position, revision + 1)
           k == [step |-> "applied", req |-> call[c].req, payload |-> p, disp |-> disp]
           effect == [req |-> call[c].req, payload |-> p]
<1>1. /\ call[c].step = "locked"
      /\ Rejection(p) = None
      /\ revision \in Nat /\ revision < MaxRevision
      /\ queue' = Mutated(p)
      /\ revision' = revision + 1
      /\ gone' = IF p.op = "delete" THEN gone \cup {p.item} ELSE gone
      /\ effects' = Append(effects, effect)
      /\ call' = [call EXCEPT ![c] = k]
      /\ UNCHANGED <<issued, submissions, mutations, lock, snapshot>>
  BY QueueAssumption DEF ApplyMutation, Advance, At, IndInv, TypeOK
<1>2. CallGood(c) /\ TypeOK /\ QueueInv
  BY DEF IndInv, CallInv
<1>3. /\ call[c].req \in RequestIds
      /\ p \in Mutates /\ p \in Payloads
      /\ lock = c /\ mutations[call[c].req] = None
  BY <1>1, <1>2, PayloadKinds DEF CallGood
<1>4. p.expected = revision /\ Holds(p.item)
  BY <1>1, <1>2, <1>3, Unrejected
<1>5. /\ Mutated(p) \in Seq(QueuedItems)
      /\ Distinct(Mutated(p))
      /\ IdsOf(Mutated(p)) = IF p.op = "delete" THEN IdsOf(queue) \ {p.item} ELSE IdsOf(queue)
  BY <1>1, <1>2, <1>3, MutatedIds
<1>6. p.item \in Ids /\ p.item \in IdsOf(queue)
  BY <1>3, <1>4 DEF Mutates, Holds, IdsOf
<1>7. disp \in Dispositions
  <2>1. position \in Nat
    <3>1. PositionOf(p.item) \in DOMAIN queue /\ queue \in Seq(QueuedItems)
      BY <1>2, <1>4, PositionOfHeld DEF TypeOK
    <3>2. PositionOf(p.item) - 1 \in Nat
      BY <3>1
    <3>3. p.op = "move" => p.arg \in Nat
      BY <1>3, QueueAssumption DEF Mutates
    <3> QED
      BY <3>2, <3>3
  <2>2. "Applied" \in Kinds /\ p.item \in 0..MaxItems /\ revision + 1 \in Nat
    BY <1>1, <1>6, QueueAssumption DEF Kinds, Ids
  <2> HIDE DEF position
  <2> QED
    BY <2>1, <2>2, DispositionTypes
<1>8. effect \in [req : RequestIds, payload : Mutates] /\ effect.payload.expected = revision
  BY <1>3, <1>4
<1> HIDE DEF position, disp
<1>9. k \in CallRecords
  BY <1>3, <1>7 DEF CallRecords
<1>10. /\ call' \in [Callers -> CallRecords]
       /\ call'[c] = k
       /\ \A d \in Callers : d # c => CallGood(d)'
  BY <1>1, <1>9, OtherCalls
<1>11. CallGood(c)'
  BY <1>1, <1>3, <1>7, <1>10 DEF CallGood
<1> HIDE DEF p, k, effect
<1>12. QueueInv'
  <2>1. IdsOf(queue) = (1..issued) \ gone /\ gone \subseteq 1..issued
    BY <1>2 DEF QueueInv
  <2>2. IdsOf(Mutated(p)) = (1..issued') \ gone' /\ gone' \subseteq 1..issued'
    BY <1>1, <1>5, <1>6, <2>1
  <2> QED
    BY <1>1, <1>5, <2>2 DEF QueueInv, IdsOf, Distinct
<1>13. EffectsInv' /\ effects' \in Seq([req : RequestIds, payload : Mutates])
  <2> DEFINE R == [req : RequestIds, payload : Mutates]
             n == Len(effects)
  <2>1. effects \in Seq(R) /\ effect \in R
    BY <1>2, <1>8 DEF TypeOK
  <2>2. \A r \in R : r.payload.expected \in Int
    BY QueueAssumption DEF Mutates
  <2> HIDE DEF R
  <2>3. /\ effects' \in Seq(R) /\ n \in Nat
        /\ DOMAIN effects = 1..n /\ DOMAIN effects' = 1..(n + 1)
        /\ \A i \in 1..n : effects'[i] = effects[i] /\ effects[i] \in R
        /\ effects'[n + 1] = effect
    BY <1>1, <2>1
  <2>4. \A i \in 1..n : effects[i].payload.expected \in Int
    BY <2>2, <2>3
  <2>5. /\ \A i \in 1..n : effects[i].payload.expected < revision
        /\ \A i, j \in 1..n : i < j => effects[i].payload.expected < effects[j].payload.expected
    BY <2>3 DEF IndInv, EffectsInv
  <2> HIDE DEF n
  <2>6. \A i \in 1..(n + 1) : effects'[i].payload.expected < revision'
    BY <1>1, <1>8, <2>3, <2>4, <2>5
  <2>7. \A i, j \in 1..(n + 1) :
           i < j => effects'[i].payload.expected < effects'[j].payload.expected
    BY <1>8, <2>3, <2>5
  <2> QED
    BY <2>3, <2>6, <2>7 DEF EffectsInv, R
<1>14. TypeOK'
  <2>1. revision' \in 0..MaxRevision /\ gone' \subseteq Ids
    BY <1>1, <1>2, <1>6, QueueAssumption DEF TypeOK
  <2> QED
    BY <1>1, <1>2, <1>5, <1>10, <1>13, <2>1 DEF TypeOK, CallRecords
<1>15. SnapshotInv'
  BY <1>1, NewRevision
<1> QED
  BY <1>10, <1>11, <1>12, <1>13, <1>14, <1>15 DEF IndInv, CallInv

\* Recording a mutation's disposition keeps the invariant: no call that has been
\* answered, and no other that holds the lock, has this request id.
LEMMA RecordMutationInv ==
    ASSUME IndInv, NEW c \in Callers, RecordMutation(c)
    PROVE  IndInv'
<1> DEFINE k == [step |-> "done", req |-> call[c].req, payload |-> call[c].payload,
                 disp |-> call[c].disp]
           entry == [payload |-> call[c].payload, disp |-> call[c].disp]
<1>1. /\ call[c].step = "applied"
      /\ call' = [call EXCEPT ![c] = k]
      /\ mutations' = [mutations EXCEPT ![call[c].req] = entry]
      /\ lock' = None
      /\ UNCHANGED <<tables, submissions, effects, snapshot>>
  BY DEF RecordMutation, Advance, At
<1>2. CallGood(c) /\ call \in [Callers -> CallRecords] /\ mutations \in [RequestIds -> Entries \cup {None}]
  BY DEF IndInv, CallInv, TypeOK, CallRecords
<1>3. /\ call[c].req \in RequestIds
      /\ call[c].payload \in Mutates
      /\ call[c].payload \in Payloads /\ call[c].disp \in Dispositions
      /\ lock = c /\ mutations[call[c].req] = None
  BY <1>1, <1>2 DEF CallGood
<1>4. k \in CallRecords /\ entry \in Entries
  BY <1>3 DEF CallRecords, Entries
<1>5. call' \in [Callers -> CallRecords] /\ call'[c] = k
  BY <1>1, <1>2, <1>4
<1>6. entry # None /\ Replay(entry, call[c].payload) = call[c].disp
  BY <1>4, QueueAssumption DEF Replay
<1>7. ASSUME NEW d \in Callers, d # c PROVE CallGood(d)'
  <2>1. call'[d] = call[d]
    BY <1>1, <1>2, <1>7
  <2>2. CallGood(d)
    BY DEF IndInv, CallInv
  <2>3. call[d].step \notin {"locked", "applied"}
    BY <1>3, <1>7, <2>2 DEF CallGood
  <2>4. call[d].step = "done" /\ call[d].payload \in Mutates =>
           call[d].req # call[c].req /\ mutations'[call[d].req] = mutations[call[d].req]
    BY <1>1, <1>2, <1>3, <2>2 DEF CallGood
  <2> HIDE DEF k, entry
  <2> QED
    BY <2>1, <2>2, <2>3, <2>4 DEF CallGood, Replay
<1>8. CallGood(c)'
  <2>1. mutations'[call[c].req] = entry
    BY <1>1, <1>2, <1>3
  <2>2. k.req = call[c].req /\ k.payload = call[c].payload /\ k.step = "done" /\ k.disp = call[c].disp
    OBVIOUS
  <2> HIDE DEF k, entry
  <2> QED
    BY <1>3, <1>5, <1>6, <2>1, <2>2 DEF CallGood, Replay
<1> HIDE DEF entry
<1>9. TypeOK'
  BY <1>1, <1>3, <1>4, <1>5 DEF IndInv, TypeOK, tables, CallRecords
<1> QED
  BY <1>1, <1>7, <1>8, <1>9, TablesKept DEF IndInv, CallInv

\* A dropped handler keeps the invariant: its lock goes with it.
LEMMA DropCallInv ==
    ASSUME IndInv, NEW c \in Callers, DropCall(c)
    PROVE  IndInv'
<1> DEFINE k == [step |-> "idle", req |-> None, payload |-> None, disp |-> None]
<1>1. /\ call' = [call EXCEPT ![c] = k]
      /\ lock' = IF lock = c THEN None ELSE lock
      /\ UNCHANGED <<tables, submissions, mutations, effects, snapshot>>
  BY DEF DropCall, At
<1>2. k \in CallRecords
  BY DEF CallRecords
<1>3. /\ call' \in [Callers -> CallRecords]
      /\ call'[c] = k
      /\ \A d \in Callers : d # c => CallGood(d)'
  BY <1>1, <1>2, OtherCalls
<1>4. CallGood(c)'
  BY <1>3 DEF CallGood
<1>5. TypeOK'
  BY <1>1, <1>3 DEF IndInv, TypeOK, tables, CallRecords
<1> QED
  BY <1>1, <1>3, <1>4, <1>5, TablesKept DEF IndInv, CallInv

\* A pop takes out the id of the head.
LEMMA TailIds ==
    ASSUME NEW s \in Seq(QueuedItems), Distinct(s), s # <<>>
    PROVE  /\ Tail(s) \in Seq(QueuedItems)
           /\ Distinct(Tail(s))
           /\ IdsOf(Tail(s)) = IdsOf(s) \ {Head(s).id}
           /\ Head(s).id \in IdsOf(s)
<1> DEFINE r == Tail(s)
<1>1. /\ r \in Seq(QueuedItems) /\ Len(s) \in Nat /\ Len(s) >= 1 /\ Len(r) = Len(s) - 1
      /\ \A j \in 1..(Len(s) - 1) : r[j] = s[j + 1]
      /\ Head(s) = s[1]
  OBVIOUS
<1> HIDE DEF r
<1>2. DOMAIN r = 1..(Len(s) - 1) /\ DOMAIN s = 1..Len(s)
  BY <1>1
<1>3. Distinct(r)
  <2> SUFFICES ASSUME NEW j \in DOMAIN r, NEW k \in DOMAIN r, r[j].id = r[k].id
               PROVE  j = k
    BY DEF Distinct
  <2>1. j + 1 \in DOMAIN s /\ k + 1 \in DOMAIN s /\ s[j + 1].id = s[k + 1].id
    BY <1>1, <1>2
  <2>2. j + 1 = k + 1
    BY <2>1 DEF Distinct
  <2> QED
    BY <1>1, <1>2, <2>2
<1>4. ASSUME NEW j \in DOMAIN r PROVE r[j].id \in IdsOf(s) \ {s[1].id}
  <2>1. j + 1 \in DOMAIN s /\ 1 \in DOMAIN s /\ r[j] = s[j + 1] /\ j + 1 # 1
    BY <1>1, <1>2
  <2> QED
    BY <2>1 DEF IdsOf, Distinct
<1>5. ASSUME NEW k \in DOMAIN s, k # 1 PROVE s[k].id \in IdsOf(r)
  <2>1. k - 1 \in DOMAIN r /\ r[k - 1] = s[k]
    BY <1>1, <1>2, <1>5
  <2> QED
    BY <2>1 DEF IdsOf
<1>6. IdsOf(r) = IdsOf(s) \ {s[1].id}
  <2>1. IdsOf(r) \subseteq IdsOf(s) \ {s[1].id}
    BY <1>4 DEF IdsOf
  <2>2. IdsOf(s) \ {s[1].id} \subseteq IdsOf(r)
    BY <1>5 DEF IdsOf
  <2> QED
    BY <2>1, <2>2
<1>7. s[1].id \in IdsOf(s)
  BY <1>1, <1>2 DEF IdsOf
<1> QED
  BY <1>1, <1>3, <1>6, <1>7 DEF r

\* Popping the head keeps the invariant.
LEMMA PopQueuedPromptInv ==
    ASSUME IndInv, PopQueuedPrompt
    PROVE  IndInv'
<1> DEFINE h == Head(queue).id
<1>1. /\ queue # <<>> /\ queue \in Seq(QueuedItems) /\ Distinct(queue)
      /\ revision \in Nat /\ revision < MaxRevision
      /\ queue' = Tail(queue)
      /\ revision' = revision + 1
      /\ gone' = gone \cup {h}
      /\ UNCHANGED <<issued, submissions, mutations, lock, call, effects, snapshot>>
  BY QueueAssumption DEF PopQueuedPrompt, IndInv, TypeOK, QueueInv
<1>2. /\ Tail(queue) \in Seq(QueuedItems) /\ Distinct(Tail(queue))
      /\ IdsOf(Tail(queue)) = IdsOf(queue) \ {h}
      /\ h \in IdsOf(queue)
  BY <1>1, TailIds
<1> HIDE DEF h
<1>3. /\ IdsOf(queue) = (1..issued) \ gone /\ gone \subseteq 1..issued
      /\ issued \in 0..MaxItems
  BY DEF IndInv, QueueInv, TypeOK
<1>4. QueueInv'
  <2>1. IdsOf(Tail(queue)) = (1..issued') \ gone' /\ gone' \subseteq 1..issued'
    BY <1>1, <1>2, <1>3
  <2> QED
    BY <1>1, <1>2, <2>1 DEF QueueInv, IdsOf, Distinct
<1>5. TypeOK'
  <2>1. revision' \in 0..MaxRevision
    BY <1>1, QueueAssumption
  <2>2. h \in 1..issued /\ 1..issued \subseteq Ids
    BY <1>2, <1>3, QueueAssumption DEF Ids
  <2>3. gone' \subseteq Ids
    BY <1>1, <1>3, <2>2
  <2> QED
    BY <1>1, <1>2, <2>1, <2>3 DEF IndInv, TypeOK
<1>6. CallInv'
  BY <1>1 DEF IndInv, CallInv, CallGood, Replay
<1>7. SnapshotInv' /\ EffectsInv'
  BY <1>1, NewRevision
<1> QED
  BY <1>4, <1>5, <1>6, <1>7 DEF IndInv

\* The two reads of a snapshot keep the invariant.
LEMMA ReadInv ==
    ASSUME IndInv, NEW s \in Readers, ReadRevision(s) \/ ReadItems(s)
    PROVE  IndInv'
<1> DEFINE Snapshots == [stage : {"none", "revision", "full"},
                         revision : 0..MaxRevision, items : Seq(QueuedItems)]
<1>1. UNCHANGED <<tables, submissions, mutations, lock, call, effects>>
  BY DEF ReadRevision, ReadItems
<1>2. /\ snapshot \in [Readers -> Snapshots] /\ revision \in 0..MaxRevision
      /\ queue \in Seq(QueuedItems)
  BY DEF IndInv, TypeOK
<1>3. QueueInv' /\ CallInv' /\ EffectsInv'
  BY <1>1 DEF IndInv, tables, QueueInv, IdsOf, Distinct, CallInv, CallGood, Replay, EffectsInv
<1>4. PICK r \in Snapshots :
         /\ snapshot' = [snapshot EXCEPT ![s] = r]
         /\ r.revision <= revision
         /\ r.stage = "full" => r.items = queue
  <2>1. CASE ReadRevision(s)
    <3> DEFINE r == [stage |-> "revision", revision |-> revision, items |-> <<>>]
    <3>1. r \in Snapshots /\ r.revision <= revision /\ r.stage # "full"
      BY <1>2, QueueAssumption
    <3> QED
      BY <2>1, <3>1 DEF ReadRevision
  <2>2. CASE ReadItems(s)
    <3> DEFINE r == [stage |-> "full", revision |-> snapshot[s].revision, items |-> queue]
    <3>1. snapshot[s] \in Snapshots
      BY <1>2
    <3>2. r \in Snapshots
      BY <1>2, <3>1
    <3>3. r.revision <= revision
      BY <2>2 DEF ReadItems, IndInv, SnapshotInv
    <3>4. snapshot' = [snapshot EXCEPT ![s] = r]
      BY <1>2, <2>2 DEF ReadItems
    <3> QED
      BY <3>2, <3>3, <3>4
  <2> QED
    BY <2>1, <2>2
<1>5. /\ snapshot' \in [Readers -> Snapshots]
      /\ snapshot'[s] = r
      /\ \A t \in Readers : t # s => snapshot'[t] = snapshot[t]
  BY <1>2, <1>4
<1>6. TypeOK'
  BY <1>1, <1>5 DEF IndInv, TypeOK, tables
<1>7. SnapshotInv'
  BY <1>1, <1>4, <1>5 DEF IndInv, SnapshotInv, tables
<1> QED
  BY <1>3, <1>6, <1>7 DEF IndInv

\* Every step of every handler keeps the invariant.
LEMMA StepInv == IndInv /\ [Next]_vars => IndInv'
<1> SUFFICES ASSUME IndInv, [Next]_vars PROVE IndInv'
  OBVIOUS
<1>1. CASE UNCHANGED vars
  BY <1>1 DEF vars, IndInv, TypeOK, QueueInv, IdsOf, Distinct, CallInv, CallGood, Replay,
              EffectsInv, SnapshotInv
<1>2. ASSUME NEW c \in Callers, SubmitStep(c) PROVE IndInv'
  BY <1>2, SubmitAutoInv, CheckIdempotentInv, EnqueuePromptInv, RecordDispositionInv DEF SubmitStep
<1>3. ASSUME NEW c \in Callers, MutateStep(c) PROVE IndInv'
  BY <1>3, BeginMutationInv, RejectMutationInv, ApplyMutationInv, KeepInPlaceInv, RecordMutationInv
     DEF MutateStep
<1> QED
  BY <1>1, <1>2, <1>3, DropCallInv, PopQueuedPromptInv, ReadInv DEF Next

-----------------------------------------------------------------------------
(* Theorems *)

\* The invariant holds in every reachable state.
THEOREM Invariance == Spec => []IndInv
BY InitInv, StepInv, PTL DEF Spec

\* SubmissionAuthority keeps every table well-typed.
THEOREM TypeCorrect == Spec => []TypeOK
<1>1. IndInv => TypeOK
  BY DEF IndInv
<1> QED
  BY <1>1, Invariance, PTL

\* No edit, move, removal, pop or enqueue, in any interleaving, loses an item or
\* holds it twice.
THEOREM QueueConserved == Spec => []NothingLostOrDoubled
<1>1. IndInv => NothingLostOrDoubled
  BY DEF IndInv, QueueInv, IdsOf, Distinct, NothingLostOrDoubled
<1> QED
  BY <1>1, Invariance, PTL

\* A retried mutation never takes effect twice, even when the handler was dropped
\* between its effect and the recording of its disposition.
THEOREM MutationsOnce == Spec => []AppliedOnce
<1>1. ASSUME IndInv PROVE AppliedOnce
  <2> SUFFICES ASSUME NEW i \in DOMAIN effects, NEW j \in DOMAIN effects,
                      effects[i] = effects[j], i # j
               PROVE  FALSE
    BY DEF AppliedOnce
  <2> DEFINE R == [req : RequestIds, payload : Mutates]
  <2>1. effects \in Seq(R)
    BY <1>1 DEF IndInv, TypeOK
  <2>2. \A r \in R : r.payload.expected \in Int
    BY QueueAssumption DEF Mutates
  <2> HIDE DEF R
  <2>3. i \in Int /\ j \in Int /\ effects[i] \in R /\ effects[j] \in R
    BY <2>1
  <2>4. effects[i].payload.expected \in Int
    BY <2>2, <2>3
  <2>5. i < j \/ j < i
    BY <2>3
  <2> QED
    BY <1>1, <2>4, <2>5 DEF IndInv, EffectsInv
<1> QED
  BY <1>1, Invariance, PTL

\* Duplicates of one mutation, concurrent or retried, are answered alike.
THEOREM MutationsReplay == Spec => []ReplaysAgree
<1>1. ASSUME IndInv PROVE ReplaysAgree
  <2> SUFFICES ASSUME NEW c \in Callers, NEW d \in Callers,
                      call[c].step = "done", call[c].payload.op # "submit",
                      call[d].step = "done", call[d].payload = call[c].payload,
                      call[d].req = call[c].req
               PROVE  call[d].disp = call[c].disp
    BY DEF ReplaysAgree
  <2>1. CallGood(c) /\ CallGood(d)
    BY <1>1 DEF IndInv, CallInv
  <2>2. call[c].payload \in Mutates
    BY <2>1, PayloadKinds DEF CallGood
  <2> QED
    BY <2>1, <2>2 DEF CallGood
<1> QED
  BY <1>1, Invariance, PTL

\* A snapshot whose revision is current shows the current queue.
THEOREM SnapshotsCurrent == Spec => []SnapshotIsCurrent
<1>1. IndInv => SnapshotIsCurrent
  BY DEF IndInv, SnapshotInv, SnapshotIsCurrent
<1> QED
  BY <1>1, Invariance, PTL

\* The queue conserves its items in every interleaving of handlers, pops and
\* readers: the parts of QueueSound together.
THEOREM QueueSoundHolds == Spec => []QueueSound
<1>1. TypeOK /\ NothingLostOrDoubled => QueueSound
  BY DEF QueueSound
<1> QED
  BY <1>1, TypeCorrect, QueueConserved, PTL

\* A mutation has one effect and one answer, retries and dropped handlers
\* included: the parts of Idempotent together.
THEOREM IdempotentHolds == Spec => []Idempotent
<1>1. AppliedOnce /\ ReplaysAgree => Idempotent
  BY DEF Idempotent
<1> QED
  BY <1>1, MutationsOnce, MutationsReplay, PTL

-----------------------------------------------------------------------------
(* The projection of the queue's events *)

\* A set of natural numbers that is not empty has a least element.
LEMMA LeastNumber ==
    ASSUME NEW S \in SUBSET Nat, S # {}
    PROVE  \E i \in S : \A j \in S : i <= j
<1> DEFINE R == OpToRel(<, Nat)
<1>1. IsWellFoundedOn(R, Nat)
    BY NatLessThanWellFounded
<1>2. \A i, j \in Nat : i < j => <<i, j>> \in R
    BY DEF OpToRel
<1> HIDE DEF R
<1>3. PICK i \in S : \A j \in S : ~(<<j, i>> \in R)
    BY <1>1, WFMin
<1>4. \A j \in S : ~(j < i)
    BY <1>2, <1>3
<1> QED
    BY <1>4

\* One with a bound has a greatest.
LEMMA GreatestNumber ==
    ASSUME NEW S \in SUBSET Nat, S # {}, NEW b \in Nat, \A k \in S : k <= b
    PROVE  \E x \in S : \A k \in S : k <= x
<1> DEFINE upper == {u \in Nat : \A k \in S : k <= u}
<1>1. PICK m \in upper : \A j \in upper : m <= j
  <2>1. upper \in SUBSET Nat /\ upper # {}
      OBVIOUS
  <2> QED
      BY <2>1, LeastNumber
<1>2. m \in S
  <2>1. SUFFICES ASSUME m \notin S PROVE FALSE
      OBVIOUS
  <2>2. \A k \in S : k <= m /\ k # m /\ k \in Nat
      BY <2>1, <1>1
  <2>a. PICK z \in S : TRUE
      OBVIOUS
  <2>3. m # 0 /\ m \in Nat
      BY <1>1, <2>a, <2>2
  <2>4. m - 1 \in Nat /\ \A k \in S : k <= m - 1
      BY <2>2, <2>3
  <2> QED
      BY <2>4, <1>1, <2>3
<1> QED
    BY <1>1, <1>2

LEMMA SyncMax ==
    ASSUME NEW S \in SUBSET Nat, S # {}, NEW b \in Nat, \A k \in S : k <= b
    PROVE  Max(S) \in S /\ \A k \in S : k <= Max(S)
<1>1. PICK x \in S : \A k \in S : k <= x
    BY GreatestNumber
<1>2. \A k \in S : x >= k
    BY <1>1
<1>3. Max(S) \in S /\ \A k \in S : Max(S) >= k
    BY <1>1, <1>2 DEF Max
<1> QED
    BY <1>3

\* What the first n events of a log l make of a session's runtime.
Hits(l, s, n, k) == {i \in 1..n : l[i] = [session |-> s, kind |-> k]}

Runtime(l, s, n) ==
    [revision |-> Cardinality(Hits(l, s, n, "queue")), pending |-> Hits(l, s, n, "applied") = {}]

LEMMA TruthIs == \A s, e, n : Truth(s, e, n) = Runtime(log[e], s, n)
BY DEF Truth, Runtime, Hits

LEMMA RuntimeTyped ==
    ASSUME NEW l, NEW s, NEW n \in Nat
    PROVE  /\ Runtime(l, s, n) \in States
           /\ \A k : IsFiniteSet(Hits(l, s, n, k)) /\ Cardinality(Hits(l, s, n, k)) \in 0..n
           /\ Runtime(l, s, n).revision = Cardinality(Hits(l, s, n, "queue"))
           /\ Runtime(l, s, n).pending = (Hits(l, s, n, "applied") = {})
<1>1. IsFiniteSet(1..n) /\ Cardinality(1..n) = n
    BY FS_Interval
<1>2. ASSUME NEW k PROVE IsFiniteSet(Hits(l, s, n, k)) /\ Cardinality(Hits(l, s, n, k)) \in 0..n
  <2>1. Hits(l, s, n, k) \subseteq 1..n
      BY DEF Hits
  <2>2. IsFiniteSet(Hits(l, s, n, k)) /\ Cardinality(Hits(l, s, n, k)) <= n
      BY <1>1, <2>1, FS_Subset
  <2>3. Cardinality(Hits(l, s, n, k)) \in Nat
      BY <2>2, FS_CardinalityType
  <2> QED
      BY <2>2, <2>3
<1>3. Cardinality(Hits(l, s, n, "queue")) \in Nat
    BY <1>2
<1> QED
    BY <1>2, <1>3 DEF Runtime, States

\* It depends on these events only.
LEMMA RuntimeStays ==
    ASSUME NEW l, NEW m, NEW s, NEW n \in Nat, \A i \in 1..n : m[i] = l[i]
    PROVE  Runtime(m, s, n) = Runtime(l, s, n)
<1>1. \A k : Hits(m, s, n, k) = Hits(l, s, n, k)
    BY DEF Hits
<1> QED
    BY <1>1 DEF Runtime

\* It moves forward.
LEMMA RuntimeGrows ==
    ASSUME NEW l, NEW s, NEW n \in Nat, NEW m \in 0..n
    PROVE  /\ Runtime(l, s, m).revision <= Runtime(l, s, n).revision
           /\ Runtime(l, s, n).pending =
                 (Runtime(l, s, m).pending /\ \A i \in (m + 1)..n : l[i] # [session |-> s, kind |-> "applied"])
<1>1. \A k : Hits(l, s, m, k) \subseteq Hits(l, s, n, k)
    BY DEF Hits
<1>3. IsFiniteSet(Hits(l, s, n, "queue"))
    BY RuntimeTyped
<1>4. Cardinality(Hits(l, s, m, "queue")) <= Cardinality(Hits(l, s, n, "queue"))
    BY <1>1, <1>3, FS_Subset
<1>5. (Hits(l, s, n, "applied") = {}) =
         (Hits(l, s, m, "applied") = {} /\ \A i \in (m + 1)..n : l[i] # [session |-> s, kind |-> "applied"])
    BY DEF Hits
<1>6. m \in Nat
    OBVIOUS
<1> QED
    BY <1>4, <1>5, <1>6, RuntimeTyped

LEMMA RevisionStays ==
    ASSUME NEW l, NEW s, NEW n \in Nat, NEW m \in 0..n,
           \A i \in (m + 1)..n : l[i] # [session |-> s, kind |-> "queue"]
    PROVE  Runtime(l, s, n).revision = Runtime(l, s, m).revision
<1>1. Hits(l, s, n, "queue") = Hits(l, s, m, "queue")
    BY DEF Hits
<1>2. m \in Nat
    OBVIOUS
<1> QED
    BY <1>1, <1>2, RuntimeTyped

\* A change of the queue counts.
LEMMA RuntimeNext ==
    ASSUME NEW l, NEW s, NEW n \in Nat, l[n + 1] = [session |-> s, kind |-> "queue"]
    PROVE  Runtime(l, s, n + 1).revision = Runtime(l, s, n).revision + 1
<1>1. Hits(l, s, n + 1, "queue") = Hits(l, s, n, "queue") \cup {n + 1} /\ n + 1 \notin Hits(l, s, n, "queue")
    BY DEF Hits
<1>2. IsFiniteSet(Hits(l, s, n, "queue"))
    BY RuntimeTyped
<1>3. Cardinality(Hits(l, s, n + 1, "queue")) = Cardinality(Hits(l, s, n, "queue")) + 1
    BY <1>1, <1>2, FS_AddElement
<1> QED
    BY <1>3, RuntimeTyped


Events == [session : Sessions, seq : Nat \ {0}, kind : EventKinds, epoch : Nat, revision : Nat \ {0}]

\* An event is one of log l.
Genuine(l, e) ==
    /\ e.seq \in 1..Len(l)
    /\ l[e.seq] = [session |-> e.session, kind |-> e.kind]
    /\ e.revision = Runtime(l, e.session, e.seq - 1).revision + 1

\* One event after a faithful projection.
LEMMA ApplySays ==
    ASSUME NEW p \in Projections, NEW e \in Events
    PROVE  LET n == Apply(p, e)
           IN  /\ n \in Projections /\ n.session = p.session /\ n.epoch = p.epoch /\ n.last = e.seq
               /\ n.state = [revision |-> IF e.kind = "queue" THEN e.revision ELSE p.state.revision,
                             pending |-> p.state.pending /\ e.kind # "applied"]
<1> DEFINE r == IF e.kind = "queue" THEN e.revision ELSE p.state.revision
           g == (p.state.pending /\ e.kind # "applied")
           st == [revision |-> r, pending |-> g]
<1>1. r \in Nat /\ g \in BOOLEAN /\ e.seq \in Nat
    BY DEF Projections, States, Events
<1>2. Apply(p, e) = [p EXCEPT !.last = e.seq, !.state = st]
    BY DEF Apply, Projections
<1>3. st = [revision |-> IF e.kind = "queue" THEN e.revision ELSE p.state.revision,
            pending |-> p.state.pending /\ e.kind # "applied"]
    OBVIOUS
<1> HIDE DEF r, g
<1>4. st \in States
    BY <1>1 DEF States
<1> HIDE DEF st
<1> QED
    BY <1>1, <1>2, <1>3, <1>4 DEF Projections

LEMMA ApplyFaithful ==
    ASSUME NEW l, Len(l) \in Nat, NEW p \in Projections, NEW e \in Events, Genuine(l, e), e.session = p.session,
           e.seq = p.last + 1, p.state = Runtime(l, p.session, p.last)
    PROVE  Apply(p, e).state = Runtime(l, p.session, e.seq)
<1> DEFINE s == p.session  n == p.last  st == Apply(p, e).state
           A == Runtime(l, s, n)  B == Runtime(l, s, n + 1)
<1>1. n \in Nat /\ n + 1 \in Nat /\ n \in 0..(n + 1) /\ e.seq = n + 1 /\ e.seq - 1 = n
    BY DEF Projections
<1>2. l[n + 1] = [session |-> s, kind |-> e.kind] /\ e.revision = A.revision + 1
    BY <1>1 DEF Genuine
<1>3. A \in States /\ B \in States
    BY <1>1, RuntimeTyped
<1>4. st = [revision |-> IF e.kind = "queue" THEN e.revision ELSE A.revision,
            pending |-> A.pending /\ e.kind # "applied"]
    BY ApplySays
<1>5. B.revision = IF e.kind = "queue" THEN e.revision ELSE A.revision
  <2>1. CASE e.kind = "queue"
    <3>1. B.revision = A.revision + 1
        BY <1>1, <1>2, <2>1, RuntimeNext
    <3> QED
        BY <1>2, <2>1, <3>1
  <2>2. CASE e.kind # "queue"
    <3>1. \A i \in (n + 1)..(n + 1) : l[i] # [session |-> s, kind |-> "queue"]
        BY <1>1, <1>2, <2>2
    <3>2. Runtime(l, s, n + 1).revision = Runtime(l, s, n).revision
      <4> DEFINE m == n + 1
      <4>1. m \in Nat /\ n \in 0..m /\ \A i \in (n + 1)..m : l[i] # [session |-> s, kind |-> "queue"]
          BY <1>1, <3>1
      <4> HIDE DEF m, n
      <4>2. Runtime(l, s, m).revision = Runtime(l, s, n).revision
          BY <4>1, RevisionStays
      <4> QED
          BY <4>2 DEF m, n
    <3> QED
        BY <2>2, <3>2
  <2> QED
      BY <2>1, <2>2
<1>6. B.pending = (A.pending /\ e.kind # "applied")
  <2>1. (\A i \in (n + 1)..(n + 1) : l[i] # [session |-> s, kind |-> "applied"]) <=> e.kind # "applied"
      BY <1>1, <1>2
  <2>2. B.pending = (A.pending /\ \A i \in (n + 1)..(n + 1) : l[i] # [session |-> s, kind |-> "applied"])
      BY <1>1, RuntimeGrows
  <2> QED
      BY <2>1, <2>2
<1>7. B = [revision |-> B.revision, pending |-> B.pending]
    BY <1>3 DEF States
<1> HIDE DEF A, B, st
<1>8. st = B
    BY <1>4, <1>5, <1>6, <1>7
<1> QED
    BY <1>1, <1>8 DEF st, B


\* What a replay of genuine events makes of a snapshot: it goes no further than
\* the events do, and stops before a gap only.
Replayed(l, p, r) ==
    /\ r.ok \in BOOLEAN
    /\ r.proj \in Projections /\ r.proj.session = p.session /\ r.proj.epoch = p.epoch
    /\ r.proj.last >= p.last
    /\ r.proj.last <= p.last \/ r.proj.last <= Len(l)
    /\ ~ r.ok => r.proj.last + 1 <= Len(l)
    /\ p.state = Runtime(l, p.session, p.last) => r.proj.state = Runtime(l, p.session, r.proj.last)

LEMMA ReplaySays ==
    ASSUME NEW l, Len(l) \in Nat, NEW p \in Projections, NEW E \in SUBSET Events,
           \A e \in E : Genuine(l, e)
    PROVE  Replayed(l, p, ReplayBuffer(p, E))
<1> DEFINE s == p.session
           own == {e \in E : e.session = p.session /\ e.seq > p.last}
           seqs == {e.seq : e \in own}
           reached == {p.last} \cup {n \in seqs : (p.last + 1)..n \subseteq seqs}
           reach == Max(reached)
           run == {e \in own : e.seq <= reach}
           revisions == {e.revision : e \in {x \in run : x.kind = "queue"}}
           top == Max(revisions)
           rev == IF revisions = {} THEN p.state.revision ELSE top
           pend == (p.state.pending /\ \A e \in run : e.kind # "applied")
           ok == (\A n \in seqs : n <= reach)
           st == [revision |-> rev, pending |-> pend]
           next == [p EXCEPT !.last = reach, !.state = st]
<1>1. ReplayBuffer(p, E) = [proj |-> next, ok |-> ok]
    BY DEF ReplayBuffer, Projections
<1>2. p.last \in Nat /\ p.state \in States /\ p.state.revision \in Nat /\ p.state.pending \in BOOLEAN
    BY DEF Projections, States
<1>3. ASSUME NEW e \in E
      PROVE  /\ e.seq \in Nat \ {0} /\ e.seq <= Len(l) /\ e.seq - 1 \in Nat /\ e.revision \in Nat \ {0}
             /\ l[e.seq] = [session |-> e.session, kind |-> e.kind]
             /\ e.revision = Runtime(l, e.session, e.seq - 1).revision + 1
    BY <1>3 DEF Events, Genuine
<1>n. \A e \in E : e.seq \in Nat /\ e.seq <= Len(l)
    BY <1>3
<1>4. seqs \in SUBSET Nat /\ \A n \in seqs : n <= Len(l)
    BY <1>n
<1>5. reach \in reached /\ \A n \in reached : n <= reach
  <2> DEFINE b == p.last + Len(l)
  <2>1. b \in Nat /\ p.last <= b /\ \A n \in Nat : n <= Len(l) => n <= b
      BY <1>2
  <2>2. reached \in SUBSET Nat /\ reached # {} /\ \A n \in reached : n <= b
      BY <1>2, <1>4, <2>1
  <2> HIDE DEF b, reached
  <2> QED
      BY <2>1, <2>2, SyncMax
<1> HIDE DEF reach
<1>6. /\ reach \in Nat /\ reach >= p.last /\ (p.last + 1)..reach \subseteq seqs
      /\ reach <= p.last \/ reach <= Len(l)
  <2>1. CASE reach = p.last
      BY <1>2, <2>1
  <2>2. CASE reach # p.last
    <3>1. reach \in seqs /\ (p.last + 1)..reach \subseteq seqs
        BY <1>5, <2>2
    <3>2. p.last <= reach
        BY <1>5
    <3> QED
        BY <1>2, <1>4, <3>1, <3>2
  <2> QED
      BY <2>1, <2>2
<1>7. ASSUME ~ ok PROVE reach + 1 <= Len(l)
  <2>1. PICK n \in seqs : ~ (n <= reach)
      BY <1>7
  <2>2. n \in Nat /\ n <= Len(l)
      BY <1>4
  <2> QED
      BY <1>6, <2>1, <2>2
<1>8. ASSUME NEW e \in run PROVE e \in E /\ e.session = s /\ e.seq \in (p.last + 1)..reach
  <2>1. e \in E /\ e.session = s /\ e.seq > p.last /\ e.seq <= reach
      OBVIOUS
  <2>2. e.seq \in Nat
      BY <1>n, <2>1
  <2> QED
      BY <1>2, <1>6, <2>1, <2>2
<1>9. ASSUME NEW i \in (p.last + 1)..reach PROVE \E e \in run : e.seq = i /\ l[i] = [session |-> s, kind |-> e.kind]
  <2>1. i \in seqs /\ i \in Nat /\ i <= reach
      BY <1>2, <1>6, <1>9
  <2>2. PICK e \in own : e.seq = i
      BY <2>1
  <2> QED
      BY <1>3, <2>1, <2>2
<1>10. ASSUME NEW r \in revisions
       PROVE  \E e \in run : e.kind = "queue" /\ r = e.revision /\ r \in Nat /\ r = Runtime(l, s, e.seq).revision
  <2>1. PICK e \in run : e.kind = "queue" /\ r = e.revision
      OBVIOUS
  <2>2. e \in E /\ e.session = s
      BY <1>8
  <2> DEFINE n == e.seq - 1
  <2>3. n \in Nat /\ n + 1 = e.seq /\ l[n + 1] = [session |-> s, kind |-> "queue"] /\ e.revision = Runtime(l, s, n).revision + 1
      BY <1>3, <2>1, <2>2
  <2> HIDE DEF n
  <2>4. Runtime(l, s, n + 1).revision = Runtime(l, s, n).revision + 1
      BY <2>3, RuntimeNext
  <2> QED
      BY <1>3, <2>1, <2>2, <2>3, <2>4
<1>11. revisions # {} => top \in revisions /\ top \in Nat /\ \A r \in revisions : r <= top
  <2>1. \A r \in revisions : r \in Nat /\ r <= Len(l)
    <3> TAKE r \in revisions
    <3>1. PICK e \in run : r = e.revision /\ r \in Nat /\ r = Runtime(l, s, e.seq).revision
        BY <1>10
    <3>2. e.seq \in Nat /\ e.seq <= Len(l)
        BY <1>3, <1>8
    <3>3. Runtime(l, s, e.seq).revision \in 0..(e.seq)
        BY <3>2, RuntimeTyped
    <3> QED
        BY <3>1, <3>2, <3>3
  <2>2. revisions \in SUBSET Nat
      BY <2>1
  <2> HIDE DEF revisions
  <2> QED
      BY <2>1, <2>2, SyncMax
<1>12. rev \in Nat /\ pend \in BOOLEAN /\ ok \in BOOLEAN
    BY <1>2, <1>11
<1>13. ASSUME p.state = Runtime(l, s, p.last) PROVE rev = Runtime(l, s, reach).revision
  <2>0. p.last \in 0..reach
      BY <1>2, <1>6
  <2>1. CASE \A i \in (p.last + 1)..reach : l[i] # [session |-> s, kind |-> "queue"]
    <3>1. revisions = {}
      <4>1. SUFFICES ASSUME NEW e \in run, e.kind = "queue" PROVE FALSE
          OBVIOUS
      <4>2. e \in E /\ e.session = s /\ e.seq \in (p.last + 1)..reach
          BY <1>8
      <4>3. l[e.seq] = [session |-> s, kind |-> "queue"]
          BY <1>3, <4>1, <4>2
      <4> QED
          BY <2>1, <4>2, <4>3
    <3>2. Runtime(l, s, reach).revision = Runtime(l, s, p.last).revision
        BY <1>6, <2>0, <2>1, RevisionStays
    <3> QED
        BY <1>13, <3>1, <3>2
  <2>2. CASE \E i \in (p.last + 1)..reach : l[i] = [session |-> s, kind |-> "queue"]
    <3> DEFINE Q == {i \in (p.last + 1)..reach : l[i] = [session |-> s, kind |-> "queue"]}
    <3>1. Q \in SUBSET Nat /\ Q # {} /\ \A i \in Q : i <= reach
        BY <1>2, <1>6, <2>2
    <3>2. PICK q \in Q : \A i \in Q : i <= q
      <4> HIDE DEF Q
      <4> QED
          BY <1>6, <3>1, GreatestNumber
    <3>3. q \in Nat /\ q \in (p.last + 1)..reach /\ q \in 0..reach
        BY <1>2, <1>6, <3>2
    <3>4. \A i \in (q + 1)..reach : l[i] # [session |-> s, kind |-> "queue"]
      <4>1. SUFFICES ASSUME NEW i \in (q + 1)..reach, l[i] = [session |-> s, kind |-> "queue"] PROVE FALSE
          OBVIOUS
      <4>2. i \in (p.last + 1)..reach /\ ~ (i <= q)
          BY <1>2, <1>6, <3>3
      <4> QED
          BY <3>2, <4>1, <4>2
    <3>5. Runtime(l, s, reach).revision = Runtime(l, s, q).revision
        BY <1>6, <3>3, <3>4, RevisionStays
    <3>6. PICK e \in run : e.seq = q /\ l[q] = [session |-> s, kind |-> e.kind]
        BY <1>9, <3>3
    <3>7. e.kind = "queue" /\ e \in E /\ e.session = s
      <4>1. [session |-> s, kind |-> e.kind] = [session |-> s, kind |-> "queue"]
          BY <3>2, <3>6
      <4>2. [session |-> s, kind |-> e.kind].kind = [session |-> s, kind |-> "queue"].kind
          BY <4>1
      <4> QED
          BY <1>8, <4>2
    <3>8. e.revision \in revisions /\ e.revision = Runtime(l, s, q).revision
      <4> DEFINE n == q - 1
      <4>1. n \in Nat /\ n + 1 = q /\ l[n + 1] = [session |-> s, kind |-> "queue"] /\ e.revision = Runtime(l, s, n).revision + 1
          BY <1>3, <3>3, <3>6, <3>7
      <4> HIDE DEF n
      <4>2. Runtime(l, s, n + 1).revision = Runtime(l, s, n).revision + 1
          BY <4>1, RuntimeNext
      <4>3. e.revision \in revisions
          BY <3>7
      <4> QED
          BY <4>1, <4>2, <4>3
    <3>9. top >= Runtime(l, s, reach).revision /\ top \in revisions /\ top \in Nat /\ revisions # {}
        BY <1>11, <3>5, <3>8
    <3>10. top <= Runtime(l, s, reach).revision
      <4>1. PICK d \in run : top = Runtime(l, s, d.seq).revision
          BY <1>10, <3>9
      <4>2. d.seq \in 0..reach
          BY <1>2, <1>6, <1>8
      <4> HIDE DEF top
      <4> QED
          BY <1>6, <4>1, <4>2, RuntimeGrows
    <3>11. Runtime(l, s, reach).revision \in Nat
        BY <1>6, RuntimeTyped
    <3>12. rev = top
        BY <3>9
    <3> HIDE DEF top, rev
    <3> QED
        BY <3>9, <3>10, <3>11, <3>12
  <2> QED
      BY <2>1, <2>2
<1>14. ASSUME p.state = Runtime(l, s, p.last) PROVE pend = Runtime(l, s, reach).pending
  <2>1. (\A e \in run : e.kind # "applied") <=> \A i \in (p.last + 1)..reach : l[i] # [session |-> s, kind |-> "applied"]
    <3>1. ASSUME NEW e \in run, e.kind = "applied" PROVE \E i \in (p.last + 1)..reach : l[i] = [session |-> s, kind |-> "applied"]
        BY <1>3, <1>8, <3>1
    <3>2. ASSUME NEW i \in (p.last + 1)..reach, l[i] = [session |-> s, kind |-> "applied"] PROVE \E e \in run : e.kind = "applied"
      <4>1. PICK e \in run : e.seq = i /\ l[i] = [session |-> s, kind |-> e.kind]
          BY <1>9
      <4>2. [session |-> s, kind |-> e.kind].kind = [session |-> s, kind |-> "applied"].kind
          BY <3>2, <4>1
      <4> QED
          BY <4>2
    <3> QED
        BY <3>1, <3>2
  <2>2. p.last \in 0..reach
      BY <1>2, <1>6
  <2>3. Runtime(l, s, reach).pending =
            (Runtime(l, s, p.last).pending /\ \A i \in (p.last + 1)..reach : l[i] # [session |-> s, kind |-> "applied"])
      BY <1>6, <2>2, RuntimeGrows
  <2> QED
      BY <1>14, <2>1, <2>3
<1> HIDE DEF rev, pend, ok, run
<1>15. st \in States /\ st.revision = rev /\ st.pending = pend
    BY <1>12 DEF States
<1>16. p.state = Runtime(l, s, p.last) => st = Runtime(l, s, reach)
  <2> DEFINE R == Runtime(l, s, reach)
  <2>1. R \in States
      BY <1>6, RuntimeTyped
  <2>2. R = [revision |-> R.revision, pending |-> R.pending]
      BY <2>1 DEF States
  <2> HIDE DEF R
  <2> QED
      BY <1>13, <1>14, <2>2 DEF R
<1> HIDE DEF st
<1>17. next \in Projections /\ next.session = p.session /\ next.epoch = p.epoch /\ next.last = reach /\ next.state = st
    BY <1>6, <1>15 DEF Projections
<1> HIDE DEF next
<1> QED
    BY <1>1, <1>6, <1>7, <1>12, <1>16, <1>17 DEF Replayed


LogEntries == [session : Sessions, kind : EventKinds]

Fetches == [generation : Nat, session : Sessions, state : States \cup {Absent},
            snap : Projections \cup {Absent}]

\* The log of the server that runs now.
Cur == log[Len(log)]

\* The types, with those TypeOK leaves out.
SyncTyped ==
    /\ builder \in Builders
    /\ log \in Seq(Seq(LogEntries)) /\ Len(log) >= 1
    /\ net \in SUBSET Events
    /\ active \in Sessions
    /\ proj \in Projections \cup {Absent}
    /\ epoch \in 1..Len(log)
    /\ generation \in Nat
    /\ sync \in [generation : Nat, required : Nat \ {0}] \cup {Absent}
    /\ sync # Absent => sync.generation = generation
    /\ buffer \in SUBSET Events /\ IsFiniteSet(buffer) /\ Cardinality(buffer) <= MaxBuffer
    /\ buffer # {} => sync # Absent
    /\ need \in Nat
    /\ fetches \in SUBSET Fetches
    /\ \A f \in fetches : f.generation \in 1..generation

\* Events under way are of this server's life, and so are the ones kept for a
\* recovery that can still finish.
Carried ==
    /\ \A e \in net : Genuine(Cur, e)
    /\ (\E f \in fetches : f.generation = generation) => \A e \in buffer : Genuine(Cur, e)

\* A snapshot is stamped with this number at most.
Ahead == IF builder = "contract" THEN Len(Cur) ELSE Len(Cur) + 1

\* A snapshot under way is of this life, and the one the recovery waits for was
\* built after what is shown and after the event that started the recovery.
SnapGood(f) ==
    f.snap # Absent =>
        /\ f.snap.epoch = Len(log) /\ f.snap.last <= Ahead
        /\ builder = "contract" => f.snap.state = Runtime(Cur, f.snap.session, f.snap.last)
        /\ f.generation = generation /\ sync # Absent =>
              /\ proj # Absent /\ proj.epoch = Len(log) => f.snap.last >= proj.last
              /\ Len(log) = 1 => f.snap.last >= sync.required

\* One request per generation.
Asked ==
    /\ \A f, g \in fetches : f.generation = g.generation => f = g
    /\ \A f \in fetches : SnapGood(f)

\* What is shown.
Shown ==
    proj # Absent =>
        /\ proj.epoch <= Len(log)
        /\ proj.epoch = Len(log) => proj.last <= Ahead
        /\ builder = "contract" /\ Len(log) = 1 => proj.state = Runtime(Cur, proj.session, proj.last)

\* In its first life the server has issued what a recovery is for.
Due == Len(log) = 1 => need <= Len(Cur) /\ (sync # Absent => sync.required <= Len(Cur))

SyncInv == SyncTyped /\ Carried /\ Asked /\ Shown /\ Due

\* Where the log ends.
LEMMA CurIs ==
    ASSUME SyncTyped
    PROVE  /\ Cur \in Seq(LogEntries) /\ Len(Cur) \in Nat /\ Ahead \in Nat /\ Len(Cur) <= Ahead
           /\ Now = Len(log) /\ Issued = Len(Cur) /\ Len(log) \in Nat \ {0}
<1>1. Len(log) \in Nat \ {0} /\ log \in Seq(Seq(LogEntries))
    BY DEF SyncTyped
<1>2. Cur \in Seq(LogEntries)
  <2>1. Len(log) \in 1..Len(log)
      BY <1>1
  <2> QED
      BY <1>1, <2>1, ElementOfSeq DEF Cur
<1>3. Len(Cur) \in Nat
    BY <1>2
<1>4. Now = Len(log) /\ Issued = Len(Cur)
    BY DEF Now, Issued, Cur
<1> QED
    BY <1>1, <1>2, <1>3, <1>4 DEF Ahead

\* What the instance asks of a snapshot is a projection.
LEMMA SnapshotIsProjection ==
    ASSUME NEW x \in Projections
    PROVE  FromSnapshot(x) = x
BY DEF FromSnapshot, Projections

\* A fetch moves on.
LEMMA FetchMoves ==
    ASSUME SyncInv, NEW f \in fetches, NEW g \in Fetches, g.generation = f.generation, SnapGood(g),
           fetches' = (fetches \ {f}) \cup {g},
           UNCHANGED <<builder, log, net, active, proj, epoch, sync, generation, buffer, need>>
    PROVE  SyncInv'
<1>1. SyncTyped'
    BY DEF SyncInv, SyncTyped
<1>2. Carried'
    BY DEF SyncInv, Carried, Cur
<1>3. \A x \in fetches' : SnapGood(x)'
  <2>1. \A x \in fetches : SnapGood(x)
      BY DEF SyncInv, Asked
  <2> QED
      BY <2>1 DEF SnapGood, Cur, Ahead
<1>4. Asked'
    BY <1>3 DEF SyncInv, Asked
<1>5. Shown' /\ Due'
    BY DEF SyncInv, Shown, Due, Cur, Ahead
<1> QED
    BY <1>1, <1>2, <1>4, <1>5 DEF SyncInv

\* A snapshot stamped now.
LEMMA StampedIsGood ==
    ASSUME SyncInv, NEW f \in fetches, NEW x \in States,
           builder = "contract" => x = Runtime(Cur, f.session, Ahead)
    PROVE  LET g == [f EXCEPT !.state = x, !.snap = [session |-> f.session, epoch |-> Len(log), last |-> Ahead, state |-> x]]
           IN  g \in Fetches /\ g.generation = f.generation /\ SnapGood(g)
<1> DEFINE n == Ahead
           y == [session |-> f.session, epoch |-> Len(log), last |-> n, state |-> x]
           g == [f EXCEPT !.state = x, !.snap = y]
<1>1. /\ f \in Fetches /\ f.session \in Sessions /\ Len(log) \in Nat \ {0} /\ Len(Cur) \in Nat /\ n \in Nat
      /\ Len(Cur) <= n
    BY CurIs DEF SyncInv, SyncTyped, Fetches
<1> HIDE DEF n
<1>2. y \in Projections /\ y.session = f.session /\ y.epoch = Len(log) /\ y.last = n /\ y.state = x
    BY <1>1 DEF Projections
<1> HIDE DEF y
<1>3. g \in Fetches /\ g.generation = f.generation /\ g.snap = y
    BY <1>1, <1>2 DEF Fetches
<1> HIDE DEF g
<1>4. ASSUME proj # Absent, proj.epoch = Len(log), sync # Absent PROVE y.last >= proj.last
  <2>1. proj.last <= n /\ proj.last \in Nat
      BY <1>4 DEF SyncInv, Shown, SyncTyped, Projections, n
  <2> QED
      BY <1>1, <1>2, <2>1
<1>5. ASSUME Len(log) = 1, sync # Absent PROVE y.last >= sync.required
  <2>1. sync.required <= Len(Cur) /\ sync.required \in Nat
      BY <1>5 DEF SyncInv, Due, SyncTyped
  <2> QED
      BY <1>1, <1>2, <2>1
<1>6. y.last <= Ahead /\ (builder = "contract" => x = Runtime(Cur, y.session, y.last))
    BY <1>1, <1>2 DEF n
<1>7. SnapGood(g)
    BY <1>2, <1>3, <1>4, <1>5, <1>6 DEF SnapGood
<1> QED
    BY <1>3, <1>7 DEF g, y, n


LEMMA BuildKeeps ==
    ASSUME SyncInv, NEW f \in fetches, UNCHANGED builder,
           BuildAtomically(f) \/ BuildReads(f) \/ BuildStamps(f)
    PROVE  SyncInv'
<1>1. /\ f \in Fetches /\ Len(Cur) \in Nat /\ Now = Len(log) /\ Issued = Len(Cur)
      /\ f.state \in States \cup {Absent} /\ SnapGood(f)
    BY CurIs DEF SyncInv, SyncTyped, Fetches, Asked
<1> DEFINE t == Runtime(Cur, f.session, Len(Cur))
<1>2. t \in States /\ Truth(f.session, Now, Issued) = t
    BY <1>1, RuntimeTyped, TruthIs DEF Cur
<1>3. UNCHANGED <<log, net, active, proj, epoch, sync, generation, buffer, need>>
    BY DEF BuildAtomically, BuildReads, BuildStamps, clientVars
<1>4. CASE BuildAtomically(f)
  <2> DEFINE g == [f EXCEPT !.state = t, !.snap = [session |-> f.session, epoch |-> Len(log), last |-> Ahead, state |-> t]]
  <2>1. builder = "contract" /\ Ahead = Len(Cur)
      BY <1>4 DEF BuildAtomically, Ahead
  <2>2. fetches' = (fetches \ {f}) \cup {g}
    <3>1. Built([f EXCEPT !.state = t], Len(Cur)) = g
        BY <1>1, <2>1 DEF Built, Fetches
    <3> QED
        BY <1>1, <1>2, <1>4, <3>1 DEF BuildAtomically
  <2>3. g \in Fetches /\ g.generation = f.generation /\ SnapGood(g)
      BY <1>2, <2>1, StampedIsGood
  <2> HIDE DEF g
  <2> QED
      BY <1>3, <2>2, <2>3, FetchMoves
<1>5. CASE BuildReads(f)
  <2> DEFINE g == [f EXCEPT !.state = t]
  <2>1. fetches' = (fetches \ {f}) \cup {g}
      BY <1>2, <1>5 DEF BuildReads
  <2>2. g \in Fetches /\ g.generation = f.generation /\ g.snap = f.snap
      BY <1>1, <1>2 DEF Fetches
  <2> HIDE DEF g
  <2>3. SnapGood(g)
      BY <1>1, <2>2 DEF SnapGood
  <2> QED
      BY <1>3, <2>1, <2>2, <2>3, FetchMoves
<1>6. CASE BuildStamps(f)
  <2> DEFINE x == f.state
             g == [f EXCEPT !.state = x, !.snap = [session |-> f.session, epoch |-> Len(log), last |-> Ahead, state |-> x]]
  <2>1. builder # "contract" /\ Ahead = Len(Cur) + 1 /\ x \in States
      BY <1>1, <1>6 DEF BuildStamps, Ahead
  <2>2. fetches' = (fetches \ {f}) \cup {g}
    <3>1. Built(f, Len(Cur) + 1) = g
        BY <1>1, <2>1 DEF Built, Fetches
    <3> QED
        BY <1>1, <1>6, <3>1 DEF BuildStamps
  <2>3. g \in Fetches /\ g.generation = f.generation /\ SnapGood(g)
      BY <2>1, StampedIsGood
  <2> HIDE DEF g
  <2> QED
      BY <1>3, <2>2, <2>3, FetchMoves
<1> QED
    BY <1>4, <1>5, <1>6

\* An event is issued: what was true of the log stays true.
LEMMA EmitKeeps ==
    ASSUME SyncInv, NEW s \in Sessions, NEW kind \in EventKinds, UNCHANGED builder, Emit(s, kind)
    PROVE  SyncInv'
<1> DEFINE x == [session |-> s, kind |-> kind]
           N == Len(Cur)
           m == Append(Cur, x)
           ev == [session |-> s, seq |-> N + 1, kind |-> kind, epoch |-> Len(log),
                  revision |-> Runtime(Cur, s, N).revision + 1]
<1>1. /\ Cur \in Seq(LogEntries) /\ N \in Nat /\ Ahead \in Nat /\ Now = Len(log) /\ Issued = N
      /\ Len(log) \in Nat \ {0} /\ log \in Seq(Seq(LogEntries))
    BY CurIs DEF SyncInv, SyncTyped
<1>2. x \in LogEntries
    BY DEF LogEntries
<1>3. /\ m \in Seq(LogEntries) /\ Len(m) = N + 1 /\ m[N + 1] = x
      /\ \A i \in 1..N : m[i] = Cur[i]
    BY <1>1, <1>2
<1>4. log' = [log EXCEPT ![Len(log)] = m] /\ net' = net \cup {ev}
    BY <1>1, TruthIs DEF Emit, Cur
<1>5. UNCHANGED <<active, proj, epoch, sync, generation, buffer, need, fetches>>
    BY DEF Emit, clientVars
<1> HIDE DEF m, x
<1>6. Len(log') = Len(log) /\ log' \in Seq(Seq(LogEntries)) /\ Cur' = m /\ Len(Cur') = N + 1
    BY <1>1, <1>3, <1>4 DEF Cur
<1>7. \A t, n : n \in 0..N => Runtime(Cur', t, n) = Runtime(Cur, t, n)
  <2> TAKE t, n
  <2> HAVE n \in 0..N
  <2>1. n \in Nat /\ \A i \in 1..n : m[i] = Cur[i]
      BY <1>1, <1>3
  <2> QED
      BY <1>6, <2>1, RuntimeStays
<1>8. ASSUME NEW e, Genuine(Cur, e) PROVE Genuine(Cur', e)
  <2>1. e.seq \in 1..N /\ e.seq - 1 \in 0..N
      BY <1>1, <1>8 DEF Genuine
  <2>2. m[e.seq] = Cur[e.seq] /\ Runtime(Cur', e.session, e.seq - 1) = Runtime(Cur, e.session, e.seq - 1)
      BY <1>3, <1>7, <2>1
  <2> QED
      BY <1>1, <1>6, <1>8, <2>1, <2>2 DEF Genuine
<1>9. ev \in Events /\ Genuine(Cur', ev)
  <2>1. Runtime(Cur, s, N).revision \in Nat
      BY <1>1, RuntimeTyped
  <2> DEFINE r == Runtime(Cur, s, N).revision + 1
  <2>2. r \in Nat \ {0}
      BY <2>1
  <2>3. ev = [session |-> s, seq |-> N + 1, kind |-> kind, epoch |-> Len(log), revision |-> r]
      OBVIOUS
  <2>4. N + 1 \in Nat \ {0} /\ Len(log) \in Nat
      BY <1>1
  <2>5. Runtime(Cur', s, N) = Runtime(Cur, s, N) /\ (N + 1) - 1 = N /\ N + 1 \in 1..(N + 1)
      BY <1>1, <1>7
  <2>6. r = Runtime(Cur', s, (N + 1) - 1).revision + 1
      BY <2>5
  <2>7. m[N + 1] = [session |-> s, kind |-> kind]
      BY <1>3 DEF x
  <2> HIDE DEF r, ev, N
  <2>8. ev \in Events
      BY <2>2, <2>3, <2>4 DEF Events
  <2>9. ev.seq = N + 1 /\ ev.session = s /\ ev.kind = kind /\ ev.revision = r
      BY <2>3
  <2> QED
      BY <1>6, <2>5, <2>6, <2>7, <2>8, <2>9 DEF Genuine
<1> HIDE DEF ev
<1>10. SyncTyped'
    BY <1>4, <1>5, <1>6, <1>9 DEF SyncInv, SyncTyped
<1>11. Carried'
    BY <1>4, <1>5, <1>8, <1>9 DEF SyncInv, Carried
<1>12. Ahead' = Ahead + 1 /\ (builder = "contract" => Ahead = N)
    BY <1>1, <1>6 DEF Ahead
<1>13. ASSUME NEW f \in fetches PROVE SnapGood(f)'
  <2>1. SnapGood(f) /\ (f.snap # Absent => f.snap.last \in Nat)
      BY DEF SyncInv, Asked, SyncTyped, Fetches, Projections
  <2>2. f.snap # Absent /\ builder = "contract" => Runtime(Cur', f.snap.session, f.snap.last) = Runtime(Cur, f.snap.session, f.snap.last)
    <3>1. f.snap # Absent /\ builder = "contract" => f.snap.last \in 0..N
        BY <1>1, <1>12, <2>1 DEF SnapGood
    <3> QED
        BY <1>7, <3>1
  <2> QED
      BY <1>1, <1>5, <1>6, <1>12, <2>1, <2>2 DEF SnapGood
<1>14. Asked'
    BY <1>5, <1>13 DEF SyncInv, Asked
<1>15. Shown'
  <2>1. Shown /\ (proj # Absent => proj.last \in Nat /\ proj.epoch \in Nat \ {0})
      BY DEF SyncInv, SyncTyped, Projections
  <2>2. proj # Absent /\ builder = "contract" /\ Len(log) = 1 => Runtime(Cur', proj.session, proj.last) = Runtime(Cur, proj.session, proj.last)
    <3>1. proj # Absent /\ builder = "contract" /\ Len(log) = 1 => proj.last \in 0..N
        BY <1>1, <1>12, <2>1 DEF Shown
    <3> QED
        BY <1>7, <3>1
  <2> QED
      BY <1>1, <1>5, <1>6, <1>12, <2>1, <2>2 DEF Shown
<1>16. Due'
  <2>1. need \in Nat /\ (sync # Absent => sync.required \in Nat) /\ Due
      BY DEF SyncInv, SyncTyped
  <2> QED
      BY <1>1, <1>5, <1>6, <2>1 DEF Due
<1> QED
    BY <1>10, <1>11, <1>14, <1>15, <1>16 DEF SyncInv

\* Requests answered or dropped, and a client that is told to ask again.
LEMMA FetchesShrink ==
    ASSUME SyncInv, fetches' \subseteq fetches, need' = need \/ (sync # Absent /\ need' = sync.required),
           UNCHANGED <<builder, log, net, active, proj, epoch, sync, generation, buffer>>
    PROVE  SyncInv'
<1>1. need' \in Nat /\ (Len(log) = 1 => need' <= Len(Cur))
    BY DEF SyncInv, SyncTyped, Due
<1>2. SyncTyped'
    BY <1>1 DEF SyncInv, SyncTyped
<1>3. Carried'
    BY DEF SyncInv, Carried, Cur
<1>4. \A x \in fetches' : SnapGood(x)'
  <2>1. \A x \in fetches : SnapGood(x)
      BY DEF SyncInv, Asked
  <2> QED
      BY <2>1 DEF SnapGood, Cur, Ahead
<1>5. Asked'
    BY <1>4 DEF SyncInv, Asked
<1>6. Shown' /\ Due'
    BY <1>1 DEF SyncInv, Shown, Due, Cur, Ahead
<1> QED
    BY <1>2, <1>3, <1>5, <1>6 DEF SyncInv

\* A new life of the server.
LEMMA RestartKeeps ==
    ASSUME SyncInv, UNCHANGED builder, Restart
    PROVE  SyncInv'
<1>1. Len(log) \in Nat \ {0} /\ log \in Seq(Seq(LogEntries)) /\ << >> \in Seq(LogEntries)
    BY CurIs DEF SyncInv, SyncTyped
<1>2. /\ log' = Append(log, << >>) /\ net' = {} /\ fetches' = {}
      /\ UNCHANGED <<active, proj, epoch, sync, generation, buffer>>
      /\ need' = IF sync = Absent THEN need ELSE sync.required
    BY DEF Restart, clientVars
<1>3. Len(log') = Len(log) + 1 /\ log' \in Seq(Seq(LogEntries))
    BY <1>1, <1>2
<1>4. need' \in Nat
    BY <1>2 DEF SyncInv, SyncTyped
<1>5. epoch' \in 1..Len(log')
    BY <1>1, <1>2, <1>3 DEF SyncInv, SyncTyped
<1>6. SyncTyped'
    BY <1>1, <1>2, <1>3, <1>4, <1>5 DEF SyncInv, SyncTyped
<1>7. Carried' /\ Asked'
    BY <1>2 DEF Carried, Asked
<1>8. Shown'
  <2>1. proj # Absent => proj.epoch <= Len(log) /\ proj.epoch \in Nat
      BY DEF SyncInv, Shown, SyncTyped, Projections
  <2> QED
      BY <1>1, <1>2, <1>3, <2>1 DEF Shown
<1>9. Due'
  <2>1. Len(log') # 1
      BY <1>1, <1>3
  <2> QED
      BY <2>1 DEF Due
<1> QED
    BY <1>6, <1>7, <1>8, <1>9 DEF SyncInv

LEMMA ResetKeepsInv ==
    ASSUME SyncInv, NEW s \in Sessions, UNCHANGED builder, ResetSession(s)
    PROVE  SyncInv'
<1>1. /\ active' = s /\ proj' = Absent /\ sync' = Absent /\ buffer' = {} /\ need' = 0
      /\ UNCHANGED <<log, net, epoch, generation, fetches>>
    BY DEF ResetSession
<1>2. IsFiniteSet({}) /\ Cardinality({}) <= MaxBuffer
    BY FS_EmptySet, SyncAssumption
<1>4. SyncTyped'
    BY <1>1, <1>2 DEF SyncInv, SyncTyped
<1>5. Carried'
    BY <1>1 DEF SyncInv, Carried, Cur
<1>6. \A x \in fetches' : SnapGood(x)'
  <2>1. \A x \in fetches : SnapGood(x)
      BY DEF SyncInv, Asked
  <2> QED
      BY <1>1, <2>1 DEF SnapGood, Cur, Ahead
<1>7. Asked'
    BY <1>1, <1>6 DEF SyncInv, Asked
<1>8. Shown' /\ Due'
  <2>1. Shown'
      BY <1>1 DEF Shown
  <2>2. Due'
      BY <1>1, CurIs DEF SyncInv, Due, Cur
  <2> QED
      BY <2>1, <2>2
<1> QED
    BY <1>4, <1>5, <1>7, <1>8 DEF SyncInv

\* The first snapshot of a session.
LEMMA InstallKeeps ==
    ASSUME SyncInv, UNCHANGED builder, InstallSnapshot
    PROVE  SyncInv'
<1> DEFINE t == Runtime(Cur, active, Len(Cur))
           y == [session |-> active, epoch |-> Len(log), last |-> Len(Cur), state |-> t]
<1>1. /\ Len(Cur) \in Nat /\ Now = Len(log) /\ Issued = Len(Cur) /\ Len(log) \in Nat \ {0}
      /\ active \in Sessions
    BY CurIs DEF SyncInv, SyncTyped
<1>2. t \in States /\ Truth(active, Now, Issued) = t
    BY <1>1, RuntimeTyped, TruthIs DEF Cur
<1> HIDE DEF t
<1>3. y \in Projections /\ y.session = active /\ y.epoch = Len(log) /\ y.last = Len(Cur) /\ y.state = t
    BY <1>1, <1>2 DEF Projections
<1>4. /\ proj' = y /\ epoch' = Len(log) /\ buffer' = {} /\ builder = "contract" /\ sync = Absent
      /\ UNCHANGED <<log, net, active, sync, generation, need, fetches>>
  <2>1. proj' = FromSnapshot(y)
      BY <1>1, <1>2 DEF InstallSnapshot
  <2> QED
      BY <1>1, <1>3, <2>1, SnapshotIsProjection DEF InstallSnapshot
<1> HIDE DEF y
<1>5. Ahead = Len(Cur)
    BY <1>4 DEF Ahead
<1>6. IsFiniteSet({}) /\ Cardinality({}) <= MaxBuffer
    BY FS_EmptySet, SyncAssumption
<1>7. SyncTyped'
    BY <1>1, <1>3, <1>4, <1>6 DEF SyncInv, SyncTyped
<1>8. Carried'
    BY <1>4 DEF SyncInv, Carried, Cur
<1>9. \A x \in fetches' : SnapGood(x)'
  <2>1. \A x \in fetches : SnapGood(x)
      BY DEF SyncInv, Asked
  <2> QED
      BY <1>4, <2>1 DEF SnapGood, Cur, Ahead
<1>10. Asked'
    BY <1>4, <1>9 DEF SyncInv, Asked
<1>11. Cur' = Cur /\ Ahead' = Ahead
    BY <1>4 DEF Cur, Ahead
<1>12. Shown'
  <2>1. y.state = Runtime(Cur, y.session, y.last)
      BY <1>3 DEF t
  <2>2. proj'.epoch <= Len(log') /\ proj'.last <= Ahead'
      BY <1>1, <1>3, <1>4, <1>5, <1>11
  <2> QED
      BY <1>4, <1>11, <2>1, <2>2 DEF Shown
<1>13. Due'
    BY <1>4, <1>11 DEF SyncInv, Due
<1> QED
    BY <1>7, <1>8, <1>10, <1>12, <1>13 DEF SyncInv

LEMMA BeginKeeps ==
    ASSUME SyncInv, UNCHANGED builder, BeginRecovery
    PROVE  SyncInv'
<1> DEFINE g == generation + 1
           s == [generation |-> g, required |-> need]
           f == [generation |-> g, session |-> active, state |-> Absent, snap |-> Absent]
<1>1. /\ generation' = g /\ sync' = s /\ buffer' = {} /\ need' = 0 /\ fetches' = fetches \cup {f}
      /\ need # 0 /\ UNCHANGED <<log, net, active, proj, epoch>>
    BY DEF BeginRecovery
<1>2. generation \in Nat /\ g \in Nat /\ g \in 1..g /\ g # generation /\ need \in Nat \ {0} /\ active \in Sessions
    BY <1>1 DEF SyncInv, SyncTyped
<1>3. \A x \in fetches : x.generation \in 1..g /\ x.generation # g
    BY <1>2 DEF SyncInv, SyncTyped
<1> HIDE DEF g
<1>4. f \in Fetches /\ f.generation = g /\ f.snap = Absent
    BY <1>2 DEF Fetches
<1>5. s \in [generation : Nat, required : Nat \ {0}] /\ s.generation = g /\ s.required = need
    BY <1>2
<1> HIDE DEF f, s
<1>6. IsFiniteSet({}) /\ Cardinality({}) <= MaxBuffer
    BY FS_EmptySet, SyncAssumption
<1>7. SyncTyped'
  <2>1. fetches' \in SUBSET Fetches /\ \A x \in fetches' : x.generation \in 1..(generation')
      BY <1>1, <1>2, <1>3, <1>4 DEF SyncInv, SyncTyped
  <2> QED
      BY <1>1, <1>2, <1>5, <1>6, <2>1 DEF SyncInv, SyncTyped
<1>8. Carried'
    BY <1>1 DEF SyncInv, Carried, Cur
<1>9. Cur' = Cur /\ Ahead' = Ahead
    BY <1>1 DEF Cur, Ahead
<1>10. \A x \in fetches' : SnapGood(x)'
  <2>1. \A x \in fetches : SnapGood(x)
      BY DEF SyncInv, Asked
  <2>2. ASSUME NEW x \in fetches PROVE SnapGood(x)'
      BY <1>1, <1>3, <1>9, <2>1 DEF SnapGood
  <2>3. \A x : x.snap = Absent => SnapGood(x)'
      BY DEF SnapGood
  <2> QED
      BY <1>1, <1>4, <2>2, <2>3
<1>11. Asked'
  <2>1. \A x, y \in fetches : x.generation = y.generation => x = y
      BY DEF SyncInv, Asked
  <2>2. \A x, y \in fetches' : x.generation = y.generation => x = y
      BY <1>1, <1>3, <1>4, <2>1
  <2> QED
      BY <1>10, <2>2 DEF Asked
<1>12. Shown'
    BY <1>1, <1>9 DEF SyncInv, Shown
<1>13. Due'
    BY <1>1, <1>5, <1>9, CurIs DEF SyncInv, Due
<1> QED
    BY <1>7, <1>8, <1>11, <1>12, <1>13 DEF SyncInv

\* An event of the session shown arrives.
LEMMA DeliverKeeps ==
    ASSUME SyncInv, NEW e \in net, UNCHANGED builder, Deliver(e)
    PROVE  /\ SyncInv'
           /\ proj # Absent => proj'.last >= proj.last
           /\ sync' = sync
<1>1. /\ net' \subseteq net
      /\ UNCHANGED <<log, active, epoch, sync, generation, fetches>>
    BY DEF Deliver
<1>2. e \in Events /\ Genuine(Cur, e) /\ Len(Cur) \in Nat /\ e.seq \in Nat /\ e.seq <= Len(Cur) /\ Len(Cur) <= Ahead
  <2>1. e \in Events /\ Genuine(Cur, e)
      BY DEF SyncInv, SyncTyped, Carried
  <2>2. Len(Cur) \in Nat /\ Len(Cur) <= Ahead
      BY CurIs DEF SyncInv
  <2>3. e.seq \in 1..Len(Cur)
      BY <2>1 DEF Genuine
  <2> QED
      BY <2>1, <2>2, <2>3
<1>3. Cur' = Cur /\ Ahead' = Ahead
    BY <1>1 DEF Cur, Ahead
<1>4. CASE Buffered(e)
  <2>1. /\ sync # Absent /\ proj' = proj /\ need' = need
        /\ buffer' = IF Cardinality(buffer) < MaxBuffer THEN buffer \cup {e} ELSE buffer
      BY <1>4 DEF Buffered
  <2>2. buffer' \in SUBSET Events /\ IsFiniteSet(buffer') /\ Cardinality(buffer') <= MaxBuffer
    <3>1. buffer \in SUBSET Events /\ IsFiniteSet(buffer) /\ Cardinality(buffer) <= MaxBuffer /\ MaxBuffer \in Nat
        BY SyncAssumption DEF SyncInv, SyncTyped
    <3>2. Cardinality(buffer) \in Nat
        BY <3>1, FS_CardinalityType
    <3>3. /\ IsFiniteSet(buffer \cup {e})
          /\ Cardinality(buffer \cup {e}) = Cardinality(buffer) \/ Cardinality(buffer \cup {e}) = Cardinality(buffer) + 1
        BY <3>1, FS_AddElement
    <3> QED
        BY <1>2, <2>1, <3>1, <3>2, <3>3
  <2>3. SyncTyped'
      BY <1>1, <2>1, <2>2 DEF SyncInv, SyncTyped
  <2>4. Carried'
    <3>1. buffer' \subseteq buffer \cup {e}
        BY <2>1
    <3> QED
        BY <1>1, <1>2, <1>3, <3>1 DEF SyncInv, Carried
  <2>5. \A x \in fetches' : SnapGood(x)'
    <3>1. \A x \in fetches : SnapGood(x)
        BY DEF SyncInv, Asked
    <3> QED
        BY <1>1, <1>3, <2>1, <3>1 DEF SnapGood
  <2>6. Asked'
      BY <1>1, <2>5 DEF SyncInv, Asked
  <2>7. Shown' /\ Due'
      BY <1>1, <1>3, <2>1 DEF SyncInv, Shown, Due
  <2>8. proj # Absent => proj'.last >= proj.last
      BY <2>1 DEF SyncInv, SyncTyped, Projections
  <2> QED
      BY <1>1, <2>1, <2>3, <2>4, <2>6, <2>7, <2>8 DEF SyncInv
<1>5. CASE Reduced(e)
  <2>1. sync = Absent /\ buffer' = buffer
      BY <1>5 DEF Reduced
  <2>2. /\ need' = need \/ need' = e.seq
        /\ proj' = proj \/ (Projects(e) /\ e.seq = proj.last + 1 /\ proj' = Apply(proj, e))
      BY <1>5 DEF Reduced
  <2>3. need' \in Nat /\ (Len(log) = 1 => need' <= Len(Cur))
      BY <1>2, <2>2 DEF SyncInv, SyncTyped, Due
  <2>4. /\ proj' \in Projections \cup {Absent}
        /\ proj # Absent => proj'.last >= proj.last
        /\ proj' # Absent =>
              /\ proj'.epoch <= Len(log)
              /\ proj'.epoch = Len(log) => proj'.last <= Ahead
              /\ builder = "contract" /\ Len(log) = 1 => proj'.state = Runtime(Cur, proj'.session, proj'.last)
    <3>1. proj \in Projections \cup {Absent} /\ Shown
        BY DEF SyncInv, SyncTyped
    <3>2. CASE proj' = proj
        BY <3>1, <3>2 DEF Shown, Projections
    <3>3. CASE Projects(e) /\ e.seq = proj.last + 1 /\ proj' = Apply(proj, e)
      <4>1. proj # Absent /\ proj \in Projections /\ e.session = proj.session /\ proj.last \in Nat
          BY <3>1, <3>3 DEF Projects, Projections
      <4>2. proj' \in Projections /\ proj'.session = proj.session /\ proj'.epoch = proj.epoch /\ proj'.last = e.seq
          BY <1>2, <3>3, <4>1, ApplySays
      <4>3. proj'.last >= proj.last /\ proj'.last <= Ahead
          BY <1>2, <3>3, <4>1, <4>2, CurIs DEF SyncInv
      <4>4. ASSUME builder = "contract", Len(log) = 1 PROVE proj'.state = Runtime(Cur, proj'.session, proj'.last)
        <5>1. proj.state = Runtime(Cur, proj.session, proj.last)
            BY <3>1, <4>1, <4>4 DEF Shown
        <5>2. Apply(proj, e).state = Runtime(Cur, proj.session, e.seq)
            BY <1>2, <3>3, <4>1, <5>1, ApplyFaithful
        <5> QED
            BY <3>3, <4>2, <5>2
      <4> QED
          BY <3>1, <4>1, <4>2, <4>3, <4>4 DEF Shown
    <3> QED
        BY <2>2, <3>2, <3>3
  <2>5. SyncTyped'
      BY <1>1, <2>1, <2>3, <2>4 DEF SyncInv, SyncTyped
  <2>6. Carried'
      BY <1>1, <1>3, <2>1 DEF SyncInv, Carried
  <2>7. \A x \in fetches' : SnapGood(x)'
    <3>1. \A x \in fetches : SnapGood(x)
        BY DEF SyncInv, Asked
    <3> QED
        BY <1>1, <1>3, <2>1, <3>1 DEF SnapGood
  <2>8. Asked'
      BY <1>1, <2>7 DEF SyncInv, Asked
  <2>9. Shown' /\ Due'
      BY <1>1, <1>3, <2>1, <2>3, <2>4 DEF SyncInv, Shown, Due
  <2> QED
      BY <1>1, <2>4, <2>5, <2>6, <2>8, <2>9 DEF SyncInv
<1> QED
    BY <1>4, <1>5 DEF Deliver

\* The answer the generation waits for: what is shown then is no older than the
\* snapshot, and no older than what a recovery under way was started for.
LEMMA FinishKeeps ==
    ASSUME SyncInv, NEW f \in fetches, UNCHANGED builder, FinishRecovery(f)
    PROVE  /\ SyncInv'
           /\ fetches' # fetches
           /\ sync # Absent /\ proj # Absent /\ proj.epoch = proj'.epoch => proj'.last >= proj.last
           /\ sync # Absent /\ Len(log) = 1 => proj'.last >= sync.required
<1> DEFINE y == f.snap
           r == ReplayBuffer(y, buffer)
<1>1. /\ f \in Fetches /\ y # Absent /\ f.generation = generation /\ SnapGood(f)
      /\ y \in Projections /\ y.last \in Nat
    BY DEF SyncInv, SyncTyped, Asked, Fetches, FinishRecovery, Projections
<1>2. Len(Cur) \in Nat /\ Len(Cur) <= Ahead /\ Ahead \in Nat /\ Len(log) \in Nat \ {0}
    BY CurIs DEF SyncInv
<1>3. Replayed(Cur, y, r)
  <2>1. buffer \in SUBSET Events /\ \A e \in buffer : Genuine(Cur, e)
      BY <1>1 DEF SyncInv, SyncTyped, Carried
  <2> QED
      BY <1>1, <1>2, <2>1, ReplaySays
<1>4. /\ fetches' = fetches \ {f} /\ proj' = r.proj /\ epoch' = y.epoch /\ buffer' = {}
      /\ sync' = IF r.ok THEN Absent ELSE sync
      /\ need' = IF r.ok THEN need ELSE r.proj.last + 1
      /\ UNCHANGED <<log, net, active, generation>>
    BY <1>1, SnapshotIsProjection DEF FinishRecovery
<1> HIDE DEF r
<1>5. /\ proj' \in Projections /\ proj'.last \in Nat /\ proj'.epoch = Len(log) /\ proj'.session = y.session
      /\ proj'.last >= y.last /\ proj'.last <= Ahead /\ y.last <= Ahead /\ y.epoch = Len(log)
  <2>1. proj' \in Projections /\ proj'.last \in Nat
      BY <1>3, <1>4 DEF Replayed, Projections
  <2>2. y.last <= Ahead /\ y.epoch = Len(log)
      BY <1>1 DEF SnapGood
  <2> QED
      BY <1>1, <1>2, <1>3, <1>4, <2>1, <2>2 DEF Replayed
<1>6. Cur' = Cur /\ Ahead' = Ahead
    BY <1>4 DEF Cur, Ahead
<1>7. ~ r.ok => need' \in Nat /\ need' <= Len(Cur)
    BY <1>3, <1>4, <1>5 DEF Replayed
<1>8. need' \in Nat /\ (Len(log) = 1 => need' <= Len(Cur))
    BY <1>4, <1>7 DEF SyncInv, SyncTyped, Due
<1>9. IsFiniteSet({}) /\ Cardinality({}) <= MaxBuffer
    BY FS_EmptySet, SyncAssumption
<1>10. SyncTyped'
  <2>1. epoch' \in 1..Len(log')
      BY <1>2, <1>4, <1>5
  <2> QED
      BY <1>4, <1>5, <1>8, <1>9, <2>1 DEF SyncInv, SyncTyped
<1>11. Carried'
    BY <1>4, <1>6 DEF SyncInv, Carried
<1>12. \A x \in fetches' : x \in fetches /\ x.generation # generation'
    BY <1>1, <1>4 DEF SyncInv, Asked
<1>13. \A x \in fetches' : SnapGood(x)'
  <2>1. \A x \in fetches : SnapGood(x)
      BY DEF SyncInv, Asked
  <2> QED
      BY <1>4, <1>6, <1>12, <2>1 DEF SnapGood
<1>14. Asked'
    BY <1>12, <1>13 DEF SyncInv, Asked
<1>15. Shown'
  <2>1. ASSUME builder = "contract" PROVE proj'.state = Runtime(Cur, proj'.session, proj'.last)
      BY <1>1, <1>3, <1>4, <1>5, <2>1 DEF SnapGood, Replayed
  <2> QED
      BY <1>2, <1>4, <1>5, <1>6, <2>1 DEF Shown
<1>16. Due'
    BY <1>4, <1>6, <1>8 DEF SyncInv, Due
<1>17. fetches' # fetches
    BY <1>4
<1>18. ASSUME sync # Absent, proj # Absent, proj.epoch = proj'.epoch PROVE proj'.last >= proj.last
  <2>1. y.last >= proj.last /\ proj.last \in Nat
      BY <1>1, <1>5, <1>18 DEF SnapGood, SyncInv, SyncTyped, Projections
  <2> QED
      BY <1>1, <1>5, <2>1
<1>19. ASSUME sync # Absent, Len(log) = 1 PROVE proj'.last >= sync.required
  <2>1. y.last >= sync.required /\ sync.required \in Nat
      BY <1>1, <1>19 DEF SnapGood, SyncInv, SyncTyped
  <2> QED
      BY <1>1, <1>5, <2>1
<1> QED
    BY <1>10, <1>11, <1>14, <1>15, <1>16, <1>17, <1>18, <1>19 DEF SyncInv

\* What one step does to the invariant and to what is shown.
SyncForward ==
    /\ proj # Absent /\ proj' # Absent /\ proj.epoch = proj'.epoch => LateAnswer \/ proj'.last >= proj.last
    /\ sync # Absent /\ sync' = Absent /\ proj' # Absent /\ Len(log) = 1 => proj'.last >= sync.required

LEMMA SameView ==
    ASSUME SyncInv, UNCHANGED proj, sync' # Absent \/ sync' = sync
    PROVE  SyncForward
BY DEF SyncForward, SyncInv, SyncTyped, Projections

LEMMA SyncStep ==
    ASSUME SyncInv, [SyncNext]_syncVars
    PROVE  SyncInv' /\ SyncForward
<1>1. CASE UNCHANGED syncVars
  <2>1. /\ fetches' \subseteq fetches /\ need' = need
        /\ UNCHANGED <<builder, log, net, active, proj, epoch, sync, generation, buffer>>
      BY <1>1 DEF syncVars
  <2> QED
      BY <2>1, FetchesShrink, SameView
<1>2. CASE SyncNext
  <2>0. UNCHANGED builder /\ Step
      BY <1>2 DEF SyncNext
  <2>1. ASSUME NEW s \in Sessions, NEW kind \in EventKinds, Emit(s, kind) PROVE SyncInv' /\ SyncForward
    <3>1. UNCHANGED <<proj, sync>>
        BY <2>1 DEF Emit, clientVars
    <3> QED
        BY <2>0, <2>1, <3>1, EmitKeeps, SameView
  <2>2. CASE Restart
    <3>1. UNCHANGED <<proj, sync>>
        BY <2>2 DEF Restart, clientVars
    <3> QED
        BY <2>0, <2>2, <3>1, RestartKeeps, SameView
  <2>3. ASSUME NEW s \in Sessions, ResetSession(s) PROVE SyncInv' /\ SyncForward
    <3>1. SyncForward
        BY <2>3 DEF ResetSession, SyncForward
    <3> QED
        BY <2>0, <2>3, <3>1, ResetKeepsInv
  <2>4. CASE InstallSnapshot
    <3>1. SyncForward
        BY <2>4 DEF InstallSnapshot, SyncForward
    <3> QED
        BY <2>0, <2>4, <3>1, InstallKeeps
  <2>5. ASSUME NEW e \in net, Deliver(e) PROVE SyncInv' /\ SyncForward
    <3>1. /\ SyncInv' /\ sync' = sync
          /\ proj # Absent => proj'.last >= proj.last
        BY <2>0, <2>5, DeliverKeeps
    <3> QED
        BY <3>1 DEF SyncForward
  <2>6. CASE BeginRecovery
    <3>1. proj' = proj /\ sync' = [generation |-> generation + 1, required |-> need]
        BY <2>6 DEF BeginRecovery
    <3>2. sync' \in [generation : Nat, required : Nat]
        BY <3>1 DEF SyncInv, SyncTyped
    <3>3. sync' # Absent
        BY <3>2, SyncAssumption
    <3> QED
        BY <2>0, <2>6, <3>1, <3>3, BeginKeeps, SameView
  <2>7. CASE RetryRecovery
    <3>1. /\ fetches' \subseteq fetches /\ sync # Absent /\ need' = sync.required
          /\ UNCHANGED <<log, net, active, proj, epoch, sync, generation, buffer>>
        BY <2>7 DEF RetryRecovery, clientVars
    <3> QED
        BY <2>0, <3>1, FetchesShrink, SameView
  <2>8. ASSUME NEW f \in fetches, BuildAtomically(f) \/ BuildReads(f) \/ BuildStamps(f)
        PROVE  SyncInv' /\ SyncForward
    <3>1. UNCHANGED <<proj, sync>>
        BY <2>8 DEF BuildAtomically, BuildReads, BuildStamps, clientVars
    <3> QED
        BY <2>0, <2>8, <3>1, BuildKeeps, SameView
  <2>9. ASSUME NEW f \in fetches, FinishRecovery(f) PROVE SyncInv' /\ SyncForward
    <3>1. /\ SyncInv' /\ fetches' # fetches
          /\ sync # Absent /\ proj # Absent /\ proj.epoch = proj'.epoch => proj'.last >= proj.last
          /\ sync # Absent /\ Len(log) = 1 => proj'.last >= sync.required
        BY <2>0, <2>9, FinishKeeps
    <3> QED
        BY <3>1 DEF SyncForward, LateAnswer
  <2>10. ASSUME NEW f \in fetches, FinishIgnored(f) \/ FetchFails(f) PROVE SyncInv' /\ SyncForward
    <3>1. /\ fetches' \subseteq fetches /\ (need' = need \/ (sync # Absent /\ need' = sync.required))
          /\ UNCHANGED <<log, net, active, proj, epoch, sync, generation, buffer>>
        BY <2>10 DEF FinishIgnored, FetchFails, clientVars
    <3> QED
        BY <2>0, <3>1, FetchesShrink, SameView
  <2> QED
      BY <2>0, <2>1, <2>2, <2>3, <2>4, <2>5, <2>6, <2>7, <2>8, <2>9, <2>10 DEF Step, Answer
<1> QED
    BY <1>1, <1>2

LEMMA SyncStart ==
    ASSUME SyncInit
    PROVE  SyncInv
<1>1. /\ builder \in Builders /\ log = << << >> >> /\ net = {} /\ active = (CHOOSE s \in Sessions : TRUE)
      /\ proj = Absent /\ epoch = 1 /\ sync = Absent /\ generation = 0 /\ buffer = {} /\ need = 0 /\ fetches = {}
    BY DEF SyncInit
<1>2. active \in Sessions
    BY <1>1, SyncAssumption
<1>3. IsFiniteSet({}) /\ Cardinality({}) <= MaxBuffer
    BY FS_EmptySet, SyncAssumption
<1>4. log \in Seq(Seq(LogEntries)) /\ Len(log) = 1 /\ Cur = << >> /\ Len(Cur) = 0
    BY <1>1 DEF Cur
<1>5. SyncTyped
    BY <1>1, <1>2, <1>3, <1>4 DEF SyncTyped
<1>6. Carried /\ Asked /\ Shown /\ Due
    BY <1>1, <1>4 DEF Carried, Asked, Shown, Due
<1> QED
    BY <1>5, <1>6 DEF SyncInv

\* The least of two numbers.
LEMMA SyncMin ==
    ASSUME NEW a \in Nat, NEW b \in Nat, a <= b
    PROVE  Min({a, b}) = a
<1>1. \E x \in {a, b} : \A k \in {a, b} : x <= k
    OBVIOUS
<1>2. Min({a, b}) \in {a, b} /\ \A k \in {a, b} : Min({a, b}) <= k
    BY <1>1 DEF Min
<1> QED
    BY <1>2

LEMMA SyncInvSays ==
    ASSUME SyncInv
    PROVE  ProjectionSound
<1>1. SyncTypeOK
  <2>2. \A f \in fetches : f.generation \in 1..generation /\ f.snap \in Projections \cup {Absent}
      BY DEF SyncInv, SyncTyped, Fetches
  <2> QED
      BY <2>2, CurIs DEF SyncInv, SyncTyped, SyncTypeOK
<1>2. ASSUME builder = "contract", Now = 1, proj # Absent
      PROVE  proj.state = Truth(proj.session, proj.epoch, Min({proj.last, Len(log[proj.epoch])}))
  <2>1. Len(log) = 1 /\ Len(Cur) \in Nat /\ Ahead = Len(Cur)
      BY <1>2, CurIs DEF SyncInv, Ahead
  <2>2. proj \in Projections /\ proj.epoch \in Nat \ {0} /\ proj.last \in Nat
      BY <1>2 DEF SyncInv, SyncTyped, Projections
  <2>3. proj.epoch = 1 /\ log[proj.epoch] = Cur /\ proj.last <= Len(Cur)
      BY <1>2, <2>1, <2>2 DEF SyncInv, Shown, Cur
  <2>4. proj.state = Runtime(Cur, proj.session, proj.last)
      BY <1>2, <2>1 DEF SyncInv, Shown
  <2>5. Min({proj.last, Len(log[proj.epoch])}) = proj.last
      BY <2>1, <2>2, <2>3, SyncMin
  <2> QED
      BY <2>3, <2>4, <2>5, TruthIs
<1>3. ProjectionIsPrefix
    BY <1>2 DEF ProjectionIsPrefix, Faithful
<1> QED
    BY <1>1, <1>3 DEF ProjectionSound

\* However events are lost, doubled and reordered around recoveries, switches
\* and retries, the coordinator's records are well formed, and while snapshots
\* keep their promise and the server does not restart, what the client shows is
\* what the server was after the event it is stamped with (handle_event,
\* finish_recovery), for every number of sessions, events and faults.
THEOREM ProjectionSoundHolds == SyncSpec => []ProjectionSound
<1>1. SyncInit => SyncInv
    BY SyncStart
<1>2. SyncInv /\ [SyncNext]_syncVars => SyncInv'
    BY SyncStep
<1>3. SyncInv => ProjectionSound
    BY SyncInvSays
<1> QED
    BY <1>1, <1>2, <1>3, PTL DEF SyncSpec

\* A recovery never ends behind the event that started it, and neither an event
\* nor a recovery that was not cut off takes what is shown back
\* (begin_recovery, finish_recovery, apply_event).
THEOREM NeverLosesGroundHolds == SyncSpec => NeverLosesGround
<1> DEFINE Recovers == sync # Absent /\ sync' = Absent /\ proj' # Absent /\ Now = 1 => proj'.last >= sync.required
           Forward == proj # Absent /\ proj' # Absent /\ proj.session = proj'.session /\ proj.epoch = proj'.epoch
                        => LateAnswer \/ proj'.last >= proj.last
<1>1. SyncInit => SyncInv
    BY SyncStart
<1>2. SyncInv /\ [SyncNext]_syncVars => SyncInv'
    BY SyncStep
<1>3. SyncInv /\ [SyncNext]_syncVars => [Recovers]_syncVars /\ [Forward]_syncVars
  <2>1. SUFFICES ASSUME SyncInv, [SyncNext]_syncVars PROVE Recovers /\ Forward
      OBVIOUS
  <2>2. SyncForward
      BY <2>1, SyncStep
  <2> QED
      BY <2>2 DEF SyncForward, Now
<1>4. SyncSpec => [][Recovers]_syncVars /\ [][Forward]_syncVars
    BY <1>1, <1>2, <1>3, PTL DEF SyncSpec
<1> QED
    BY <1>4 DEF NeverLosesGround, RecoversWhatWasMissed, NeverBackwards

-----------------------------------------------------------------------------
(* The batches of web prompts *)

\* A finite strict order has one element of each rank.
LEMMA Ranked ==
    ASSUME NEW K, IsFiniteSet(K), NEW B,
           \A x \in K : <<x, x>> \notin B,
           \A x, y \in K : x # y => <<x, y>> \in B \/ <<y, x>> \in B,
           \A x, y, z \in K : <<x, y>> \in B /\ <<y, z>> \in B => <<x, z>> \in B
    PROVE  LET rank(y) == Cardinality({x \in K : <<x, y>> \in B})
           IN  /\ \A k \in 1..Cardinality(K) : \E y \in K : rank(y) = k - 1
               /\ \A x, y \in K : rank(x) < rank(y) => <<x, y>> \in B
<1> DEFINE below(y) == {x \in K : <<x, y>> \in B}
           rank(y) == Cardinality(below(y))
           n == Cardinality(K)
<1>1. n \in Nat
    BY FS_CardinalityType
<1>2. ASSUME NEW y \in K PROVE IsFiniteSet(below(y)) /\ rank(y) \in Nat /\ rank(y) \in 0..(n - 1)
  <2>1. below(y) \subseteq K /\ y \notin below(y)
      OBVIOUS
  <2>2. IsFiniteSet(below(y)) /\ rank(y) <= n /\ (n = rank(y) => K = below(y))
      BY <2>1, FS_Subset
  <2>3. rank(y) \in Nat /\ rank(y) # n
      BY <2>1, <2>2, FS_CardinalityType
  <2> QED
      BY <1>1, <2>2, <2>3
<1>3. ASSUME NEW x \in K, NEW y \in K, <<x, y>> \in B PROVE rank(x) < rank(y)
  <2>1. below(x) \subseteq below(y) /\ x \in below(y) /\ x \notin below(x)
      BY <1>3
  <2>2. IsFiniteSet(below(y))
      BY <1>2
  <2>3. rank(x) <= rank(y) /\ rank(x) # rank(y)
      BY <2>1, <2>2, FS_Subset
  <2>4. rank(x) \in Nat /\ rank(y) \in Nat
      BY <1>2
  <2> QED
      BY <2>3, <2>4
<1> HIDE DEF rank
<1> DEFINE f == [y \in K |-> rank(y)]
           R == 0..(n - 1)
<1>4. f \in Injection(K, R)
  <2>1. f \in [K -> R]
      BY <1>2
  <2>2. ASSUME NEW x \in K, NEW y \in K, f[x] = f[y] PROVE x = y
    <3>1. rank(x) = rank(y) /\ rank(x) \in Nat
        BY <1>2, <2>2
    <3>2. <<x, y>> \notin B /\ <<y, x>> \notin B
        BY <1>3, <3>1
    <3> QED
        BY <3>2
  <2> QED
      BY <2>1, <2>2 DEF Injection, IsInjective
<1>5. IsFiniteSet(R) /\ Cardinality(R) = n
  <2>1. 0 \in Int /\ n - 1 \in Int
      BY <1>1
  <2> QED
      BY <1>1, <2>1, FS_Interval
<1>6. f \in Surjection(K, R)
    BY <1>4, <1>5, FS_Injection
<1>7. ASSUME NEW k \in 1..n PROVE \E y \in K : rank(y) = k - 1
  <2>1. k - 1 \in R
      BY <1>1
  <2>2. PICK y \in K : f[y] = k - 1
      BY <1>6, <2>1 DEF Surjection
  <2> QED
      BY <2>2
<1>8. ASSUME NEW x \in K, NEW y \in K, rank(x) < rank(y) PROVE <<x, y>> \in B
  <2>1. rank(x) \in Nat /\ rank(y) \in Nat
      BY <1>2
  <2>2. x # y /\ <<y, x>> \notin B
      BY <1>3, <1>8, <2>1
  <2> QED
      BY <2>2
<1> QED
    BY <1>7, <1>8 DEF rank

\* Turn ids are numbers.
LEMMA TurnIds ==
    /\ \A p \in Prompts : TurnId[p] \in Nat /\ TurnId[p] \in Range(TurnId)
    /\ DOMAIN TurnId = Prompts
<1>1. Prompts \in SUBSET Nat /\ Repeats \subseteq Prompts
    BY IngressAssumption
<1>2. ASSUME NEW p \in Prompts PROVE Min(Prompts) \in Nat
  <2>1. PICK i \in Prompts : \A j \in Prompts : i <= j
      BY <1>1, LeastNumber
  <2>2. Min(Prompts) \in Prompts
      BY <2>1 DEF Min
  <2> QED
      BY <1>1, <2>2
<1>3. DOMAIN TurnId = Prompts /\ \A p \in Prompts : TurnId[p] \in Nat
    BY <1>1, <1>2 DEF TurnId
<1> QED
    BY <1>3 DEF Range

\* What is merged: prompts of the batch, in the order received, no two of one id.
LEMMA MergedSays ==
    ASSUME NEW items \in Seq(Prompts), received \in [Prompts -> Nat]
    PROVE  /\ Merged(items) \in Seq(Prompts)
           /\ \A k \in DOMAIN Merged(items) : \E i \in DOMAIN items : Merged(items)[k] = items[i]
           /\ \A k, l \in DOMAIN Merged(items) : k < l =>
                 /\ Before(Merged(items)[k], Merged(items)[l])
                 /\ TurnId[Merged(items)[k]] # TurnId[Merged(items)[l]]
<1> DEFINE id(i) == TurnId[items[i]]
           at(i) == received[items[i]]
           D == DOMAIN items
           K == {i \in D : \A j \in D : id(j) = id(i) => at(i) < at(j) \/ (at(i) = at(j) /\ i <= j)}
           B == {q \in K \X K : Before(items[q[1]], items[q[2]])}
           rank(i) == Cardinality({j \in K : <<j, i>> \in B})
           n == Cardinality(K)
           place(i) == Cardinality({j \in K : Before(items[j], items[i])})
           it(k) == CHOOSE i \in K : place(i) = k - 1
           m == Merged(items)
<1>1. D = 1..Len(items) /\ Len(items) \in Nat /\ \A i \in D : items[i] \in Prompts
    BY ElementOfSeq
<1>2. \A i \in D : id(i) \in Nat /\ at(i) \in Nat
    BY <1>1, TurnIds
<1>3. \A i, j \in D : Before(items[i], items[j]) <=> (at(i) < at(j) \/ (at(i) = at(j) /\ id(i) < id(j)))
    BY DEF Before
<1>4. K \subseteq D /\ IsFiniteSet(K) /\ n \in Nat
  <2>1. 1 \in Int /\ Len(items) \in Int
      BY <1>1
  <2>2. IsFiniteSet(1..Len(items))
      BY <2>1, FS_Interval
  <2>3. K \subseteq 1..Len(items)
      BY <1>1
  <2>4. IsFiniteSet(K)
      BY <2>2, <2>3, FS_Subset
  <2> QED
      BY <2>4, FS_CardinalityType
<1>5. \A i, j \in K : i # j => id(i) # id(j)
    BY <1>1, <1>2
<1>6. \A i, j : <<i, j>> \in B <=> i \in K /\ j \in K /\ Before(items[i], items[j])
    OBVIOUS
<1>7. m = [k \in 1..n |-> items[it(k)]]
  <2>1. m = [k \in 1..Cardinality(K) |-> items[it(k)]]
      BY DEF Merged
  <2> HIDE DEF K, it, m
  <2> QED
      BY <2>1
<1>a. \A i \in K : place(i) = rank(i)
  <2>1. \A i \in K : {j \in K : Before(items[j], items[i])} = {j \in K : <<j, i>> \in B}
      BY <1>6
  <2> QED
      BY <2>1
<1> HIDE DEF K, B, m, place
<1>8. /\ \A i \in K : <<i, i>> \notin B
      /\ \A i, j \in K : i # j => <<i, j>> \in B \/ <<j, i>> \in B
      /\ \A i, j, k \in K : <<i, j>> \in B /\ <<j, k>> \in B => <<i, k>> \in B
  <2>1. \A i \in K : i \in D /\ id(i) \in Nat /\ at(i) \in Nat
      BY <1>2, <1>4
  <2>2. \A i, j \in K : <<i, j>> \in B <=> (at(i) < at(j) \/ (at(i) = at(j) /\ id(i) < id(j)))
      BY <1>3, <1>6, <2>1
  <2> HIDE DEF id, at, D
  <2> QED
      BY <1>5, <2>1, <2>2
<1>9. /\ \A k \in 1..n : \E i \in K : rank(i) = k - 1
      /\ \A i, j \in K : rank(i) < rank(j) => <<i, j>> \in B
    BY <1>4, <1>8, Ranked
<1> HIDE DEF rank, n
<1>10. \A k \in 1..n : it(k) \in K /\ rank(it(k)) = k - 1
    BY <1>9, <1>a
<1> HIDE DEF it
<1>11. DOMAIN m = 1..n /\ \A k \in 1..n : m[k] = items[it(k)] /\ it(k) \in D
    BY <1>4, <1>7, <1>10
<1>12. m \in Seq(Prompts)
  <2>1. \A k \in 1..n : items[it(k)] \in Prompts
      BY <1>1, <1>11
  <2> QED
      BY <1>4, <1>7, <2>1
<1>13. ASSUME NEW k \in 1..n, NEW l \in 1..n, k < l
       PROVE  Before(m[k], m[l]) /\ TurnId[m[k]] # TurnId[m[l]]
  <2>1. rank(it(k)) < rank(it(l))
      BY <1>4, <1>10, <1>13
  <2>2. <<it(k), it(l)>> \in B
      BY <1>9, <1>10, <2>1
  <2>3. it(k) # it(l)
      BY <1>8, <1>10, <2>2
  <2>4. id(it(k)) # id(it(l))
      BY <1>5, <1>10, <2>3
  <2> QED
      BY <1>6, <1>11, <2>2, <2>4
<1> QED
    BY <1>11, <1>12, <1>13 DEF m

Batches == [owner : Range(TurnId), opened : Nat, items : Seq(Prompts)]

\* The types, with those TypeOK leaves out.
WebTyped ==
    /\ clock \in Nat /\ exists \in BOOLEAN /\ reserved \in BOOLEAN /\ webFaults \in 0..MaxWebFaults
    /\ batch \in Batches \cup {NoBatch}
    /\ batch # NoBatch => exists /\ batch.opened <= clock
    /\ pc \in [Prompts -> Places]
    /\ received \in [Prompts -> Nat] /\ time \in [Prompts -> Nat]
    /\ \A p \in Prompts :
          /\ received[p] <= clock /\ time[p] <= clock + Window
          /\ pc[p] \in Staging => time[p] <= clock
    /\ turns \in Seq(Seq(Prompts))

\* Where a prompt is before it has joined or opened a batch.
Unjoined == {"new", "received", "stage", "check", "insert", "busy", "open"}

Leading == {"opened", "asleep", "leaked"}

\* Prompt p is in sequence s.
In(p, s) == \E i \in DOMAIN s : s[i] = p

\* A prompt is in one place: not yet in a batch, in the batch, or in one turn.
Apart ==
    /\ \A p \in Prompts : pc[p] \in Unjoined =>
          /\ batch # NoBatch => ~ In(p, batch.items)
          /\ \A i \in DOMAIN turns : ~ In(p, turns[i])
    /\ batch # NoBatch => \A p \in Prompts, i \in DOMAIN turns : ~ (In(p, batch.items) /\ In(p, turns[i]))
    /\ \A p \in Prompts, i, j \in DOMAIN turns : In(p, turns[i]) /\ In(p, turns[j]) => i = j

\* A turn is in the order received and has no id twice.
InOrder ==
    \A i \in DOMAIN turns : \A k, l \in DOMAIN turns[i] : k < l =>
        /\ Before(turns[i][k], turns[i][l])
        /\ TurnId[turns[i][k]] # TurnId[turns[i][l]]

Led == batch # NoBatch => \E p \in Prompts : TurnId[p] = batch.owner /\ pc[p] \in Leading

WebInv == WebTyped /\ Apart /\ InOrder /\ Led

\* What has been run was received before.
LEMMA OrderStays ==
    ASSUME WebInv, turns' = turns,
           \A q \in Prompts : received'[q] = received[q] \/ pc[q] = "new"
    PROVE  InOrder'
<1>1. ASSUME NEW i \in DOMAIN turns, NEW k \in DOMAIN turns[i]
      PROVE  turns[i][k] \in Prompts /\ received'[turns[i][k]] = received[turns[i][k]]
  <2>1. turns[i] \in Seq(Prompts)
      BY ElementOfSeq DEF WebInv, WebTyped
  <2>2. turns[i][k] \in Prompts
      BY <2>1, ElementOfSeq
  <2>3. In(turns[i][k], turns[i])
      BY DEF In
  <2>4. pc[turns[i][k]] # "new"
      BY <2>2, <2>3 DEF WebInv, Apart, Unjoined
  <2> QED
      BY <2>2, <2>4
<1>2. ASSUME NEW i \in DOMAIN turns, NEW k \in DOMAIN turns[i], NEW l \in DOMAIN turns[i], k < l
      PROVE  /\ Before(turns[i][k], turns[i][l])'
             /\ TurnId[turns[i][k]] # TurnId[turns[i][l]]
  <2>1. Before(turns[i][k], turns[i][l]) /\ TurnId[turns[i][k]] # TurnId[turns[i][l]]
      BY <1>2 DEF WebInv, InOrder
  <2>2. /\ received'[turns[i][k]] = received[turns[i][k]]
        /\ received'[turns[i][l]] = received[turns[i][l]]
      BY <1>1
  <2> QED
      BY <2>1, <2>2 DEF Before, TurnId
<1> QED
    BY <1>2 DEF InOrder

\* A step that adds nothing to a batch or to the turns.
LEMMA WebSettles ==
    ASSUME WebInv, WebTyped', turns' = turns, batch' = batch \/ batch' = NoBatch,
           \A q \in Prompts : pc'[q] \in Unjoined => pc[q] \in Unjoined,
           \A q \in Prompts : pc[q] \in Leading =>
               pc'[q] \in Leading \/ batch' = NoBatch \/ TurnId[q] # batch.owner,
           \A q \in Prompts : received'[q] = received[q] \/ pc[q] = "new"
    PROVE  WebInv'
<1>1. Apart'
    BY DEF WebInv, Apart
<1>2. InOrder'
    BY OrderStays
<1>3. Led'
    BY DEF WebInv, Led, TurnId
<1> QED
    BY <1>1, <1>2, <1>3 DEF WebInv

\* Where the prompts are and what they know of the time.
Timed ==
    /\ pc \in [Prompts -> Places] /\ time \in [Prompts -> Nat]
    /\ \A q \in Prompts : time[q] <= clock + Window /\ (pc[q] \in Staging => time[q] <= clock)

LEMMA GoesTimed ==
    ASSUME WebInv, NEW p \in Prompts, NEW to \in Places, Goes(p, to),
           to \in Staging => pc[p] \in Staging, clock' = clock
    PROVE  Timed' /\ pc' = [pc EXCEPT ![p] = to]
<1>1. pc' = [pc EXCEPT ![p] = to] /\ time' = IF to \in Staging THEN time ELSE [time EXCEPT ![p] = 0]
    BY DEF Goes, Moves
<1>2. clock \in Nat /\ Window \in Nat /\ Timed
    BY IngressAssumption DEF WebInv, WebTyped, Timed
<1>3. pc' \in [Prompts -> Places] /\ time' \in [Prompts -> Nat]
    BY <1>1, <1>2 DEF Timed
<1>4. ASSUME NEW q \in Prompts PROVE time'[q] <= clock + Window /\ (pc'[q] \in Staging => time'[q] <= clock)
  <2>1. CASE q = p /\ to \notin Staging
      BY <1>1, <1>2, <2>1 DEF Timed
  <2>2. CASE ~ (q = p /\ to \notin Staging)
      BY <1>1, <1>2, <2>2 DEF Timed
  <2> QED
      BY <2>1, <2>2
<1> QED
    BY <1>1, <1>3, <1>4 DEF Timed

\* A prompt joins the batch.
LEMMA WebJoins ==
    ASSUME WebInv, NEW p \in Prompts, NEW to \in {"accepted", "joined"}, pc[p] \in Unjoined, batch # NoBatch,
           Join(p), Goes(p, to), UNCHANGED <<clock, exists, received, turns, webFaults>>, reserved' = reserved
    PROVE  WebInv'
<1> DEFINE c == [batch EXCEPT !.items = Append(batch.items, p)]
<1>1. batch \in Batches /\ batch.items \in Seq(Prompts)
    BY DEF WebInv, WebTyped, Batches
<1>2. batch' = c
    BY DEF Join
<1>3. c \in Batches /\ c.owner = batch.owner /\ c.opened = batch.opened /\ c.items = Append(batch.items, p)
    BY <1>1 DEF Batches
<1> HIDE DEF c
<1>4. \A q : In(q, c.items) <=> In(q, batch.items) \/ q = p
    BY <1>1, <1>3 DEF In
<1>a. to \in Places /\ to \notin Unjoined /\ to \notin Staging
    BY DEF Places, Staging, Unjoined
<1>5. to \notin Unjoined /\ pc' = [pc EXCEPT ![p] = to] /\ Timed'
    BY <1>a, GoesTimed
<1>6. WebTyped'
    BY <1>2, <1>3, <1>5 DEF WebInv, WebTyped, Timed
<1>7. \A q \in Prompts : pc'[q] \in Unjoined => pc[q] \in Unjoined /\ q # p
    BY <1>5 DEF WebInv, WebTyped
<1>8. Apart'
    BY <1>2, <1>4, <1>7 DEF WebInv, Apart
<1>9. InOrder'
    BY OrderStays
<1>10. Led'
  <2>1. PICK q \in Prompts : TurnId[q] = batch.owner /\ pc[q] \in Leading
      BY DEF WebInv, Led
  <2>2. pc'[q] \in Leading
      BY <1>5, <2>1 DEF WebInv, WebTyped, Unjoined, Leading
  <2> QED
      BY <1>2, <1>3, <2>1, <2>2 DEF Led, TurnId
<1> QED
    BY <1>6, <1>8, <1>9, <1>10 DEF WebInv

\* A leader opens a batch in place of whatever is there.
LEMMA WebOpens ==
    ASSUME WebInv, NEW p \in Prompts, pc[p] = "open", exists, Goes(p, "opened"),
           batch' = [owner |-> TurnId[p], opened |-> time[p], items |-> <<p>>],
           UNCHANGED <<clock, exists, reserved, received, turns, webFaults>>
    PROVE  WebInv'
<1> DEFINE t == TurnId[p]
           c == [owner |-> t, opened |-> time[p], items |-> <<p>>]
<1>1. t \in Range(TurnId)
    BY TurnIds
<1>2. "opened" \in Places /\ pc[p] \in Staging /\ pc[p] \in Unjoined /\ "opened" \notin Unjoined /\ "opened" \in Leading
    BY DEF Places, Staging, Unjoined, Leading
<1>3. time[p] \in Nat /\ time[p] <= clock
    BY <1>2 DEF WebInv, WebTyped
<1> HIDE DEF t
<1>4. c \in Batches /\ c.owner = t /\ c.opened = time[p] /\ c.items = <<p>>
    BY <1>1, <1>3 DEF Batches
<1>5. batch' = c
    BY DEF t
<1> HIDE DEF c
<1>6. Timed' /\ pc' = [pc EXCEPT ![p] = "opened"]
    BY <1>2, GoesTimed
<1>7. \A q : In(q, c.items) <=> q = p
    BY <1>4 DEF In
<1>8. WebTyped'
    BY <1>3, <1>4, <1>5, <1>6 DEF WebInv, WebTyped, Timed
<1>9. \A q \in Prompts : pc'[q] \in Unjoined => pc[q] \in Unjoined /\ q # p
    BY <1>2, <1>6 DEF WebInv, WebTyped
<1>10. \A i \in DOMAIN turns : ~ In(p, turns[i])
    BY <1>2 DEF WebInv, Apart
<1>11. Apart'
    BY <1>5, <1>7, <1>9, <1>10 DEF WebInv, Apart
<1>12. InOrder'
    BY OrderStays
<1>13. Led'
  <2>1. pc'[p] \in Leading
      BY <1>2, <1>6 DEF WebInv, WebTyped
  <2> QED
      BY <1>4, <1>5, <2>1 DEF Led, TurnId, t
<1> QED
    BY <1>8, <1>11, <1>12, <1>13 DEF WebInv

\* A leader drains its batch into a turn.
LEMMA WebDrains ==
    ASSUME WebInv, NEW p \in Prompts, pc[p] = "asleep", Goes(p, "running"),
           batch # NoBatch, turns' = Append(turns, Merged(batch.items)), batch' = NoBatch,
           UNCHANGED <<clock, exists, reserved, received, webFaults>>
    PROVE  WebInv'
<1> DEFINE m == Merged(batch.items)
           n == Len(turns)
<1>1. batch.items \in Seq(Prompts) /\ received \in [Prompts -> Nat] /\ turns \in Seq(Seq(Prompts)) /\ n \in Nat
    BY DEF WebInv, WebTyped, Batches
<1>2. /\ m \in Seq(Prompts)
      /\ \A k \in DOMAIN m : \E i \in DOMAIN batch.items : m[k] = batch.items[i]
      /\ \A k, l \in DOMAIN m : k < l =>
            Before(m[k], m[l]) /\ TurnId[m[k]] # TurnId[m[l]]
    BY <1>1, MergedSays
<1>3. turns' = Append(turns, m)
    OBVIOUS
<1> HIDE DEF m
<1>4. "running" \in Places /\ "running" \notin Staging /\ "running" \notin Unjoined
    BY DEF Places, Staging, Unjoined
<1>5. Timed' /\ pc' = [pc EXCEPT ![p] = "running"]
    BY <1>4, GoesTimed
<1>6. /\ turns' \in Seq(Seq(Prompts)) /\ DOMAIN turns' = 1..(n + 1) /\ DOMAIN turns = 1..n
      /\ \A i \in 1..n : turns'[i] = turns[i]
      /\ turns'[n + 1] = m
    BY <1>1, <1>2, <1>3
<1>7. WebTyped'
    BY <1>5, <1>6 DEF WebInv, WebTyped, Timed
<1>8. \A q : In(q, m) => In(q, batch.items)
    BY <1>2 DEF In
<1>9. \A q \in Prompts : In(q, m) => pc[q] \notin Unjoined /\ \A i \in 1..n : ~ In(q, turns[i])
    BY <1>6, <1>8 DEF WebInv, Apart
<1>10. \A q \in Prompts : pc'[q] \in Unjoined => pc[q] \in Unjoined
    BY <1>4, <1>5 DEF WebInv, WebTyped
<1>11. Apart'
  <2>1. ASSUME NEW q \in Prompts, pc'[q] \in Unjoined, NEW i \in 1..(n + 1) PROVE ~ In(q, turns'[i])
    <3>1. i \in 1..n \/ i = n + 1
        BY <1>1
    <3>2. i \in 1..n => ~ In(q, turns[i])
        BY <1>6, <1>10, <2>1 DEF WebInv, Apart
    <3> QED
        BY <1>6, <1>9, <1>10, <2>1, <3>1, <3>2
  <2>2. ASSUME NEW q \in Prompts, NEW i \in 1..(n + 1), NEW j \in 1..(n + 1), In(q, turns'[i]), In(q, turns'[j]) PROVE i = j
    <3>1. (i \in 1..n \/ i = n + 1) /\ (j \in 1..n \/ j = n + 1)
      <4> HIDE DEF n
      <4>1. \A h \in 1..(n + 1) : h \in 1..n \/ h = n + 1
          BY <1>1
      <4> QED
          BY <4>1
    <3>2. i \in 1..n /\ j \in 1..n => i = j
        BY <1>6, <2>2 DEF WebInv, Apart
    <3> QED
        BY <1>6, <1>9, <2>2, <3>1, <3>2
  <2> QED
      BY <1>6, <2>1, <2>2 DEF Apart
<1>12. InOrder'
  <2>1. \A x, y : Before(x, y)' <=> Before(x, y)
      BY DEF Before, TurnId
  <2>2. ASSUME NEW i \in 1..(n + 1), NEW k \in DOMAIN turns'[i], NEW l \in DOMAIN turns'[i], k < l
        PROVE  /\ Before(turns'[i][k], turns'[i][l])
               /\ TurnId[turns'[i][k]] # TurnId[turns'[i][l]]
    <3>1. i \in 1..n \/ i = n + 1
        BY <1>1
    <3>2. CASE i \in 1..n
      <4>1. i \in DOMAIN turns /\ turns'[i] = turns[i]
          BY <1>6, <3>2
      <4>2. k \in DOMAIN turns[i] /\ l \in DOMAIN turns[i] /\ k < l
          BY <2>2, <4>1
      <4>3. /\ Before(turns[i][k], turns[i][l])
            /\ TurnId[turns[i][k]] # TurnId[turns[i][l]]
          BY <4>1, <4>2 DEF WebInv, InOrder
      <4> QED
          BY <4>1, <4>3
    <3>3. CASE i = n + 1
        BY <1>2, <1>6, <2>2, <3>3
    <3> QED
        BY <3>1, <3>2, <3>3
  <2>3. ASSUME NEW i \in 1..(n + 1), NEW k \in DOMAIN turns'[i], NEW l \in DOMAIN turns'[i], k < l
        PROVE  /\ Before(turns[i][k], turns[i][l])'
               /\ TurnId[turns'[i][k]] # TurnId[turns'[i][l]]
      BY <2>2, <2>3 DEF Before, TurnId
  <2> QED
      BY <1>6, <2>3 DEF InOrder
<1>13. Led'
    BY DEF Led
<1> QED
    BY <1>7, <1>11, <1>12, <1>13 DEF WebInv

\* A prompt goes on and adds nothing.
LEMMA WebGoes ==
    ASSUME WebInv, NEW p \in Prompts, NEW to \in Places, Goes(p, to),
           to \in Staging => pc[p] \in Staging, to \in Unjoined => pc[p] \in Unjoined,
           pc[p] \in Leading => to \in Leading \/ batch' = NoBatch \/ TurnId[p] # batch.owner,
           clock' = clock, turns' = turns, webFaults' \in 0..MaxWebFaults, exists' \in BOOLEAN, reserved' \in BOOLEAN,
           batch' = NoBatch \/ (batch' = batch /\ exists' = exists),
           received' = received \/ (pc[p] = "new" /\ received' = [received EXCEPT ![p] = clock])
    PROVE  WebInv'
<1>1. Timed' /\ pc' = [pc EXCEPT ![p] = to]
    BY GoesTimed
<1>2. /\ received' \in [Prompts -> Nat]
      /\ \A q \in Prompts : received'[q] <= clock' /\ (received'[q] = received[q] \/ pc[q] = "new")
  <2>1. received \in [Prompts -> Nat] /\ clock \in Nat /\ \A q \in Prompts : received[q] <= clock
      BY DEF WebInv, WebTyped
  <2>2. CASE received' = received
      BY <2>1, <2>2
  <2>3. CASE pc[p] = "new" /\ received' = [received EXCEPT ![p] = clock]
      BY <2>1, <2>3
  <2> QED
      BY <2>2, <2>3
<1>3. batch' \in Batches \cup {NoBatch} /\ (batch' # NoBatch => exists' /\ batch'.opened <= clock')
    BY DEF WebInv, WebTyped
<1>4. WebTyped'
    BY <1>1, <1>2, <1>3 DEF WebInv, WebTyped, Timed
<1>5. \A q \in Prompts : pc'[q] \in Unjoined => pc[q] \in Unjoined
    BY <1>1 DEF WebInv, WebTyped
<1>6. \A q \in Prompts : pc[q] \in Leading => pc'[q] \in Leading \/ batch' = NoBatch \/ TurnId[q] # batch.owner
    BY <1>1 DEF WebInv, WebTyped
<1> QED
    BY <1>2, <1>4, <1>5, <1>6, WebSettles

LEMMA WebStep ==
    ASSUME WebInv, [WebNext]_webVars
    PROVE  WebInv'
<1>0. /\ pc \in [Prompts -> Places] /\ clock \in Nat /\ Window \in Nat
      /\ exists \in BOOLEAN /\ reserved \in BOOLEAN /\ webFaults \in 0..MaxWebFaults
    BY IngressAssumption DEF WebInv, WebTyped
<1>1. CASE UNCHANGED webVars
  <2>1. UNCHANGED <<clock, exists, batch, reserved, pc, received, time, turns, webFaults>>
      BY <1>1 DEF webVars
  <2>2. WebTyped'
      BY <2>1 DEF WebInv, WebTyped
  <2> QED
      BY <2>1, <2>2, WebSettles
<1>2. CASE Tick
  <2>1. clock' = clock + 1 /\ UNCHANGED <<exists, batch, reserved, pc, received, time, turns, webFaults>>
      BY <1>2 DEF Tick
  <2>2. clock' \in Nat /\ clock <= clock' /\ \A k \in Nat : (k <= clock => k <= clock') /\ (k <= clock + Window => k <= clock' + Window)
      BY <1>0, <2>1
  <2>3. batch # NoBatch => batch.opened <= clock'
      BY <2>2 DEF WebInv, WebTyped, Batches
  <2>4. \A q \in Prompts : received[q] <= clock' /\ time[q] <= clock' + Window /\ (pc[q] \in Staging => time[q] <= clock')
      BY <2>2 DEF WebInv, WebTyped
  <2>5. WebTyped'
      BY <2>1, <2>2, <2>3, <2>4 DEF WebInv, WebTyped
  <2> QED
      BY <2>1, <2>5, WebSettles
<1>3. CASE Abort \/ Delete
  <2>1. /\ webFaults < MaxWebFaults /\ webFaults' = webFaults + 1
        /\ UNCHANGED <<clock, pc, received, time, turns>>
        /\ reserved' \in BOOLEAN /\ exists' \in BOOLEAN
        /\ batch' = NoBatch \/ (batch' = batch /\ exists' = exists)
      BY <1>0, <1>3 DEF Abort, Delete, Fault
  <2>2. webFaults' \in 0..MaxWebFaults
      BY <1>0, <2>1, IngressAssumption
  <2>3. WebTyped'
      BY <2>1, <2>2 DEF WebInv, WebTyped
  <2> QED
      BY <2>1, <2>3, WebSettles
<1>4. ASSUME NEW p \in Prompts, Receive(p) PROVE WebInv'
  <2>1. "received" \in Places /\ "received" \notin Staging /\ "new" \in Unjoined /\ "new" \notin Leading
      BY DEF Places, Staging, Unjoined, Leading
  <2>2. /\ pc[p] = "new" /\ Goes(p, "received") /\ received' = [received EXCEPT ![p] = clock]
        /\ UNCHANGED <<clock, exists, batch, reserved, turns, webFaults>>
      BY <1>4 DEF Receive
  <2> QED
      BY <1>0, <2>1, <2>2, WebGoes
<1>5. ASSUME NEW p \in Prompts, Stage(p) \/ Spawn(p) PROVE WebInv'
  <2>1. /\ UNCHANGED <<clock, exists, batch, reserved, received, turns, webFaults>>
        /\ \/ pc[p] = "received" /\ pc' = [pc EXCEPT ![p] = "stage"] /\ time' = [time EXCEPT ![p] = clock]
           \/ pc[p] = "opened" /\ pc' = [pc EXCEPT ![p] = "asleep"] /\ time' = [time EXCEPT ![p] = clock + Window]
      BY <1>5 DEF Stage, Spawn, Moves
  <2>2. WebTyped'
    <3>1. time \in [Prompts -> Nat] /\ \A q \in Prompts : time[q] <= clock + Window /\ (pc[q] \in Staging => time[q] <= clock)
        BY DEF WebInv, WebTyped
    <3>2. {"stage", "asleep"} \subseteq Places /\ "asleep" \notin Staging
        BY DEF Places, Staging
    <3>3. clock + Window \in Nat /\ clock <= clock + Window
        BY <1>0
    <3>4. pc' \in [Prompts -> Places] /\ time' \in [Prompts -> Nat]
        BY <1>0, <2>1, <3>1, <3>2, <3>3
    <3>5. ASSUME NEW q \in Prompts PROVE time'[q] <= clock + Window /\ (pc'[q] \in Staging => time'[q] <= clock)
        BY <1>0, <2>1, <3>1, <3>2, <3>3
    <3> QED
        BY <2>1, <3>4, <3>5 DEF WebInv, WebTyped
  <2>3. \A q \in Prompts : (pc'[q] \in Unjoined => pc[q] \in Unjoined) /\ (pc[q] \in Leading => pc'[q] \in Leading)
      BY <1>0, <2>1 DEF Unjoined, Leading
  <2> QED
      BY <2>1, <2>2, <2>3, WebSettles
<1>6. ASSUME NEW p \in Prompts, FirstLook(p) \/ SecondLook(p) \/ Open(p) PROVE WebInv'
  <2>1. /\ pc[p] \in {"stage", "busy", "open"} /\ UNCHANGED <<clock, exists, reserved, received, turns, webFaults>>
        /\ \/ /\ batch' = batch \/ batch' = NoBatch
              /\ \E to \in {"refused", "check", "homeless"} : Goes(p, to)
           \/ /\ Fresh(p) /\ Join(p)
              /\ \E to \in {"accepted", "joined"} : Goes(p, to)
           \/ /\ pc[p] = "open" /\ exists /\ Goes(p, "opened")
              /\ batch' = [owner |-> TurnId[p], opened |-> time[p], items |-> <<p>>]
    <3>1. CASE FirstLook(p)
        BY <3>1 DEF FirstLook
    <3>2. CASE SecondLook(p)
        BY <3>2 DEF SecondLook
    <3>3. CASE Open(p)
        BY <3>3 DEF Open
    <3> QED
        BY <1>6, <3>1, <3>2, <3>3
  <2>2. pc[p] \in Unjoined /\ pc[p] \in Staging /\ pc[p] \notin Leading
      BY <2>1 DEF Unjoined, Staging, Leading
  <2>3. ASSUME NEW to \in {"refused", "check", "homeless"}, Goes(p, to), batch' = batch \/ batch' = NoBatch PROVE WebInv'
    <3>1. to \in Places
        BY DEF Places
    <3> QED
        BY <1>0, <2>1, <2>2, <2>3, <3>1, WebGoes
  <2>4. ASSUME NEW to \in {"accepted", "joined"}, Goes(p, to), Fresh(p), Join(p) PROVE WebInv'
      BY <2>1, <2>2, <2>4, WebJoins DEF Fresh
  <2>5. CASE pc[p] = "open" /\ exists /\ Goes(p, "opened")
             /\ batch' = [owner |-> TurnId[p], opened |-> time[p], items |-> <<p>>]
      BY <2>1, <2>5, WebOpens
  <2> QED
      BY <2>1, <2>3, <2>4, <2>5
<1>7. ASSUME NEW p \in Prompts, CheckFree(p) \/ Insert(p) PROVE WebInv'
  <2>1. /\ pc[p] \in {"check", "insert"} /\ UNCHANGED <<clock, exists, batch, received, turns, webFaults>> /\ reserved' \in BOOLEAN
        /\ \E to \in {"busy", "insert", "open"} : Goes(p, to)
      BY <1>0, <1>7 DEF CheckFree, Insert
  <2>2. pc[p] \in Unjoined /\ pc[p] \in Staging /\ pc[p] \notin Leading
      BY <2>1 DEF Unjoined, Staging, Leading
  <2>3. PICK to \in {"busy", "insert", "open"} : Goes(p, to)
      BY <2>1
  <2>4. to \in Places
      BY DEF Places
  <2> QED
      BY <1>0, <2>1, <2>2, <2>3, <2>4, WebGoes
<1>8. ASSUME NEW p \in Prompts, GiveBack(p) \/ Release(p) \/ Commit(p) \/ EndRun(p) PROVE WebInv'
  <2>1. /\ pc[p] \in {"joined", "homeless", "release", "running", "ending"}
        /\ UNCHANGED <<clock, received, turns, webFaults>> /\ reserved' \in BOOLEAN /\ exists' \in BOOLEAN
        /\ batch' = NoBatch \/ (batch' = batch /\ exists' = exists)
        /\ \E to \in {"accepted", "refused", "done", "ending"} : Goes(p, to)
    <3>1. CASE GiveBack(p)
        BY <1>0, <3>1 DEF GiveBack
    <3>2. CASE Release(p) \/ EndRun(p)
        BY <1>0, <3>2 DEF Release, EndRun
    <3>3. CASE Commit(p)
        BY <1>0, <3>3 DEF Commit
    <3> QED
        BY <1>8, <3>1, <3>2, <3>3
  <2>2. PICK to \in {"accepted", "refused", "done", "ending"} : Goes(p, to)
      BY <2>1
  <2>3. to \in Places /\ to \notin Staging /\ to \notin Unjoined /\ pc[p] \notin Leading
      BY <2>1 DEF Places, Staging, Unjoined, Leading
  <2> QED
      BY <1>0, <2>1, <2>2, <2>3, WebGoes
<1>9. ASSUME NEW p \in Prompts, Drain(p) PROVE WebInv'
  <2>1. /\ pc[p] = "asleep" /\ UNCHANGED <<clock, exists, reserved, received, webFaults>>
        /\ \/ /\ batch # NoBatch /\ turns' = Append(turns, Merged(batch.items))
              /\ batch' = NoBatch /\ Goes(p, "running")
           \/ /\ batch' = NoBatch \/ (batch' = batch /\ ~ (exists /\ batch # NoBatch /\ batch.owner = TurnId[p]))
              /\ Goes(p, "release") /\ UNCHANGED turns
      BY <1>9 DEF Drain
  <2>2. CASE /\ batch # NoBatch /\ turns' = Append(turns, Merged(batch.items))
             /\ batch' = NoBatch /\ Goes(p, "running")
      BY <2>1, <2>2, WebDrains
  <2>3. CASE /\ batch' = NoBatch \/ (batch' = batch /\ ~ (exists /\ batch # NoBatch /\ batch.owner = TurnId[p]))
             /\ Goes(p, "release") /\ UNCHANGED turns
    <3>1. "release" \in Places /\ "release" \notin Staging /\ "release" \notin Unjoined
        BY DEF Places, Staging, Unjoined
    <3>2. batch' = NoBatch \/ TurnId[p] # batch.owner
        BY <2>3 DEF WebInv, WebTyped
    <3>3. batch' = NoBatch \/ (batch' = batch /\ exists' = exists)
        BY <2>1, <2>3
    <3> QED
        BY <1>0, <2>1, <2>3, <3>1, <3>2, <3>3, WebGoes
  <2> QED
      BY <2>1, <2>2, <2>3
<1>10. ASSUME NEW p \in Prompts, Drop(p) PROVE WebInv'
  <2>1. /\ webFaults < MaxWebFaults /\ webFaults' = webFaults + 1
        /\ UNCHANGED <<clock, exists, batch, reserved, received, turns>>
        /\ \E to \in {"dropped", "leaked"} : Goes(p, to) /\ (to = "leaked" \/ pc[p] \notin Leading)
      BY <1>10 DEF Drop, Fault, Leading
  <2>2. PICK to \in {"dropped", "leaked"} : Goes(p, to) /\ (to = "leaked" \/ pc[p] \notin Leading)
      BY <2>1
  <2>3. to \in Places /\ to \notin Staging /\ to \notin Unjoined /\ (to = "leaked" => to \in Leading)
      BY DEF Places, Staging, Unjoined, Leading
  <2>4. webFaults' \in 0..MaxWebFaults
      BY <1>0, <2>1, IngressAssumption
  <2> QED
      BY <1>0, <2>1, <2>2, <2>3, <2>4, WebGoes
<1> QED
    BY <1>1, <1>2, <1>3, <1>4, <1>5, <1>6, <1>7, <1>8, <1>9, <1>10 DEF WebNext, Handler, Task

LEMMA WebStart ==
    ASSUME WebInit
    PROVE  WebInv
<1>1. /\ clock = 0 /\ exists = TRUE /\ batch = NoBatch /\ reserved = FALSE /\ turns = << >> /\ webFaults = 0
      /\ pc = [p \in Prompts |-> "new"] /\ received = [p \in Prompts |-> 0] /\ time = [p \in Prompts |-> 0]
    BY DEF WebInit
<1>2. "new" \in Places /\ Window \in Nat /\ 0 \in 0..MaxWebFaults
    BY IngressAssumption DEF Places
<1>a. pc \in [Prompts -> Places] /\ received \in [Prompts -> Nat] /\ time \in [Prompts -> Nat]
    BY <1>1, <1>2
<1>b. \A p \in Prompts : received[p] <= clock /\ time[p] <= clock + Window /\ time[p] <= clock
    BY <1>1, <1>2
<1>c. turns \in Seq(Seq(Prompts)) /\ clock \in Nat
    BY <1>1
<1>3. WebTyped
    BY <1>1, <1>2, <1>a, <1>b, <1>c DEF WebTyped
<1>4. Apart /\ InOrder /\ Led
    BY <1>1 DEF Apart, InOrder, Led
<1> QED
    BY <1>3, <1>4 DEF WebInv

LEMMA WebInvSays ==
    ASSUME WebInv
    PROVE  IngressSound
<1>1. WebTypeOK
  <2>1. batch # NoBatch => /\ batch.owner \in Range(TurnId) /\ batch.opened \in 0..clock
                           /\ batch.items \in Seq(Prompts) /\ exists
      BY DEF WebInv, WebTyped, Batches
  <2>2. \A p \in Prompts : received[p] \in 0..clock /\ time[p] \in 0..(clock + Window)
      BY IngressAssumption DEF WebInv, WebTyped
  <2> QED
      BY <2>1, <2>2 DEF WebInv, WebTyped, WebTypeOK
<1>2. BatchHasLeader
    BY DEF WebInv, Led, Leading, BatchHasLeader
<1>3. ASSUME NEW i \in DOMAIN turns, NEW j \in DOMAIN turns, i # j
      PROVE  ToSet(turns[i]) \cap ToSet(turns[j]) = {}
  <2>1. SUFFICES ASSUME NEW p \in ToSet(turns[i]) \cap ToSet(turns[j]) PROVE FALSE
      OBVIOUS
  <2>2. In(p, turns[i]) /\ In(p, turns[j])
      BY <2>1 DEF In, ToSet
  <2>3. turns[i] \in Seq(Prompts)
      BY ElementOfSeq DEF WebInv, WebTyped
  <2>4. p \in Prompts
      BY <2>2, <2>3, ElementOfSeq DEF In
  <2> QED
      BY <1>3, <2>2, <2>4 DEF WebInv, Apart
<1>4. MergedOnceInOrder
    BY <1>3 DEF WebInv, InOrder, MergedOnceInOrder
<1> QED
    BY <1>1, <1>2, <1>4 DEF IngressSound

\* For any number of prompts, repetitions and faults: whoever joins a batch joins
\* one that a leader will drain, a prompt is part of one turn at most, and a turn
\* has its prompts in the order received, a repeated one once
\* (append_if_present, drain, stabilize_ingress_turns).
THEOREM IngressSoundHolds == WebSpec => []IngressSound
<1>1. WebInit => WebInv
    BY WebStart
<1>2. WebInv /\ [WebNext]_webVars => WebInv'
    BY WebStep
<1>3. WebInv => IngressSound
    BY WebInvSays
<1> QED
    BY <1>1, <1>2, <1>3, PTL DEF WebSpec

=============================================================================
