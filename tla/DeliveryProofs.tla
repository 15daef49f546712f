--------------------------- MODULE DeliveryProofs ---------------------------
(***************************************************************************)
(* What the receipts and the admission count guarantee for any number of   *)
(* requests, keys and contents, any size of the tables and any number of   *)
(* restarts: a message runs at most once, a client is given the result of  *)
(* its own message and the truth about one that was not sent, and a frozen *)
(* daemon owes nobody anything.                                            *)
(***************************************************************************)
EXTENDS Delivery, FiniteSetTheorems, TLAPS

----------------------------------------------------------------------------
(* The inductive invariant *)

\* Requests whose Work has not ended.
Outstanding == {c \in Sent : call[c].stage \in InPending \cup {"replying"}}

\* Admission counts them; none is left when it is closed or the daemon is gone.
WorkInv ==
    /\ active = Cardinality(Outstanding)
    /\ ~up \/ closed => Outstanding = {}

\* A request in flight has its key's receipt in memory, made for its content, and
\* no other request in flight has that key.
PendingInv ==
    /\ \A c \in Pending : /\ receipts[call[c].key] /= None
                          /\ receipts[call[c].key].digest = call[c].digest
    /\ \A c1, c2 \in Pending : call[c1].key = call[c2].key => c1 = c2

\* A request owns its key's claim from the fresh claim until the reply is stored,
\* and for ever once the message may have run.
Owning(r) == \/ r.stage = "claimed" /\ r.claim = "fresh"
             \/ r.stage \in {"dispatched", "answered", "finishing"}
Owner(c) == exec[c] \in {"queued", "taken", "ran"} \/ (c \in Sent /\ Owning(call[c]))

\* A key has at most one owner, whose claim is on disk.
OwnerInv ==
    /\ \A c \in Calls : Owner(c) =>
          /\ c \in Sent
          /\ disk[call[c].key] /= None
          /\ disk[call[c].key].digest = call[c].digest
    /\ \A c1, c2 \in Calls :
          Owner(c1) /\ Owner(c2) /\ call[c1].key = call[c2].key => c1 = c2

\* A result is that of a message with this key and content, which did run.
TrueResult(r, k, d) ==
    r.outcome = "done" =>
        /\ r.of \in Sent /\ exec[r.of] = "ran"
        /\ call[r.of].key = k /\ call[r.of].digest = d

\* What a receipt of key k holds: nothing yet, or a true result.
TrueReceipt(e, k) ==
    e /= None /\ e.response /= None =>
        e.response.outcome /= "not_sent" /\ TrueResult(e.response, k, e.digest)

ReceiptInv == \A k \in Keys : TrueReceipt(receipts[k], k) /\ TrueReceipt(disk[k], k)

\* What became of a request, by its stage: nothing before its dispatch; out of the
\* session's reach for good once its worker answers busy or it is answered as not sent.
FateOf(c, r) ==
    /\ r.stage \in {"claiming", "claimed"} => exec[c] = "none"
    /\ r.stage = "claimed" /\ r.claim = "saved"
         => r.saved \in Receipt /\ TrueReceipt(r.saved, r.key)
    /\ r.stage = "claimed" => r.claim \in {"fresh", "saved", "failed"}
    /\ r.stage = "dispatched" => exec[c] /= "none"
    /\ r.stage \in {"answered", "finishing", "finished"}
         => /\ r.response \in Response
            /\ r.response.outcome \in {"busy", "not_sent"} => exec[c] = "never"
            /\ TrueResult(r.response, r.key, r.digest)
    /\ r.stage \in {"replying", "told"}
         => /\ r.response \in Response
            /\ r.response.outcome = "not_sent" => exec[c] \in {"none", "never"}
            /\ TrueResult(r.response, r.key, r.digest)

FateInv == \A c \in Calls : IF call[c] = None THEN exec[c] = "none" ELSE FateOf(c, call[c])

IInv == TypeOK /\ WorkInv /\ PendingInv /\ OwnerInv /\ ReceiptInv /\ FateInv
----------------------------------------------------------------------------
(* What a step on one request leaves alone *)

\* One request changes; the others are as they were.
LEMMA UpdateFacts ==
    ASSUME TypeOK, NEW c \in Calls, NEW R \in Call, call' = [call EXCEPT ![c] = R]
    PROVE  /\ call' \in [Calls -> Call \cup {None}]
           /\ call'[c] = R /\ R /= None
           /\ \A x \in Calls \ {c} : call'[x] = call[x]
           /\ Sent' = Sent \cup {c}
  BY NoneIsNoRecord DEF TypeOK, Sent

\* Nothing that has happened is undone: a request keeps its key and content, and
\* one that ran has run.
Lasting ==
    /\ \A x \in Sent : x \in Sent' /\ call'[x].key = call[x].key
                       /\ call'[x].digest = call[x].digest
    /\ \A x \in Calls : exec[x] = "ran" => exec'[x] = "ran"

\* A true result stays true.
LEMMA ResultsLast ==
    ASSUME Lasting
    PROVE  /\ \A r, k, d : TrueResult(r, k, d) => TrueResult(r, k, d)'
           /\ \A e, k : TrueReceipt(e, k) => TrueReceipt(e, k)'
  <1>1. ASSUME NEW r, NEW k, NEW d, TrueResult(r, k, d) PROVE TrueResult(r, k, d)'
    BY <1>1 DEF Lasting, TrueResult, Sent
  <1>2. ASSUME NEW e, NEW k, TrueReceipt(e, k) PROVE TrueReceipt(e, k)'
    BY <1>1, <1>2 DEF TrueReceipt
  <1>. QED
    BY <1>1, <1>2

\* A step on one request: the rest of the requests keep their fates.
LEMMA FatesLast ==
    ASSUME TypeOK, FateInv, Lasting, NEW c \in Calls, NEW R \in Call,
           call' = [call EXCEPT ![c] = R],
           \A x \in Calls \ {c} : exec'[x] = exec[x],
           FateOf(c, R)'
    PROVE  FateInv'
  <1>1. ASSUME NEW x \in Calls \ {c}, NEW r, FateOf(x, r) PROVE FateOf(x, r)'
    BY <1>1, ResultsLast DEF FateOf
  <1>2. ASSUME NEW x \in Calls \ {c}
        PROVE  (IF call[x] = None THEN exec[x] = "none" ELSE FateOf(x, call[x]))'
    <2>1. call'[x] = call[x] /\ exec'[x] = exec[x]
      BY UpdateFacts
    <2>2. CASE call[x] = None
      BY <2>1, <2>2 DEF FateInv
    <2>3. CASE call[x] /= None
      <3>1. FateOf(x, call[x])
        BY <2>3 DEF FateInv
      <3>2. FateOf(x, call[x])'
        BY <1>1, <2>1, <3>1
      <3>. QED
        BY <2>1, <2>3, <3>2
    <2>. QED
      BY <2>2, <2>3
  <1>3. (IF call[c] = None THEN exec[c] = "none" ELSE FateOf(c, call[c]))'
    BY UpdateFacts
  <1>. QED
    BY <1>2, <1>3 DEF FateInv

Busy == InPending \cup {"replying"}

\* The count of Work follows the one request that changes.
LEMMA WorkLasts ==
    ASSUME TypeOK, WorkInv, NEW c \in Calls, NEW R \in Call, call' = [call EXCEPT ![c] = R],
           UNCHANGED <<up, closed>>,
           R.stage \in Busy /\ c \in Outstanding => active' = active,
           R.stage \in Busy /\ c \notin Outstanding => active' = active + 1 /\ up /\ ~closed,
           R.stage \notin Busy /\ c \in Outstanding => active' = active - 1,
           R.stage \notin Busy /\ c \notin Outstanding => active' = active
    PROVE  WorkInv' /\ active' \in 0..Cardinality(Calls)
  <1>1. Outstanding' = IF R.stage \in Busy THEN Outstanding \cup {c} ELSE Outstanding \ {c}
    <2>1. c \in Outstanding' <=> R.stage \in Busy
      BY UpdateFacts DEF Outstanding, Busy
    <2>2. \A x \in Calls \ {c} : x \in Outstanding' <=> x \in Outstanding
      BY UpdateFacts DEF Outstanding, Sent
    <2>. QED
      BY <2>1, <2>2 DEF Outstanding, Sent
  <1>2. Outstanding \subseteq Calls /\ Outstanding' \subseteq Calls
    BY DEF Outstanding, Sent
  <1>3. /\ IsFiniteSet(Outstanding) /\ IsFiniteSet(Outstanding')
        /\ Cardinality(Outstanding') <= Cardinality(Calls)
    BY <1>2, FS_Subset, DeliveryConstants
  <1>4. /\ Cardinality(Outstanding) \in Nat /\ Cardinality(Outstanding') \in Nat
        /\ Cardinality(Calls) \in Nat
    BY <1>3, FS_CardinalityType, DeliveryConstants
  <1>5. active' = Cardinality(Outstanding')
    <2>1. CASE R.stage \in Busy /\ c \notin Outstanding
      BY <1>1, <1>3, <2>1, FS_AddElement DEF WorkInv
    <2>2. CASE R.stage \notin Busy /\ c \in Outstanding
      BY <1>1, <1>3, <2>2, FS_RemoveElement DEF WorkInv
    <2>3. CASE (R.stage \in Busy) <=> (c \in Outstanding)
      <3>1. Outstanding' = Outstanding
        BY <1>1, <2>3
      <3>. QED
        BY <2>3, <3>1 DEF WorkInv
    <2>. QED
      BY <2>1, <2>2, <2>3
  <1>6. (~up \/ closed => Outstanding = {})'
    <2>1. CASE R.stage \in Busy /\ c \notin Outstanding
      BY <2>1
    <2>2. CASE ~(R.stage \in Busy /\ c \notin Outstanding)
      BY <1>1, <2>2 DEF WorkInv
    <2>. QED
      BY <2>1, <2>2
  <1>. QED
    BY <1>3, <1>4, <1>5, <1>6 DEF WorkInv

\* Requests in flight keep their receipts when the one that changes does not join
\* them and the receipts of the others are left alone.
LEMMA PendingLasts ==
    ASSUME TypeOK, PendingInv, NEW c \in Calls, NEW R \in Call, call' = [call EXCEPT ![c] = R],
           R.stage \in InPending =>
               c \in Pending /\ R.key = call[c].key /\ R.digest = call[c].digest,
           \A x \in Pending : x /= c \/ R.stage \in InPending =>
               /\ receipts'[call[x].key] /= None
               /\ receipts'[call[x].key].digest = receipts[call[x].key].digest
    PROVE  PendingInv'
  <1>1. \A x \in Pending' : /\ x \in Pending /\ call'[x].key = call[x].key
                            /\ call'[x].digest = call[x].digest
                            /\ x /= c \/ R.stage \in InPending
    <2>1. c \in Pending' <=> R.stage \in InPending
      BY UpdateFacts DEF Pending
    <2>2. \A x \in Calls \ {c} : (x \in Pending' <=> x \in Pending) /\ call'[x] = call[x]
      BY UpdateFacts DEF Pending, Sent
    <2>3. call'[c] = R /\ Pending' \subseteq Calls
      BY UpdateFacts DEF Pending, Sent
    <2>. QED
      BY <2>1, <2>2, <2>3
  <1>. QED
    BY <1>1 DEF PendingInv

\* Keys keep their owners when nobody becomes one and the claims stay.
LEMMA OwnersLast ==
    ASSUME TypeOK, OwnerInv, Lasting,
           \A x \in Calls : Owner(x)' =>
               /\ Owner(x)
               /\ disk'[call[x].key] /= None
               /\ disk'[call[x].key].digest = disk[call[x].key].digest
    PROVE  OwnerInv'
  <1>1. \A x \in Calls : Owner(x)' => /\ Owner(x) /\ x \in Sent /\ x \in Sent'
                                      /\ call'[x].key = call[x].key
                                      /\ call'[x].digest = call[x].digest
    BY DEF OwnerInv, Lasting
  <1>. QED
    BY <1>1 DEF OwnerInv

\* Only the request that changes can become an owner.
LEMMA OthersOwn ==
    ASSUME TypeOK, NEW c \in Calls, NEW R \in Call, call' = [call EXCEPT ![c] = R],
           \A x \in Calls \ {c} : exec'[x] = exec[x]
    PROVE  /\ \A x \in Calls \ {c} : Owner(x)' <=> Owner(x)
           /\ Owner(c)' <=> exec'[c] \in {"queued", "taken", "ran"} \/ Owning(R)
  BY UpdateFacts DEF Owner, Owning, Sent

\* A step on one request that keeps its key and content undoes nothing.
LEMMA StepLasts ==
    ASSUME TypeOK, NEW c \in Calls, NEW R \in Call, call' = [call EXCEPT ![c] = R],
           c \in Sent => R.key = call[c].key /\ R.digest = call[c].digest,
           \A x \in Calls : exec[x] = "ran" => exec'[x] = "ran"
    PROVE  Lasting
  BY UpdateFacts DEF Lasting, Sent

\* Receipts stay true when none is replaced by anything but a true one.
LEMMA ReceiptsLast ==
    ASSUME ReceiptInv, Lasting,
           \A k \in Keys : receipts'[k] = receipts[k] \/ TrueReceipt(receipts'[k], k),
           \A k \in Keys : disk'[k] = disk[k] \/ TrueReceipt(disk'[k], k)
    PROVE  ReceiptInv'
  <1>1. ASSUME NEW k \in Keys PROVE TrueReceipt(receipts[k], k)' /\ TrueReceipt(disk[k], k)'
    <2>1. TrueReceipt(receipts'[k], k) /\ TrueReceipt(disk'[k], k)
      BY DEF ReceiptInv
    <2>. QED
      BY <2>1, ResultsLast
  <1>. QED
    BY <1>1 DEF ReceiptInv

\* What a step on one request has to show.
LEMMA RequestStep ==
    ASSUME IInv, NEW c \in Calls, NEW R \in Call, call' = [call EXCEPT ![c] = R],
           UNCHANGED <<up, closed, restarts>>,
           c \in Sent => R.key = call[c].key /\ R.digest = call[c].digest,
           receipts' \in [Keys -> Receipt \cup {None}],
           disk' \in [Keys -> Receipt \cup {None}],
           exec' \in [Calls -> {"none", "queued", "taken", "ran", "never"}],
           \A x \in Calls \ {c} : exec'[x] = exec[x],
           exec[c] = "ran" => exec'[c] = "ran",
           R.stage \in Busy /\ c \in Outstanding => active' = active,
           R.stage \in Busy /\ c \notin Outstanding => active' = active + 1 /\ up /\ ~closed,
           R.stage \notin Busy /\ c \in Outstanding => active' = active - 1,
           R.stage \notin Busy /\ c \notin Outstanding => active' = active,
           \A k \in Keys : receipts'[k] = receipts[k] \/ TrueReceipt(receipts'[k], k),
           \A k \in Keys : disk'[k] = disk[k] \/ TrueReceipt(disk'[k], k),
           FateOf(c, R)', PendingInv', OwnerInv'
    PROVE  IInv'
  <1>1. Lasting
    BY StepLasts DEF IInv
  <1>2. WorkInv' /\ active' \in 0..Cardinality(Calls)
    BY WorkLasts DEF IInv
  <1>3. TypeOK'
    BY <1>2, UpdateFacts DEF IInv, TypeOK
  <1>4. ReceiptInv'
    BY <1>1, ReceiptsLast DEF IInv
  <1>5. FateInv'
    BY <1>1, FatesLast DEF IInv
  <1>. QED
    BY <1>2, <1>3, <1>4, <1>5 DEF IInv

\* With memory and disk left alone, the request that changes must only not join
\* the requests in flight, nor the owners.
LEMMA QuietStep ==
    ASSUME IInv, NEW c \in Calls, NEW R \in Call, call' = [call EXCEPT ![c] = R],
           c \in Sent => R.key = call[c].key /\ R.digest = call[c].digest,
           \A x \in Calls \ {c} : exec'[x] = exec[x],
           exec[c] = "ran" => exec'[c] = "ran"
    PROVE  /\ (UNCHANGED receipts /\ (R.stage \in InPending => c \in Pending)) => PendingInv'
           /\ (UNCHANGED disk /\ (exec'[c] \in {"queued", "taken", "ran"} \/ Owning(R) => Owner(c)))
                => OwnerInv'
  <1>1. Lasting
    BY StepLasts DEF IInv
  <1>2. ASSUME UNCHANGED receipts, R.stage \in InPending => c \in Pending PROVE PendingInv'
    <2>1. c \in Pending => c \in Sent
      BY DEF Pending
    <2>2. \A x \in Pending : receipts'[call[x].key] /= None
      BY <1>2 DEF IInv, PendingInv
    <2>. QED
      BY <1>2, <2>1, <2>2, PendingLasts DEF IInv
  <1>3. ASSUME UNCHANGED disk, exec'[c] \in {"queued", "taken", "ran"} \/ Owning(R) => Owner(c)
        PROVE  OwnerInv'
    <2>1. \A x \in Calls : Owner(x)' => Owner(x)
      BY <1>3, OthersOwn DEF IInv
    <2>. QED
      BY <1>1, <1>3, <2>1, OwnersLast DEF IInv, OwnerInv
  <1>. QED
    BY <1>2, <1>3

----------------------------------------------------------------------------
(* Requests *)

\* A new request's record.
LEMMA StartedFacts ==
    ASSUME NEW k \in Keys, NEW d \in Digests, NEW stage \in Stages,
           NEW response \in Response \cup {None}
    PROVE  /\ Started(k, d, stage, response) \in Call
           /\ Started(k, d, stage, response).key = k
           /\ Started(k, d, stage, response).digest = d
           /\ Started(k, d, stage, response).stage = stage
           /\ Started(k, d, stage, response).claim = "none"
           /\ Started(k, d, stage, response).response = response
  BY DEF Started, Call

\* What is said without a result of any message.
LEMMA SaidFacts ==
    ASSUME NEW o \in {"error", "unknown", "busy", "not_sent", "pending", "conflict"}
    PROVE  Said(o) \in Response /\ Said(o).outcome = o /\ Said(o) /= None
  BY NoneIsNoRecord DEF Said, Response

\* Expiry and eviction only touch receipts of keys that are not in flight.
LEMMA WithoutFacts ==
    ASSUME NEW R \in [Keys -> Receipt \cup {None}], NEW gone \in SUBSET Droppable(R)
    PROVE  /\ Without(R, gone) \in [Keys -> Receipt \cup {None}]
           /\ \A k \in Keys : Without(R, gone)[k] = R[k]
                \/ (Without(R, gone)[k] = None /\ ~InFlight(k))
  <1>1. Without(R, gone) = [k \in Keys |-> IF k \in gone THEN None ELSE R[k]]
    BY DEF Without
  <1>2. \A k \in gone : k \in Keys /\ ~InFlight(k)
    BY DEF Droppable
  <1>3. ASSUME NEW k \in Keys
        PROVE  /\ Without(R, gone)[k] \in Receipt \cup {None}
               /\ Without(R, gone)[k] = R[k] \/ (Without(R, gone)[k] = None /\ ~InFlight(k))
    <2>1. R[k] \in Receipt \cup {None} /\ Without(R, gone)[k] = IF k \in gone THEN None ELSE R[k]
      BY <1>1
    <2>. QED
      BY <1>2, <2>1
  <1>. QED
    BY <1>1, <1>3

\* What is kept once receipts expired, and once room was made for one more.
LEMMA RetainedFacts ==
    ASSUME TypeOK, NEW kept \in Retained
    PROVE  /\ kept \in [Keys -> Receipt \cup {None}]
           /\ \A k \in Keys : kept[k] = receipts[k] \/ (kept[k] = None /\ ~InFlight(k))
           /\ \A room \in Evicted(kept) :
                /\ room \in [Keys -> Receipt \cup {None}]
                /\ \A k \in Keys : room[k] = receipts[k] \/ (room[k] = None /\ ~InFlight(k))
  <1>1. /\ kept \in [Keys -> Receipt \cup {None}]
        /\ \A k \in Keys : kept[k] = receipts[k] \/ (kept[k] = None /\ ~InFlight(k))
    BY WithoutFacts DEF Retained, TypeOK
  <1>2. ASSUME NEW room \in Evicted(kept)
        PROVE  /\ room \in [Keys -> Receipt \cup {None}]
               /\ \A k \in Keys : room[k] = kept[k] \/ (room[k] = None /\ ~InFlight(k))
    <2>1. room = kept \/ \E k \in Droppable(kept) : room = Without(kept, {k})
      BY DEF Evicted
    <2>2. ASSUME NEW k \in Droppable(kept), room = Without(kept, {k})
          PROVE  /\ room \in [Keys -> Receipt \cup {None}]
                 /\ \A x \in Keys : room[x] = kept[x] \/ (room[x] = None /\ ~InFlight(x))
      <3>1. {k} \in SUBSET Droppable(kept)
        OBVIOUS
      <3>. QED
        BY <1>1, <2>2, <3>1, WithoutFacts
    <2>. QED
      BY <1>1, <2>1, <2>2
  <1>. QED
    BY <1>1, <1>2

\* Pending requests do not miss the receipts that were dropped.
LEMMA DroppedUnmissed ==
    ASSUME TypeOK, PendingInv, NEW R \in [Keys -> Receipt \cup {None}],
           \A k \in Keys : R[k] = receipts[k] \/ (R[k] = None /\ ~InFlight(k))
    PROVE  \A x \in Pending : /\ call[x].key \in Keys
                              /\ R[call[x].key] = receipts[call[x].key]
                              /\ R[call[x].key] /= None
  <1>1. \A x \in Pending : call[x].key \in Keys /\ InFlight(call[x].key)
    BY DEF Pending, Sent, TypeOK, Call, InFlight
  <1>. QED
    BY <1>1 DEF PendingInv

\* A request answered on arrival, truly, and never accepted.
LEMMA AnsweredStep ==
    ASSUME IInv, NEW c \in Calls, NEW R \in Call, call[c] = None,
           call' = [call EXCEPT ![c] = R], R.stage \in {"replying", "told"},
           R.response \in Response, TrueResult(R.response, R.key, R.digest),
           UNCHANGED <<disk, exec, closed, up, restarts>>,
           R.stage = "replying" => active' = active + 1 /\ up /\ ~closed,
           R.stage = "told" => active' = active,
           receipts' \in [Keys -> Receipt \cup {None}],
           \A k \in Keys : receipts'[k] = receipts[k] \/ (receipts'[k] = None /\ ~InFlight(k))
    PROVE  IInv'
  <1>1. c \notin Sent /\ c \notin Outstanding /\ c \notin Pending /\ exec[c] = "none"
    BY DEF Sent, Outstanding, Pending, IInv, FateInv
  <1>2. FateOf(c, R)'
    <2>1. Lasting
      BY <1>1, StepLasts DEF IInv
    <2>2. TrueResult(R.response, R.key, R.digest)'
      BY <2>1, ResultsLast
    <2>. QED
      BY <1>1, <2>2 DEF FateOf
  <1>3. PendingInv'
    BY <1>1, DroppedUnmissed, PendingLasts DEF IInv, InPending
  <1>4. OwnerInv'
    BY <1>1, QuietStep DEF Owning
  <1>5. \A k \in Keys : TrueReceipt(None, k)
    BY DEF TrueReceipt
  <1>. QED
    BY <1>1, <1>2, <1>3, <1>4, <1>5, RequestStep DEF IInv, TypeOK, Busy, InPending

\* Refusals on arrival change nothing but the request.
LEMMA RefuseStep ==
    ASSUME IInv, NEW c \in Calls, NEW k \in Keys, NEW d \in Digests,
           RefuseClosed(c, k, d) \/ RefuseBusy(c, k, d)
    PROVE  IInv'
  <1>1. PICK stage \in {"replying", "told"} :
           /\ call' = [call EXCEPT ![c] = Started(k, d, stage, Said("not_sent"))]
           /\ stage = "replying" => active' = active + 1 /\ up /\ ~closed
           /\ stage = "told" => active' = active
    BY DEF RefuseClosed, RefuseBusy, NewCall, Enter
  <1>2. PICK R : R = Started(k, d, stage, Said("not_sent"))
    OBVIOUS
  <1>3. /\ R \in Call /\ R.stage = stage /\ R.response \in Response
        /\ R.response.outcome = "not_sent"
    <2>1. Said("not_sent") \in Response /\ Said("not_sent").outcome = "not_sent"
      BY SaidFacts
    <2>2. stage \in Stages
      BY DEF Stages
    <2>. QED
      BY <1>2, <2>1, <2>2, StartedFacts
  <1>4. TrueResult(R.response, R.key, R.digest)
    BY <1>3 DEF TrueResult
  <1>5. call[c] = None /\ UNCHANGED <<disk, exec, closed, up, restarts, receipts>>
    BY DEF RefuseClosed, RefuseBusy, Enter
  <1>6. /\ call' = [call EXCEPT ![c] = R]
        /\ receipts' \in [Keys -> Receipt \cup {None}] /\ receipts' = receipts
    BY <1>1, <1>2, <1>5 DEF IInv, TypeOK
  <1>. QED
    BY <1>1, <1>3, <1>4, <1>5, <1>6, AnsweredStep

\* What receipt_response tells of a true receipt is true.
LEMMA ReceiptResponseFacts ==
    ASSUME NEW e \in Receipt, NEW k \in Keys, NEW d \in Digests, NEW b \in BOOLEAN,
           TrueReceipt(e, k)
    PROVE  /\ ReceiptResponse(e, d, b) \in Response
           /\ ReceiptResponse(e, d, b).outcome /= "not_sent"
           /\ TrueResult(ReceiptResponse(e, d, b), k, d)
  <1>1. CASE e.digest /= d
    <2>1. ReceiptResponse(e, d, b) = Said("conflict")
      BY <1>1 DEF ReceiptResponse
    <2>. QED
      BY <2>1, SaidFacts DEF TrueResult
  <1>2. CASE e.digest = d /\ e.response /= None
    BY <1>2, NoneIsNoRecord DEF ReceiptResponse, TrueReceipt, Receipt
  <1>3. CASE e.digest = d /\ e.response = None
    <2>1. \E o \in {"pending", "unknown"} : ReceiptResponse(e, d, b) = Said(o)
      BY <1>3 DEF ReceiptResponse
    <2>. QED
      BY <2>1, SaidFacts DEF TrueResult
  <1>. QED
    BY <1>1, <1>2, <1>3

\* A receipt in memory answers, or there is no room for one.
LEMMA MemoryStep ==
    ASSUME IInv, NEW c \in Calls, NEW k \in Keys, NEW d \in Digests, AnswerFromMemory(c, k, d)
    PROVE  IInv'
  <1>1. PICK kept \in Retained :
           /\ receipts' = kept \/ receipts' \in Evicted(kept)
           /\ \/ /\ kept[k] /= None
                 /\ NewCall(c, k, d, "replying", ReceiptResponse(kept[k], d, InFlight(k)))
              \/ /\ kept[k] = None
                 /\ NewCall(c, k, d, "replying", Said("not_sent"))
    BY DEF AnswerFromMemory
  <1>2. /\ kept \in [Keys -> Receipt \cup {None}]
        /\ \A x \in Keys : kept[x] = receipts[x] \/ (kept[x] = None /\ ~InFlight(x))
        /\ receipts' \in [Keys -> Receipt \cup {None}]
        /\ \A x \in Keys : receipts'[x] = receipts[x] \/ (receipts'[x] = None /\ ~InFlight(x))
    BY <1>1, RetainedFacts DEF IInv
  <1>3. PICK response \in Response :
           /\ NewCall(c, k, d, "replying", response)
           /\ TrueResult(response, k, d)
    <2>1. CASE kept[k] /= None
      <3>1. kept[k] \in Receipt /\ TrueReceipt(kept[k], k) /\ InFlight(k) \in BOOLEAN
        BY <1>2, <2>1 DEF IInv, ReceiptInv, InFlight
      <3>. QED
        BY <1>1, <2>1, <3>1, ReceiptResponseFacts
    <2>2. CASE kept[k] = None
      <3>1. TrueResult(Said("not_sent"), k, d)
        BY SaidFacts DEF TrueResult
      <3>. QED
        BY <1>1, <2>2, <3>1, SaidFacts
    <2>. QED
      BY <2>1, <2>2
  <1>4. PICK R : R = Started(k, d, "replying", response)
    OBVIOUS
  <1>5. /\ R \in Call /\ R.stage = "replying" /\ R.response = response
        /\ R.key = k /\ R.digest = d
    BY <1>3, <1>4, StartedFacts DEF Stages
  <1>6. /\ call[c] = None /\ active' = active + 1 /\ up /\ ~closed
        /\ UNCHANGED <<disk, exec, closed, up, restarts>>
    BY DEF AnswerFromMemory, Enter
  <1>7. call' = [call EXCEPT ![c] = R] /\ receipts' \in [Keys -> Receipt \cup {None}]
    BY <1>1, <1>2, <1>3, <1>4 DEF NewCall
  <1>. QED
    BY <1>1, <1>2, <1>3, <1>5, <1>6, <1>7, AnsweredStep

\* A new message: nobody else has its key in flight, for a request in flight has its
\* receipt in memory.
LEMMA AcceptStep ==
    ASSUME IInv, NEW c \in Calls, NEW k \in Keys, NEW d \in Digests, Accept(c, k, d)
    PROVE  IInv'
  <1>. DEFINE new == [digest |-> d, response |-> None]
  <1>k. PICK kept \in Retained :
           kept[k] = None /\ \E room \in Evicted(kept) : receipts' = [room EXCEPT ![k] = new]
    BY DEF Accept
  <1>1. PICK room \in Evicted(kept) : receipts' = [room EXCEPT ![k] = new]
    BY <1>k
  <1>2. /\ kept[k] = receipts[k] \/ (kept[k] = None /\ ~InFlight(k))
        /\ room \in [Keys -> Receipt \cup {None}]
        /\ \A x \in Keys : room[x] = receipts[x] \/ (room[x] = None /\ ~InFlight(x))
    BY <1>k, <1>1, RetainedFacts DEF IInv
  <1>3. \A x \in Pending : call[x].key \in Keys /\ call[x].key /= k
                             /\ room[call[x].key] = receipts[call[x].key]
    <2>1. \A x \in Pending : call[x].key \in Keys /\ receipts[call[x].key] /= None
      BY DEF IInv, PendingInv, Pending, Sent, TypeOK, Call
    <2>2. \A x \in Pending : InFlight(call[x].key)
      BY DEF InFlight
    <2>. QED
      BY <1>k, <1>2, <2>1, <2>2
  <1>4. /\ new \in Receipt /\ receipts' \in [Keys -> Receipt \cup {None}]
        /\ receipts'[k] = new /\ \A x \in Keys \ {k} : receipts'[x] = room[x]
    BY <1>1, <1>2, NoneIsNoRecord DEF Receipt
  <1>5. PICK R : R = Started(k, d, "claiming", None)
    OBVIOUS
  <1>6. /\ R \in Call /\ R.stage = "claiming" /\ R.key = k /\ R.digest = d
    BY <1>5, StartedFacts DEF Stages, InPending
  <1>7. /\ call[c] = None /\ active' = active + 1 /\ up /\ ~closed
        /\ UNCHANGED <<disk, exec, closed, up, restarts>>
        /\ call' = [call EXCEPT ![c] = R]
    BY <1>5 DEF Accept, Enter, NewCall
  <1>8. c \notin Sent /\ c \notin Outstanding /\ c \notin Pending /\ exec[c] = "none"
    BY <1>7 DEF Sent, Outstanding, Pending, IInv, FateInv
  <1>9. FateOf(c, R)'
    BY <1>6, <1>7, <1>8 DEF FateOf
  <1>10. PendingInv'
    <2>1. \A x \in Pending' : x = c \/ (x \in Pending /\ call'[x] = call[x])
      BY <1>6, <1>7, UpdateFacts DEF IInv, Pending, Sent
    <2>2. call'[c] = R
      BY <1>6, <1>7, UpdateFacts DEF IInv
    <2>3. new /= None /\ new.digest = d
      BY <1>4, NoneIsNoRecord
    <2>. HIDE DEF new
    <2>4. /\ receipts'[call'[c].key] /= None
          /\ receipts'[call'[c].key].digest = call'[c].digest
      BY <1>4, <1>6, <2>2, <2>3
    <2>5. \A x \in Pending : /\ receipts'[call[x].key] /= None
                             /\ receipts'[call[x].key].digest = call[x].digest
      BY <1>3, <1>4 DEF IInv, PendingInv
    <2>. QED
      BY <1>3, <1>6, <2>1, <2>2, <2>4, <2>5 DEF IInv, PendingInv
  <1>11. OwnerInv'
    BY <1>6, <1>7, <1>8, QuietStep DEF Owning
  <1>12. \A x \in Keys : TrueReceipt(None, x) /\ TrueReceipt(new, x)
    BY DEF TrueReceipt
  <1>13. \A x \in Keys : receipts'[x] = receipts[x] \/ TrueReceipt(receipts'[x], x)
    BY <1>2, <1>4, <1>12
  <1>. QED
    BY <1>4, <1>6, <1>7, <1>8, <1>9, <1>10, <1>11, <1>13, RequestStep
       DEF IInv, TypeOK, Busy, InPending

----------------------------------------------------------------------------
(* The claim *)

\* Store::claim: the key gets an owner only where the disk had no claim.
LEMMA ClaimStep == ASSUME IInv, NEW c \in Calls, Claim(c) PROVE IInv'
  <1>. DEFINE r == call[c]
              k == r.key
              fields == [r EXCEPT !.stage = "claimed",
                                  !.claim = IF disk[k] = None THEN "fresh" ELSE "saved",
                                  !.saved = disk[k]]
              new == [digest |-> r.digest, response |-> None]
  <1>1. /\ r \in Call /\ r.stage = "claiming" /\ up /\ c \in Sent
        /\ UNCHANGED <<receipts, exec, active, closed, up, restarts>>
        /\ disk' = IF disk[k] = None THEN [disk EXCEPT ![k] = new] ELSE disk
    BY DEF Claim, Step, Sent, IInv, TypeOK
  <1>2. k \in Keys /\ disk[k] \in Receipt \cup {None} /\ new \in Receipt
    BY <1>1 DEF IInv, TypeOK, Call, Receipt
  <1>f. /\ fields \in Call /\ call' = [call EXCEPT ![c] = fields]
        /\ fields.stage = "claimed" /\ fields.key = k /\ fields.digest = r.digest
        /\ fields.claim = (IF disk[k] = None THEN "fresh" ELSE "saved")
        /\ fields.saved = disk[k]
    BY <1>1, <1>2 DEF Claim, Step, Call, Stages, InPending
  <1>. HIDE DEF fields
  <1>3. PICK R \in Call :
           /\ call' = [call EXCEPT ![c] = R]
           /\ R.stage = "claimed" /\ R.key = k /\ R.digest = r.digest
           /\ R.claim = (IF disk[k] = None THEN "fresh" ELSE "saved") /\ R.saved = disk[k]
    BY <1>f
  <1>4. c \in Outstanding /\ c \in Pending
    BY <1>1 DEF Outstanding, Pending, InPending
  <1>5. PendingInv'
    BY <1>1, <1>3, <1>4, QuietStep
  <1>6. OwnerInv'
    <2>1. /\ \A x \in Calls \ {c} : Owner(x)' <=> Owner(x)
          /\ Owner(c)' => disk[k] = None
      BY <1>1, <1>3, OthersOwn DEF IInv, FateInv, FateOf, Owning, Sent
    <2>2. CASE disk[k] /= None
      BY <1>1, <1>3, <2>2, QuietStep DEF IInv, FateInv, FateOf, Owning, Sent
    <2>3. CASE disk[k] = None
      <3>1. \A x \in Calls : Owner(x) => call[x].key /= k
        BY <2>3 DEF IInv, OwnerInv
      <3>2. \A x \in Calls \ {c} : call'[x] = call[x] /\ (x \in Sent' <=> x \in Sent)
        BY <1>1, <1>3, UpdateFacts DEF IInv, Sent
      <3>3. call'[c] = R /\ c \in Sent'
        BY <1>1, <1>3, UpdateFacts DEF IInv
      <3>4. disk'[k] = new /\ \A x \in Keys \ {k} : disk'[x] = disk[x]
        BY <1>1, <1>2, <2>3 DEF IInv, TypeOK
      <3>5. \A x \in Calls : x \in Sent => call[x].key \in Keys
        BY DEF IInv, TypeOK, Sent, Call
      <3>. QED
        BY <1>2, <1>3, <2>1, <3>1, <3>2, <3>3, <3>4, <3>5, NoneIsNoRecord DEF IInv, OwnerInv
    <2>. QED
      BY <2>2, <2>3
  <1>7. TrueReceipt(new, k)
    BY DEF TrueReceipt
  <1>8. FateOf(c, R)'
    <2>1. FateOf(c, R)
      BY <1>1, <1>2, <1>3 DEF IInv, FateInv, FateOf, ReceiptInv, Sent
    <2>. QED
      BY <1>1, <1>3, <2>1, StepLasts, ResultsLast DEF IInv, FateOf
  <1>. QED
    BY <1>1, <1>2, <1>3, <1>4, <1>5, <1>6, <1>7, <1>8, RequestStep
       DEF IInv, TypeOK, Busy, InPending


\* A failed claim gives nobody the key, whether or not its file is in place.
LEMMA ClaimFailsStep == ASSUME IInv, NEW c \in Calls, ClaimFails(c) PROVE IInv'
  <1>. DEFINE r == call[c]
              k == r.key
              fields == [r EXCEPT !.stage = "claimed", !.claim = "failed"]
              new == [digest |-> r.digest, response |-> None]
  <1>1. /\ r \in Call /\ r.stage = "claiming" /\ up /\ c \in Sent
        /\ UNCHANGED <<receipts, exec, active, closed, up, restarts>>
        /\ disk' = disk \/ (disk[k] = None /\ disk' = [disk EXCEPT ![k] = new])
    BY DEF ClaimFails, Step, Sent, IInv, TypeOK
  <1>2. k \in Keys /\ new \in Receipt
    BY <1>1 DEF Call, Receipt
  <1>f. /\ fields \in Call /\ call' = [call EXCEPT ![c] = fields]
        /\ fields.stage = "claimed" /\ fields.key = k /\ fields.digest = r.digest
        /\ fields.claim = "failed"
    BY <1>1 DEF ClaimFails, Step, Call, Stages, InPending
  <1>. HIDE DEF fields
  <1>3. PICK R \in Call :
           /\ call' = [call EXCEPT ![c] = R]
           /\ R.stage = "claimed" /\ R.key = k /\ R.digest = r.digest /\ R.claim = "failed"
    BY <1>f
  <1>4. c \in Outstanding /\ c \in Pending /\ exec[c] = "none"
    BY <1>1 DEF Outstanding, Pending, InPending, IInv, FateInv, FateOf, Sent
  <1>5. PendingInv'
    BY <1>1, <1>3, <1>4, QuietStep
  <1>6. OwnerInv'
    <2>1. \A x \in Calls : Owner(x)' => Owner(x) /\ x /= c
      BY <1>1, <1>3, <1>4, OthersOwn DEF IInv, Owning
    <2>2. \A x \in Calls : Owner(x) => disk'[call[x].key] = disk[call[x].key]
      <3>1. \A x \in Calls : Owner(x) => call[x].key \in Keys /\ disk[call[x].key] /= None
        BY DEF IInv, OwnerInv, TypeOK, Sent, Call
      <3>. QED
        BY <1>1, <1>2, <3>1 DEF IInv, TypeOK
    <2>3. Lasting
      BY <1>1, <1>3, StepLasts DEF IInv
    <2>. QED
      BY <2>1, <2>2, <2>3, OwnersLast DEF IInv, OwnerInv
  <1>7. TrueReceipt(new, k)
    BY DEF TrueReceipt
  <1>8. FateOf(c, R)'
    BY <1>1, <1>3, <1>4 DEF FateOf
  <1>. QED
    BY <1>1, <1>2, <1>3, <1>4, <1>5, <1>6, <1>7, <1>8, RequestStep
       DEF IInv, TypeOK, Busy, InPending

\* The owner of a fresh claim is dispatched.
LEMMA DispatchStep == ASSUME IInv, NEW c \in Calls, Dispatch(c) PROVE IInv'
  <1>. DEFINE r == call[c]
              fields == [r EXCEPT !.stage = "dispatched", !.claim = "none"]
  <1>1. /\ r \in Call /\ r.stage = "claimed" /\ r.claim = "fresh" /\ c \in Sent
        /\ exec' = [exec EXCEPT ![c] = "queued"]
        /\ UNCHANGED <<receipts, disk, active, closed, up, restarts>>
    BY DEF Dispatch, Step, Sent, IInv, TypeOK
  <1>f. /\ fields \in Call /\ call' = [call EXCEPT ![c] = fields]
        /\ fields.stage = "dispatched" /\ fields.key = r.key /\ fields.digest = r.digest
    BY <1>1 DEF Dispatch, Step, Call, Stages, InPending
  <1>. HIDE DEF fields
  <1>3. PICK R \in Call :
           /\ call' = [call EXCEPT ![c] = R]
           /\ R.stage = "dispatched" /\ R.key = r.key /\ R.digest = r.digest
    BY <1>f
  <1>4. c \in Outstanding /\ c \in Pending /\ exec[c] = "none" /\ Owner(c)
    BY <1>1 DEF Outstanding, Pending, InPending, IInv, FateInv, FateOf, Sent, Owner, Owning
  <1>5. /\ exec' \in [Calls -> {"none", "queued", "taken", "ran", "never"}]
        /\ exec'[c] = "queued" /\ \A x \in Calls \ {c} : exec'[x] = exec[x]
    BY <1>1 DEF IInv, TypeOK
  <1>6. PendingInv' /\ OwnerInv'
    BY <1>1, <1>3, <1>4, <1>5, QuietStep
  <1>7. FateOf(c, R)'
    BY <1>3, <1>5 DEF FateOf
  <1>. QED
    BY <1>1, <1>3, <1>4, <1>5, <1>6, <1>7, RequestStep DEF IInv, TypeOK, Busy, InPending

\* deliver_response: the request leaves those in flight with a true reply, or lost;
\* only its own key's receipt may change with it.
LEMMA DeliverStep ==
    ASSUME IInv, NEW c \in Pending, NEW response \in Response, Deliver(c, response),
           TrueResult(response, call[c].key, call[c].digest),
           response.outcome = "not_sent" => exec[c] \in {"none", "never"},
           UNCHANGED <<disk, exec, closed, up, restarts>>,
           receipts' \in [Keys -> Receipt \cup {None}],
           \A k \in Keys \ {call[c].key} : receipts'[k] = receipts[k],
           \A k \in Keys : receipts'[k] = receipts[k] \/ TrueReceipt(receipts'[k], k)
    PROVE  IInv'
  <1>. DEFINE r == call[c]
              reply == [r EXCEPT !.stage = "replying", !.response = response,
                                 !.claim = "none", !.saved = None]
              gone == Gone(r)
  <1>1. c \in Calls /\ c \in Sent /\ r \in Call /\ c \in Outstanding
    BY DEF Pending, Sent, IInv, TypeOK, Outstanding
  <1>2. /\ reply \in Call /\ reply.stage = "replying" /\ reply.response = response
        /\ reply.key = r.key /\ reply.digest = r.digest
    BY <1>1 DEF Call, Stages
  <1>3. /\ gone \in Call /\ gone.stage = "lost"
        /\ gone.key = r.key /\ gone.digest = r.digest
    BY <1>1 DEF Gone, Call, Stages
  <1>4. \/ call' = [call EXCEPT ![c] = reply] /\ active' = active
        \/ call' = [call EXCEPT ![c] = gone] /\ active' = active - 1
    BY <1>1 DEF Deliver
  <1>. HIDE DEF reply, gone
  <1>5. PICK R \in Call :
           /\ call' = [call EXCEPT ![c] = R] /\ R.key = r.key /\ R.digest = r.digest
           /\ \/ R.stage = "replying" /\ R.response = response /\ active' = active
              \/ R.stage = "lost" /\ active' = active - 1
    BY <1>2, <1>3, <1>4
  <1>6. PendingInv'
    <2>1. \A x \in Pending : call[x].key \in Keys /\ receipts[call[x].key] /= None
      BY DEF IInv, PendingInv, Pending, Sent, TypeOK, Call
    <2>2. \A x \in Pending : x /= c => call[x].key /= call[c].key
      BY DEF IInv, PendingInv
    <2>3. R.stage \notin InPending
      BY <1>5 DEF InPending
    <2>4. \A x \in Pending : x /= c =>
             /\ receipts'[call[x].key] /= None
             /\ receipts'[call[x].key].digest = receipts[call[x].key].digest
      BY <2>1, <2>2
    <2>. QED
      BY <1>1, <1>5, <2>3, <2>4, PendingLasts DEF IInv
  <1>7. OwnerInv'
    BY <1>1, <1>5, QuietStep DEF Owning, Owner
  <1>8. FateOf(c, R)'
    <2>1. Lasting
      BY <1>1, <1>5, StepLasts DEF IInv
    <2>2. TrueResult(response, R.key, R.digest)'
      BY <1>5, <2>1, ResultsLast
    <2>. QED
      BY <1>5, <2>2 DEF FateOf
  <1>. QED
    BY <1>1, <1>5, <1>6, <1>7, <1>8, RequestStep DEF IInv, TypeOK, Busy, InPending

\* A claim found on disk answers with its result, or as uncertain.
LEMMA AnswerFromDiskStep == ASSUME IInv, NEW c \in Calls, AnswerFromDisk(c) PROVE IInv'
  <1>1. /\ c \in Pending /\ call[c] \in Call /\ call[c].stage = "claimed" /\ FateOf(c, call[c])
        /\ UNCHANGED <<disk, exec, closed, up, restarts>>
    BY DEF AnswerFromDisk, Pending, InPending, IInv, TypeOK, Sent, FateInv
  <1>2. call[c].key \in Keys /\ call[c].digest \in Digests
    BY <1>1 DEF Call
  <1>3. CASE call[c].claim = "failed"
    <2>1. Deliver(c, Said("unknown")) /\ UNCHANGED receipts
      BY <1>3 DEF AnswerFromDisk
    <2>2. TrueResult(Said("unknown"), call[c].key, call[c].digest)
      BY SaidFacts DEF TrueResult
    <2>. QED
      BY <1>1, <2>1, <2>2, SaidFacts, DeliverStep DEF IInv, TypeOK
  <1>4. CASE call[c].claim /= "failed"
    <2>1. call[c].saved \in Receipt /\ TrueReceipt(call[c].saved, call[c].key)
      BY <1>1, <1>4 DEF AnswerFromDisk, FateOf
    <2>2. PICK response : response = ReceiptResponse(call[c].saved, call[c].digest, FALSE)
      OBVIOUS
    <2>3. /\ response \in Response /\ response.outcome /= "not_sent"
          /\ TrueResult(response, call[c].key, call[c].digest)
      BY <1>2, <2>1, <2>2, ReceiptResponseFacts
    <2>4. /\ receipts' = [receipts EXCEPT ![call[c].key] = call[c].saved]
          /\ Deliver(c, response)
      BY <1>4, <2>2 DEF AnswerFromDisk
    <2>5. /\ receipts' \in [Keys -> Receipt \cup {None}]
          /\ receipts'[call[c].key] = call[c].saved
          /\ \A k \in Keys \ {call[c].key} : receipts'[k] = receipts[k]
      BY <1>2, <2>1, <2>4 DEF IInv, TypeOK
    <2>6. \A k \in Keys : receipts'[k] = receipts[k] \/ TrueReceipt(receipts'[k], k)
      BY <2>1, <2>5
    <2>. QED
      BY <1>1, <2>3, <2>4, <2>5, <2>6, DeliverStep
  <1>. QED
    BY <1>3, <1>4

----------------------------------------------------------------------------
(* The session *)

\* The session takes, runs or drops a message that no reply has called busy: nobody else
\* becomes an owner.
LEMMA SilentStep ==
    ASSUME IInv, NEW c \in Calls, NEW state \in {"taken", "ran", "never"},
           exec[c] \in {"queued", "taken"}, Silently(c, state)
    PROVE  IInv'
  <1>1. /\ c \in Sent /\ call[c] \in Call /\ FateOf(c, call[c])
        /\ exec' = [exec EXCEPT ![c] = state]
        /\ UNCHANGED <<call, receipts, disk, active, closed, up, restarts>>
    BY DEF Silently, Becomes, IInv, FateInv, Sent, TypeOK
  <1>2. PICK R \in Call : R = call[c]
    BY <1>1
  <1>3. call' = [call EXCEPT ![c] = R] /\ R.key = call[c].key /\ R.digest = call[c].digest
    BY <1>1, <1>2 DEF IInv, TypeOK
  <1>4. /\ exec' \in [Calls -> {"none", "queued", "taken", "ran", "never"}]
        /\ exec'[c] = state /\ \A x \in Calls \ {c} : exec'[x] = exec[x]
    BY <1>1 DEF IInv, TypeOK
  <1>5. PendingInv' /\ OwnerInv'
    <2>1. R.stage \in InPending => c \in Pending
      BY <1>1, <1>2 DEF Pending
    <2>2. Owner(c)
      BY DEF Owner
    <2>. QED
      BY <1>1, <1>3, <1>4, <2>1, <2>2, QuietStep
  <1>6. FateOf(c, R)'
    <2>1. Lasting
      BY <1>1, <1>3, <1>4, StepLasts DEF IInv
    <2>2. FateOf(c, R)
      BY <1>1, <1>2
    <2>3. TrueResult(R.response, R.key, R.digest) => TrueResult(R.response, R.key, R.digest)'
      BY <2>1, ResultsLast
    <2>4. R.stage \notin {"claiming", "claimed"}
      BY <2>2 DEF FateOf
    <2>5. /\ R.stage \in {"answered", "finishing", "finished"}
               => R.response.outcome \notin {"busy", "not_sent"}
          /\ R.stage \in {"replying", "told"} => R.response.outcome /= "not_sent"
      BY <2>2 DEF FateOf
    <2>. QED
      BY <1>4, <2>2, <2>3, <2>4, <2>5 DEF FateOf
  <1>7. R.stage \in Busy <=> c \in Outstanding
    BY <1>1, <1>2 DEF Outstanding, Busy
  <1>. QED
    BY <1>1, <1>3, <1>4, <1>5, <1>6, <1>7, RequestStep DEF IInv, TypeOK

\* The worker's reply: a result of what ran, an uncertain one, or a busy reply about a
\* message that can no longer run.
LEMMA RespondStep ==
    ASSUME IInv, NEW c \in Calls, NEW outcome \in {"done", "error", "busy"},
           Respond(c, outcome),
           \/ UNCHANGED exec
           \/ exec[c] \in {"queued", "taken"} /\ Becomes(c, "never"),
           outcome = "done" => exec[c] = "ran",
           outcome = "busy" => exec[c] \in {"queued", "taken"} /\ Becomes(c, "never")
    PROVE  IInv'
  <1>. DEFINE r == call[c]
              said == [outcome |-> outcome, of |-> IF outcome = "done" THEN c ELSE None]
              fields == [r EXCEPT !.stage = "answered", !.response = said]
  <1>1. /\ r \in Call /\ r.stage = "dispatched" /\ c \in Sent
        /\ UNCHANGED <<receipts, disk, active, closed, up, restarts>>
    BY DEF Respond, Step, Sent, IInv, TypeOK
  <1>2. /\ said \in Response /\ said.outcome = outcome
        /\ outcome = "done" => said.of = c
    BY DEF Response
  <1>f. /\ fields \in Call /\ call' = [call EXCEPT ![c] = fields]
        /\ fields.stage = "answered" /\ fields.key = r.key /\ fields.digest = r.digest
        /\ fields.response = said
    BY <1>1, <1>2 DEF Respond, Step, Call, Stages, InPending
  <1>. HIDE DEF fields, said
  <1>3. PICK R \in Call :
           /\ call' = [call EXCEPT ![c] = R]
           /\ R.stage = "answered" /\ R.key = r.key /\ R.digest = r.digest /\ R.response = said
    BY <1>f
  <1>4. c \in Outstanding /\ c \in Pending /\ Owner(c)
    BY <1>1 DEF Outstanding, Pending, InPending, Owner, Owning
  <1>5. /\ exec' \in [Calls -> {"none", "queued", "taken", "ran", "never"}]
        /\ \A x \in Calls \ {c} : exec'[x] = exec[x]
        /\ exec[c] = "ran" => exec'[c] = "ran"
        /\ outcome = "busy" => exec'[c] = "never"
    BY <1>1 DEF IInv, TypeOK, Becomes
  <1>6. PendingInv' /\ OwnerInv'
    BY <1>1, <1>3, <1>4, <1>5, QuietStep
  <1>7. FateOf(c, R)'
    <2>1. c \in Sent' /\ call'[c] = R
      BY <1>3, UpdateFacts DEF IInv
    <2>2. TrueResult(R.response, R.key, R.digest)'
      BY <1>1, <1>2, <1>3, <1>5, <2>1 DEF TrueResult
    <2>. QED
      BY <1>2, <1>3, <1>5, <2>2 DEF FateOf
  <1>. QED
    BY <1>1, <1>3, <1>4, <1>5, <1>6, <1>7, RequestStep DEF IInv, TypeOK, Busy, InPending

\* What the session and the request's worker do.
LEMMA SessionStep == ASSUME IInv, NEW c \in Calls, Session(c) PROVE IInv'
  <1>1. CASE Withdraw(c)
    BY <1>1, RespondStep DEF Withdraw
  <1>2. CASE Take(c)
    BY <1>2, SilentStep DEF Take
  <1>3. CASE Decline(c)
    BY <1>3, SilentStep, RespondStep DEF Decline
  <1>4. CASE Execute(c)
    BY <1>4, SilentStep DEF Execute
  <1>5. CASE Settle(c)
    BY <1>5, RespondStep DEF Settle
  <1>6. CASE GiveUp(c)
    BY <1>6, RespondStep DEF GiveUp
  <1>. QED
    BY <1>1, <1>2, <1>3, <1>4, <1>5, <1>6 DEF Session

----------------------------------------------------------------------------
(* The answer *)

\* What the steps on an answered request rest on.
LEMMA AnsweredFacts ==
    ASSUME IInv, NEW c \in Sent, call[c].stage \in {"answered", "finishing", "finished"}
    PROVE  /\ c \in Calls /\ c \in Pending /\ c \in Outstanding
           /\ call[c] \in Call /\ call[c].key \in Keys /\ call[c].digest \in Digests
           /\ call[c].response \in Response
           /\ call[c].response.outcome \in {"busy", "not_sent"} => exec[c] = "never"
           /\ TrueResult(call[c].response, call[c].key, call[c].digest)
           /\ receipts[call[c].key] \in Receipt
           /\ receipts[call[c].key].digest = call[c].digest
  <1>1. c \in Calls /\ c \in Pending /\ c \in Outstanding /\ call[c] \in Call
    BY DEF IInv, TypeOK, Sent, Pending, Outstanding, InPending
  <1>2. call[c].key \in Keys /\ call[c].digest \in Digests
    BY <1>1 DEF Call
  <1>3. FateOf(c, call[c])
    BY <1>1 DEF IInv, FateInv, Sent
  <1>4. receipts[call[c].key] \in Receipt /\ receipts[call[c].key].digest = call[c].digest
    BY <1>1, <1>2 DEF IInv, PendingInv, TypeOK
  <1>. QED
    BY <1>1, <1>2, <1>3, <1>4 DEF FateOf

\* A receipt that takes a true result keeps its content's digest and stays true.
LEMMA ResultJoins ==
    ASSUME NEW k \in Keys, NEW e \in Receipt, NEW response \in Response,
           response.outcome /= "not_sent", TrueResult(response, k, e.digest)
    PROVE  /\ [e EXCEPT !.response = response] \in Receipt
           /\ [e EXCEPT !.response = response].digest = e.digest
           /\ TrueReceipt([e EXCEPT !.response = response], k)
  <1>1. /\ [e EXCEPT !.response = response] \in Receipt
        /\ [e EXCEPT !.response = response].digest = e.digest
        /\ [e EXCEPT !.response = response].response = response
    BY DEF Receipt
  <1>. QED
    BY <1>1 DEF TrueReceipt

\* A busy reply is one that nothing was sent; classifying adds nothing else.
LEMMA ClassifiedFacts ==
    ASSUME NEW response \in Response, NEW k, NEW d, TrueResult(response, k, d)
    PROVE  /\ Classified(response) \in Response
           /\ TrueResult(Classified(response), k, d)
           /\ Classified(response).outcome \in {"busy", "not_sent"}
                => response.outcome \in {"busy", "not_sent"}
  BY SaidFacts DEF Classified, TrueResult

\* The reply is classified and joins the receipt in memory.
LEMMA TakeReplyStep == ASSUME IInv, NEW c \in Calls, TakeReply(c) PROVE IInv'
  <1>. DEFINE r == call[c]
              k == r.key
              reply == Classified(r.response)
              fields == [r EXCEPT !.stage = "finishing", !.response = reply]
              e == [receipts[k] EXCEPT !.response = reply]
  <1>1. /\ r.stage = "answered" /\ c \in Sent
        /\ UNCHANGED <<disk, exec, active, closed, up, restarts>>
        /\ \/ receipts' = receipts
           \/ receipts' = [receipts EXCEPT ![k] = e] /\ reply.outcome /= "not_sent"
    BY DEF TakeReply, Step
  <1>2. /\ c \in Pending /\ c \in Outstanding /\ r \in Call /\ k \in Keys
        /\ reply \in Response
        /\ reply.outcome \in {"busy", "not_sent"} => exec[c] = "never"
        /\ TrueResult(reply, k, r.digest)
        /\ receipts[k] \in Receipt /\ receipts[k].digest = r.digest
    BY <1>1, AnsweredFacts, ClassifiedFacts
  <1>f. /\ fields \in Call /\ call' = [call EXCEPT ![c] = fields]
        /\ fields.stage = "finishing" /\ fields.key = k /\ fields.digest = r.digest
        /\ fields.response = reply
    BY <1>2 DEF TakeReply, Step, Call, Stages, InPending
  <1>. HIDE DEF fields, reply
  <1>3. PICK R \in Call :
           /\ call' = [call EXCEPT ![c] = R]
           /\ R.stage = "finishing" /\ R.key = k /\ R.digest = r.digest
           /\ R.response = reply
    BY <1>f
  <1>4. reply.outcome /= "not_sent" =>
           e \in Receipt /\ e.digest = r.digest /\ TrueReceipt(e, k)
    BY <1>2, ResultJoins
  <1>. HIDE DEF e
  <1>5. /\ receipts' \in [Keys -> Receipt \cup {None}]
        /\ \A x \in Keys \ {k} : receipts'[x] = receipts[x]
        /\ receipts'[k] \in Receipt /\ receipts'[k].digest = r.digest
        /\ receipts'[k] = receipts[k] \/ TrueReceipt(receipts'[k], k)
    BY <1>1, <1>2, <1>4 DEF IInv, TypeOK
  <1>6. PendingInv'
    <2>1. \A x \in Pending : /\ call[x].key \in Keys /\ receipts[call[x].key] /= None
                             /\ x /= c => call[x].key /= k
      BY <1>2 DEF IInv, PendingInv, Pending, Sent, TypeOK, Call
    <2>2. \A x \in Pending : /\ receipts'[call[x].key] /= None
                             /\ receipts'[call[x].key].digest = receipts[call[x].key].digest
      BY <1>2, <1>5, <2>1, NoneIsNoRecord
    <2>. QED
      BY <1>2, <1>3, <2>2, PendingLasts DEF IInv
  <1>7. OwnerInv'
    BY <1>1, <1>2, <1>3, QuietStep DEF Owner, Owning
  <1>8. FateOf(c, R)'
    <2>1. Lasting
      BY <1>1, <1>3, StepLasts DEF IInv
    <2>2. TrueResult(R.response, R.key, R.digest)'
      BY <1>2, <1>3, <2>1, ResultsLast
    <2>. QED
      BY <1>1, <1>2, <1>3, <2>2 DEF FateOf
  <1>. QED
    BY <1>1, <1>2, <1>3, <1>5, <1>6, <1>7, <1>8, RequestStep DEF IInv, TypeOK, Busy, InPending

\* What storing the reply does to its request, whatever it does to the file: only
\* the file of its key may change, and it may go only when nothing was sent.
LEMMA StoredStep ==
    ASSUME IInv, NEW c \in Calls, Step(c, "finishing", [call[c] EXCEPT !.stage = "finished"]),
           UNCHANGED <<receipts, exec, active, closed, up, restarts>>,
           disk' \in [Keys -> Receipt \cup {None}],
           \A x \in Keys \ {call[c].key} : disk'[x] = disk[x],
           \/ disk'[call[c].key] = disk[call[c].key]
           \/ disk'[call[c].key] = None /\ call[c].response.outcome = "not_sent"
           \/ /\ disk'[call[c].key] \in Receipt
              /\ disk'[call[c].key].digest = call[c].digest
              /\ TrueReceipt(disk'[call[c].key], call[c].key)
    PROVE  IInv'
  <1>. DEFINE r == call[c]
              k == r.key
              fields == [r EXCEPT !.stage = "finished"]
  <1>1. /\ r.stage = "finishing" /\ c \in Sent
    BY DEF Step
  <1>2. /\ c \in Pending /\ c \in Outstanding /\ r \in Call /\ k \in Keys
        /\ r.response \in Response
        /\ r.response.outcome \in {"busy", "not_sent"} => exec[c] = "never"
        /\ TrueResult(r.response, k, r.digest)
    BY <1>1, AnsweredFacts
  <1>f. /\ fields \in Call /\ call' = [call EXCEPT ![c] = fields]
        /\ fields.stage = "finished" /\ fields.key = k /\ fields.digest = r.digest
        /\ fields.response = r.response
    BY <1>2 DEF Step, Call, Stages, InPending
  <1>. HIDE DEF fields
  <1>3. PICK R \in Call :
           /\ call' = [call EXCEPT ![c] = R]
           /\ R.stage = "finished" /\ R.key = k /\ R.digest = r.digest
           /\ R.response = r.response
    BY <1>f
  <1>4. PendingInv'
    BY <1>2, <1>3, QuietStep
  <1>5. Lasting
    BY <1>3, StepLasts DEF IInv
  <1>6. OwnerInv'
    <2>1. Owner(c) /\ disk[k] /= None /\ disk[k].digest = r.digest
      BY <1>1 DEF Owner, Owning, IInv, OwnerInv
    <2>2. \A x \in Calls : Owner(x)' => Owner(x) /\ (x = c => exec[c] \in {"queued", "taken", "ran"})
      BY <1>3, <2>1, OthersOwn DEF IInv, Owning
    <2>3. \A x \in Calls : Owner(x) => /\ call[x].key \in Keys /\ disk[call[x].key] /= None
                                       /\ x /= c => call[x].key /= k
      BY <2>1 DEF IInv, OwnerInv, TypeOK, Sent, Call
    <2>4. \A x \in Calls : Owner(x)' =>
             /\ disk'[call[x].key] /= None
             /\ disk'[call[x].key].digest = disk[call[x].key].digest
      BY <1>2, <2>1, <2>2, <2>3, NoneIsNoRecord
    <2>. QED
      BY <1>5, <2>2, <2>4, OwnersLast DEF IInv
  <1>7. FateOf(c, R)'
    <2>1. TrueResult(R.response, R.key, R.digest)'
      BY <1>2, <1>3, <1>5, ResultsLast
    <2>. QED
      BY <1>2, <1>3, <2>1 DEF FateOf
  <1>8. \A x \in Keys : disk'[x] = disk[x] \/ TrueReceipt(disk'[x], x)
    BY <1>2 DEF TrueReceipt
  <1>. QED
    BY <1>2, <1>3, <1>4, <1>6, <1>7, <1>8, RequestStep DEF IInv, TypeOK, Busy, InPending

\* Store::finish: the result joins the claim, or the claim goes; or it fails.
LEMMA FinishStep == ASSUME IInv, NEW c \in Calls, Finish(c) \/ FinishFails(c) PROVE IInv'
  <1>1. CASE FinishFails(c)
    BY <1>1, StoredStep DEF FinishFails, IInv, TypeOK
  <1>2. CASE Finish(c)
    <2>. DEFINE k == call[c].key
                e == IF NotSent(c) THEN None ELSE [disk[k] EXCEPT !.response = call[c].response]
    <2>1. c \in Sent /\ call[c].stage = "finishing"
      BY <1>2 DEF Finish, Step
    <2>2. /\ k \in Keys /\ call[c].response \in Response
          /\ TrueResult(call[c].response, k, call[c].digest)
      BY <2>1, AnsweredFacts
    <2>3. disk[k] \in Receipt /\ disk[k].digest = call[c].digest
      BY <2>1, <2>2 DEF Owner, Owning, IInv, OwnerInv, TypeOK
    <2>4. \/ e = None /\ call[c].response.outcome = "not_sent"
          \/ e \in Receipt /\ e.digest = call[c].digest /\ TrueReceipt(e, k)
      BY <2>2, <2>3, ResultJoins DEF NotSent
    <2>5. disk' = [disk EXCEPT ![k] = e]
      BY <1>2, <2>2 DEF Finish, IInv, TypeOK
    <2>. HIDE DEF e
    <2>6. /\ disk' \in [Keys -> Receipt \cup {None}] /\ disk'[k] = e
          /\ \A x \in Keys \ {k} : disk'[x] = disk[x]
      BY <2>2, <2>4, <2>5 DEF IInv, TypeOK
    <2>. QED
      BY <1>2, <2>4, <2>6, StoredStep DEF Finish
  <1>. QED
    BY <1>1, <1>2

\* ReceiptEvent::Finished: the reply is delivered; the receipt of a message that was
\* not sent goes.
LEMMA FinishedStep == ASSUME IInv, NEW c \in Calls, Finished(c) PROVE IInv'
  <1>. DEFINE k == call[c].key
              e == [receipts[k] EXCEPT !.response = call[c].response]
  <1>1. /\ c \in Sent /\ call[c].stage = "finished" /\ Deliver(c, call[c].response)
        /\ UNCHANGED <<disk, exec, closed, up, restarts>>
        /\ \/ receipts' = receipts
           \/ receipts' = [receipts EXCEPT ![k] = None]
           \/ receipts' = [receipts EXCEPT ![k] = e] /\ call[c].response.outcome /= "not_sent"
    BY DEF Finished, NotSent
  <1>2. /\ c \in Pending /\ k \in Keys /\ call[c].response \in Response
        /\ call[c].response.outcome = "not_sent" => exec[c] = "never"
        /\ TrueResult(call[c].response, k, call[c].digest)
        /\ receipts[k] \in Receipt /\ receipts[k].digest = call[c].digest
    BY <1>1, AnsweredFacts
  <1>3. call[c].response.outcome /= "not_sent" => e \in Receipt /\ TrueReceipt(e, k)
    BY <1>2, ResultJoins
  <1>. HIDE DEF e
  <1>4. TrueReceipt(None, k)
    BY DEF TrueReceipt
  <1>5. /\ receipts' \in [Keys -> Receipt \cup {None}]
        /\ \A x \in Keys \ {k} : receipts'[x] = receipts[x]
        /\ receipts'[k] = receipts[k] \/ TrueReceipt(receipts'[k], k)
    BY <1>1, <1>2, <1>3, <1>4 DEF IInv, TypeOK
  <1>. QED
    BY <1>1, <1>2, <1>5, DeliverStep

\* A written reply ends its Work.
LEMMA WrittenStep == ASSUME IInv, NEW c \in Calls, Written(c) PROVE IInv'
  <1>. DEFINE r == call[c]
              fields == [r EXCEPT !.stage = "told"]
  <1>1. /\ r \in Call /\ r.stage = "replying" /\ c \in Sent /\ FateOf(c, r)
        /\ active' = active - 1
        /\ UNCHANGED <<receipts, disk, exec, closed, up, restarts>>
    BY DEF Written, Step, Sent, IInv, TypeOK, FateInv
  <1>f. /\ fields \in Call /\ call' = [call EXCEPT ![c] = fields]
        /\ fields.stage = "told" /\ fields.key = r.key /\ fields.digest = r.digest
        /\ fields.response = r.response
    BY <1>1 DEF Written, Step, Call, Stages
  <1>. HIDE DEF fields
  <1>3. PICK R \in Call :
           /\ call' = [call EXCEPT ![c] = R]
           /\ R.stage = "told" /\ R.key = r.key /\ R.digest = r.digest
           /\ R.response = r.response
    BY <1>f
  <1>4. c \in Outstanding
    BY <1>1 DEF Outstanding
  <1>5. PendingInv' /\ OwnerInv'
    BY <1>1, <1>3, QuietStep DEF InPending, Owner, Owning
  <1>6. FateOf(c, R)'
    <2>1. Lasting
      BY <1>1, <1>3, StepLasts DEF IInv
    <2>2. /\ r.response \in Response
          /\ r.response.outcome = "not_sent" => exec[c] \in {"none", "never"}
          /\ TrueResult(r.response, r.key, r.digest)
      BY <1>1 DEF FateOf
    <2>3. TrueResult(R.response, R.key, R.digest)'
      BY <1>3, <2>1, <2>2, ResultsLast
    <2>. QED
      BY <1>1, <1>3, <2>2, <2>3 DEF FateOf
  <1>. QED
    BY <1>1, <1>3, <1>4, <1>5, <1>6, RequestStep DEF IInv, TypeOK, Busy, InPending

\* A closed connection loses its unwritten reply; an accepted request stays.
LEMMA CloseStep == ASSUME IInv, NEW c \in Calls, Close(c) PROVE IInv'
  <1>. DEFINE r == call[c]
              fields == IF r.stage = "replying" THEN Gone(r) ELSE [r EXCEPT !.open = FALSE]
  <1>1. /\ r \in Call /\ r.stage \in InPending \cup {"replying"} /\ c \in Sent /\ FateOf(c, r)
        /\ active' = IF r.stage = "replying" THEN active - 1 ELSE active
        /\ UNCHANGED <<receipts, disk, exec, closed, up, restarts>>
    BY DEF Close, Sent, IInv, TypeOK, FateInv
  <1>2. fields \in Call /\ fields.key = r.key /\ fields.digest = r.digest
    BY <1>1 DEF Gone, Call, Stages
  <1>3. call' = [call EXCEPT ![c] = fields]
    BY <1>1 DEF Close, IInv, TypeOK
  <1>4. /\ r.stage = "replying" => fields.stage = "lost"
        /\ r.stage /= "replying" =>
              /\ fields.stage = r.stage /\ fields.claim = r.claim
              /\ fields.saved = r.saved /\ fields.response = r.response
    BY <1>1 DEF Gone, Call
  <1>. HIDE DEF fields
  <1>5. PICK R \in Call :
           /\ call' = [call EXCEPT ![c] = R] /\ R.key = r.key /\ R.digest = r.digest
           /\ r.stage = "replying" => R.stage = "lost"
           /\ r.stage /= "replying" =>
                 /\ R.stage = r.stage /\ R.claim = r.claim
                 /\ R.saved = r.saved /\ R.response = r.response
    BY <1>2, <1>3, <1>4
  <1>6. c \in Outstanding /\ (r.stage \in InPending => c \in Pending)
    BY <1>1 DEF Outstanding, Pending
  <1>7. Owning(R) => Owner(c)
    BY <1>1, <1>5 DEF Owning, Owner, InPending
  <1>8. R.stage \in InPending => c \in Pending
    BY <1>1, <1>5, <1>6 DEF InPending
  <1>9. exec[c] \in {"queued", "taken", "ran"} => Owner(c)
    BY DEF Owner
  <1>10. PendingInv' /\ OwnerInv'
    BY <1>1, <1>5, <1>7, <1>8, <1>9, QuietStep
  <1>11. FateOf(c, R)'
    <2>1. Lasting
      BY <1>1, <1>5, StepLasts DEF IInv
    <2>2. FateOf(c, R)
      BY <1>1, <1>5 DEF FateOf
    <2>. QED
      BY <1>1, <2>1, <2>2, ResultsLast DEF FateOf
  <1>12. R.stage \in Busy <=> r.stage /= "replying"
    BY <1>1, <1>5 DEF Busy, InPending
  <1>. QED
    BY <1>1, <1>5, <1>6, <1>10, <1>11, <1>12, RequestStep DEF IInv, TypeOK

----------------------------------------------------------------------------
(* Stopping, dying, starting *)

\* Freezing, thawing and starting touch no request; a freeze finds no Work.
LEMMA AdmissionStep == ASSUME IInv, Freeze \/ Thaw \/ Start PROVE IInv'
  <1>1. UNCHANGED <<call, receipts, disk, exec, active>>
    BY DEF Freeze, Thaw, Start
  <1>2. TypeOK'
    <2>1. closed' \in BOOLEAN /\ up' \in BOOLEAN
      BY Zenon DEF Freeze, Thaw, Start, IInv, TypeOK
    <2>2. restarts' \in 0..MaxRestarts
      BY DeliveryConstants DEF Freeze, Thaw, Start, IInv, TypeOK
    <2>. QED
      BY <1>1, <2>1, <2>2 DEF IInv, TypeOK
  <1>3. Outstanding' = Outstanding /\ Sent' = Sent /\ Pending' = Pending
    BY <1>1 DEF Outstanding, Sent, Pending
  <1>4. IsFiniteSet(Outstanding)
    BY FS_Subset, DeliveryConstants DEF Outstanding, Sent
  <1>5. Freeze => Outstanding = {}
    BY <1>4, FS_EmptySet DEF Freeze, IInv, WorkInv
  <1>6. WorkInv'
    BY <1>1, <1>3, <1>5 DEF Freeze, Thaw, Start, IInv, WorkInv
  <1>7. PendingInv' /\ OwnerInv'
    BY <1>1, <1>3 DEF IInv, PendingInv, OwnerInv, Owner, Owning
  <1>8. Lasting
    BY <1>1, <1>3 DEF Lasting
  <1>9. ReceiptInv'
    BY <1>1, <1>8, ReceiptsLast DEF IInv
  <1>10. FateInv'
    <2>1. \A c \in Calls : \A r : FateOf(c, r) => FateOf(c, r)'
      BY <1>1, <1>8, ResultsLast DEF FateOf
    <2>. QED
      BY <1>1, <2>1 DEF IInv, FateInv
  <1>. QED
    BY <1>2, <1>6, <1>7, <1>9, <1>10 DEF IInv

\* A lost request keeps its key and content, and nothing else.
LEMMA GoneFacts ==
    ASSUME NEW r \in Call
    PROVE  /\ Gone(r) \in Call /\ Gone(r) /= None
           /\ Gone(r).key = r.key /\ Gone(r).digest = r.digest /\ Gone(r).stage = "lost"
  <1>1. /\ Gone(r) \in Call
        /\ Gone(r).key = r.key /\ Gone(r).digest = r.digest /\ Gone(r).stage = "lost"
    BY DEF Gone, Call, Stages
  <1>. QED
    BY <1>1, NoneIsNoRecord

\* When the process ends, whoever may have run keeps the claim on disk.
LEMMA ExitStep == ASSUME IInv, Exit PROVE IInv'
  <1>1. /\ call' = [c \in Calls |-> IF c \in Sent /\ call[c].stage \in InPending \cup {"replying"}
                                    THEN Gone(call[c]) ELSE call[c]]
        /\ exec' = [c \in Calls |-> IF exec[c] \in {"queued", "taken"} THEN "never"
                                    ELSE exec[c]]
        /\ receipts' = [k \in Keys |-> None]
        /\ active' = 0 /\ closed' = FALSE /\ up' = FALSE /\ UNCHANGED <<disk, restarts>>
    BY DEF Exit
  <1>2. ASSUME NEW c \in Calls
        PROVE  /\ call[c] = None => call'[c] = None
               /\ call[c] /= None =>
                     /\ call'[c] \in Call /\ call'[c] /= None
                     /\ call'[c].key = call[c].key /\ call'[c].digest = call[c].digest
                     /\ \/ call'[c].stage = "lost"
                        \/ call'[c] = call[c] /\ call[c].stage \in {"told", "lost"}
    <2>1. CASE call[c] = None
      BY <1>1, <2>1 DEF Sent
    <2>2. CASE call[c] /= None
      <3>1. call[c] \in Call /\ call[c].stage \in Stages
        BY <2>2 DEF IInv, TypeOK, Call
      <3>. QED
        BY <1>1, <2>2, <3>1, GoneFacts DEF Stages, Sent
    <2>. QED
      BY <2>1, <2>2
  <1>3. Sent' = Sent
    BY <1>2 DEF Sent
  <1>4. Outstanding' = {} /\ Pending' = {}
    BY <1>2 DEF Outstanding, Pending, Sent, InPending
  <1>5. TypeOK'
    <2>1. Cardinality(Calls) \in Nat
      BY FS_CardinalityType, DeliveryConstants
    <2>2. call' \in [Calls -> Call \cup {None}]
      BY <1>1, <1>2 DEF IInv, TypeOK
    <2>3. exec' \in [Calls -> {"none", "queued", "taken", "ran", "never"}]
      BY <1>1 DEF IInv, TypeOK
    <2>4. /\ receipts' \in [Keys -> Receipt \cup {None}]
          /\ active' \in 0..Cardinality(Calls)
      BY <1>1, <2>1
    <2>5. closed' \in BOOLEAN /\ up' \in BOOLEAN
      BY <1>1, Zenon
    <2>. QED
      BY <1>1, <2>2, <2>3, <2>4, <2>5 DEF IInv, TypeOK
  <1>6. WorkInv'
    BY <1>1, <1>4, FS_EmptySet DEF WorkInv
  <1>7. PendingInv'
    BY <1>4 DEF PendingInv
  <1>8. \A c \in Calls : /\ exec[c] = "ran" <=> exec'[c] = "ran"
                         /\ exec'[c] \notin {"queued", "taken"}
    BY <1>1
  <1>9. Lasting
    BY <1>2, <1>3, <1>8 DEF Lasting, Sent
  <1>10. OwnerInv'
    <2>1. \A c \in Calls : Owner(c)' => exec[c] = "ran"
      BY <1>2, <1>8 DEF Owner, Owning, Sent
    <2>. QED
      BY <1>1, <1>9, <2>1, OwnersLast DEF IInv, OwnerInv, Owner
  <1>11. ReceiptInv'
    <2>1. \A k \in Keys : TrueReceipt(None, k)
      BY DEF TrueReceipt
    <2>. QED
      BY <1>1, <1>9, <2>1, ReceiptsLast DEF IInv
  <1>12. FateInv'
    <2>1. ASSUME NEW c \in Calls, call[c] = None PROVE exec'[c] = "none"
      BY <1>1, <2>1 DEF IInv, FateInv
    <2>2. ASSUME NEW c \in Calls, call[c] /= None PROVE FateOf(c, call[c])'
      <3>1. CASE call'[c].stage = "lost"
        BY <3>1 DEF FateOf
      <3>2. CASE call'[c] = call[c] /\ call[c].stage = "told"
        <4>1. FateOf(c, call[c])
          BY <2>2 DEF IInv, FateInv
        <4>2. /\ call[c].response \in Response
              /\ call[c].response.outcome = "not_sent" => exec[c] \in {"none", "never"}
              /\ TrueResult(call[c].response, call[c].key, call[c].digest)
          BY <3>2, <4>1 DEF FateOf
        <4>3. PICK r : r = call[c]
          OBVIOUS
        <4>4. TrueResult(r.response, r.key, r.digest)'
          BY <1>9, <4>2, <4>3, ResultsLast
        <4>5. call[c].response.outcome = "not_sent" => exec'[c] \in {"none", "never"}
          BY <1>1, <4>2
        <4>. QED
          BY <3>2, <4>2, <4>3, <4>4, <4>5 DEF FateOf
      <3>. QED
        BY <1>2, <2>2, <3>1, <3>2
    <2>. QED
      BY <1>2, <2>1, <2>2 DEF FateInv
  <1>. QED
    BY <1>5, <1>6, <1>7, <1>10, <1>11, <1>12 DEF IInv

----------------------------------------------------------------------------
(* The theorems *)

\* No request, no receipt, no Work.
LEMMA InvInit == Init => IInv
  <1>. SUFFICES ASSUME Init PROVE IInv
    OBVIOUS
  <1>1. Sent = {} /\ Outstanding = {} /\ Pending = {}
    BY DEF Init, Sent, Outstanding, Pending
  <1>2. Cardinality(Calls) \in Nat
    BY FS_CardinalityType, DeliveryConstants
  <1>3. TypeOK
    <2>1. closed \in BOOLEAN /\ up \in BOOLEAN
      BY Zenon DEF Init
    <2>. QED
      BY <1>2, <2>1, DeliveryConstants DEF Init, TypeOK
  <1>4. WorkInv
    BY <1>1, FS_EmptySet DEF Init, WorkInv
  <1>5. PendingInv /\ OwnerInv /\ FateInv
    BY <1>1 DEF Init, PendingInv, OwnerInv, Owner, FateInv
  <1>6. ReceiptInv
    BY DEF Init, ReceiptInv, TrueReceipt
  <1>. QED
    BY <1>3, <1>4, <1>5, <1>6 DEF IInv

\* A step that changes nothing.
LEMMA InvStutter == ASSUME IInv, UNCHANGED vars PROVE IInv'
  <1>1. TypeOK' /\ WorkInv' /\ PendingInv'
    BY DEF vars, IInv, TypeOK, WorkInv, PendingInv, Outstanding, Pending, Sent
  <1>2. OwnerInv'
    BY DEF vars, IInv, OwnerInv, Owner, Owning, Sent
  <1>3. ReceiptInv'
    BY DEF vars, IInv, ReceiptInv, TrueReceipt, TrueResult, Sent
  <1>4. FateInv'
    <2>1. UNCHANGED <<call, exec>> /\ Lasting
      BY DEF vars, Lasting, Sent
    <2>2. \A c \in Calls : \A r : FateOf(c, r) => FateOf(c, r)'
      BY <2>1, ResultsLast DEF FateOf
    <2>. QED
      BY <2>1, <2>2 DEF IInv, FateInv
  <1>. QED
    BY <1>1, <1>2, <1>3, <1>4 DEF IInv

\* Every step keeps the invariant.
LEMMA InvStep == IInv /\ [Next]_vars => IInv'
  <1>. SUFFICES ASSUME IInv, [Next]_vars PROVE IInv'
    OBVIOUS
  <1>1. ASSUME NEW c \in Calls, NEW k \in Keys, NEW d \in Digests,
               RefuseClosed(c, k, d) \/ RefuseBusy(c, k, d)
        PROVE  IInv'
    BY <1>1, RefuseStep
  <1>2. ASSUME NEW c \in Calls, NEW k \in Keys, NEW d \in Digests, AnswerFromMemory(c, k, d)
        PROVE  IInv'
    BY <1>2, MemoryStep
  <1>3. ASSUME NEW c \in Calls, NEW k \in Keys, NEW d \in Digests, Accept(c, k, d)
        PROVE  IInv'
    BY <1>3, AcceptStep
  <1>4. ASSUME NEW c \in Calls, Loop(c) PROVE IInv'
    BY <1>4, DispatchStep, AnswerFromDiskStep, TakeReplyStep, FinishedStep DEF Loop
  <1>5. ASSUME NEW c \in Calls, Tasks(c) PROVE IInv'
    BY <1>5, ClaimStep, ClaimFailsStep, FinishStep, WrittenStep DEF Tasks
  <1>6. ASSUME NEW c \in Calls, Session(c) \/ Close(c) PROVE IInv'
    BY <1>6, SessionStep, CloseStep
  <1>7. CASE Freeze \/ Thaw \/ Exit \/ Start
    BY <1>7, AdmissionStep, ExitStep
  <1>8. CASE UNCHANGED vars
    BY <1>8, InvStutter
  <1>. QED
    BY <1>1, <1>2, <1>3, <1>4, <1>5, <1>6, <1>7, <1>8 DEF Next

\* The invariant of the delivery of messages.
THEOREM Invariant == Spec => []IInv
  BY InvInit, InvStep, PTL DEF Spec

\* Every variable keeps its type: in particular no more Work is counted than there
\* are requests, and every entry given back was taken.
THEOREM TypeCorrect == Spec => []TypeOK
  <1>1. IInv => TypeOK
    BY DEF IInv
  <1>. QED
    BY <1>1, Invariant, PTL

\* However a message is retried, fails to be stored or outlives its daemon, it
\* reaches the harness at most once.
THEOREM RunsOnce == Spec => []AtMostOnce
  <1>1. IInv => AtMostOnce
    BY DEF IInv, OwnerInv, Owner, AtMostOnce
  <1>. QED
    BY <1>1, Invariant, PTL

\* A result given to a client is that of a message with its key and content.
THEOREM ResultIsOwn == Spec => []OwnResult
  <1>1. ASSUME IInv, NEW c \in Sent, call[c].stage = "told", call[c].response.outcome = "done"
        PROVE  TrueResult(call[c].response, call[c].key, call[c].digest)
    BY <1>1 DEF IInv, FateInv, FateOf, Sent
  <1>2. IInv => OwnResult
    BY <1>1 DEF OwnResult, TrueResult
  <1>. QED
    BY <1>2, Invariant, PTL

\* A daemon frozen for an upgrade has no request in hand and no reply to write.
THEOREM QuietWhenFrozen == Spec => []FrozenIsQuiet
  <1>1. ASSUME IInv, NEW c \in Sent PROVE call[c].stage \in Stages
    BY <1>1 DEF IInv, TypeOK, Sent, Call
  <1>2. IInv => FrozenIsQuiet
    BY <1>1 DEF FrozenIsQuiet, IInv, WorkInv, Outstanding, Stages
  <1>. QED
    BY <1>2, Invariant, PTL

----------------------------------------------------------------------------
(* What a client is told of a message that was not sent *)

Ran == {c \in Calls : exec[c] = "ran"}
Told(r) == r.stage = "told" /\ r.response.outcome = "not_sent"
Withdrawn == {c \in Sent : call[c].stage = "told" /\ call[c].response.outcome = "not_sent"}

\* A client told that nothing was sent is told so of a message that has not run.
LEMMA WithdrawnNotRan ==
    ASSUME IInv, NEW c \in Withdrawn PROVE c \in Calls /\ exec[c] \in {"none", "never"}
  BY DEF IInv, FateInv, FateOf, Withdrawn, Sent

\* A step that withdraws one request which has not run, or none, is a step of the promise.
LEMMA OneWithdrawn ==
    ASSUME IInv, NEW c \in Calls, NEW R, call' = [call EXCEPT ![c] = R],
           c \in Sent => call[c].stage /= "told",
           Ran' = Ran,
           Told(R) => R /= None /\ exec[c] /= "ran"
    PROVE  [Promise!Next]_(Promise!vars)
  <1>1. \A x \in Calls \ {c} : x \in Withdrawn' <=> x \in Withdrawn
    BY DEF IInv, TypeOK, Withdrawn, Sent
  <1>2. c \notin Withdrawn /\ (c \in Withdrawn' <=> Told(R))
    BY DEF IInv, TypeOK, Withdrawn, Sent, Told
  <1>3. Withdrawn' \subseteq Calls /\ Withdrawn \subseteq Calls
    BY DEF Withdrawn, Sent
  <1>4. CASE Told(R)
    <2>1. Withdrawn' = Withdrawn \cup {c} /\ c \notin Ran
      BY <1>1, <1>2, <1>3, <1>4 DEF Ran
    <2>. QED
      BY <1>2, <2>1 DEF Promise!Next, Promise!Withdraw, Ran, Withdrawn
  <1>5. CASE ~Told(R)
    <2>1. Withdrawn' = Withdrawn
      BY <1>1, <1>2, <1>3, <1>5
    <2>. QED
      BY <2>1 DEF Promise!vars, Ran, Withdrawn
  <1>. QED
    BY <1>4, <1>5

\* Refusals and answers from memory: only a refusal by a closed door is told at once.
LEMMA PromiseRequest ==
    ASSUME IInv, NEW c \in Calls, NEW k \in Keys, NEW d \in Digests,
           \/ RefuseClosed(c, k, d) \/ RefuseBusy(c, k, d)
           \/ AnswerFromMemory(c, k, d) \/ Accept(c, k, d)
    PROVE  [Promise!Next]_(Promise!vars)
  <1>1. PICK stage, response :
           /\ stage \in {"claiming", "replying", "told"}
           /\ call' = [call EXCEPT ![c] = Started(k, d, stage, response)]
           /\ stage = "told" => response = Said("not_sent")
    BY DEF RefuseClosed, RefuseBusy, AnswerFromMemory, Accept, NewCall
  <1>2. PICK R : R = Started(k, d, stage, response) /\ (Told(R) => R /= None)
    <2>1. Started(k, d, stage, response).stage = stage
      BY DEF Started
    <2>2. stage = "told" => Started(k, d, stage, response) \in Call
      BY <1>1, StartedFacts, SaidFacts DEF Stages
    <2>. QED
      BY <2>1, <2>2, NoneIsNoRecord DEF Told
  <1>3. c \notin Sent /\ exec[c] = "none" /\ UNCHANGED exec
    BY DEF RefuseClosed, RefuseBusy, AnswerFromMemory, Accept, Enter, IInv, FateInv, Sent
  <1>. QED
    BY <1>1, <1>2, <1>3, OneWithdrawn DEF Ran

\* A step of a request in hand that is not written tells its client nothing yet.
LEMMA PromiseUntold ==
    ASSUME IInv, NEW c \in Sent, NEW fields, call' = [call EXCEPT ![c] = fields],
           call[c].stage /= "told", fields.stage /= "told", Ran' = Ran
    PROVE  [Promise!Next]_(Promise!vars)
  BY OneWithdrawn DEF Told, Sent

\* The loop's steps: replies are handed on, none is written.
LEMMA PromiseDeliver ==
    ASSUME IInv, NEW c \in Pending, NEW response, Deliver(c, response), Ran' = Ran
    PROVE  [Promise!Next]_(Promise!vars)
  <1>1. c \in Sent /\ c \in Calls /\ call[c] \in Call /\ call[c].stage /= "told"
    BY DEF Pending, Sent, InPending, IInv, TypeOK
  <1>2. CASE call' = [call EXCEPT ![c] = Gone(@)]
    BY <1>1, <1>2, GoneFacts, PromiseUntold
  <1>3. CASE call' = [call EXCEPT ![c] = [@ EXCEPT !.stage = "replying", !.response = response,
                                                   !.claim = "none", !.saved = None]]
    <2>1. [call[c] EXCEPT !.stage = "replying", !.response = response,
                          !.claim = "none", !.saved = None].stage = "replying"
      BY <1>1 DEF Call
    <2>. QED
      BY <1>1, <1>3, <2>1, PromiseUntold
  <1>. QED
    BY <1>2, <1>3 DEF Deliver

\* The loop's steps: replies are handed on, none is written.
LEMMA PromiseLoop ==
    ASSUME IInv, NEW c \in Calls, Loop(c) PROVE [Promise!Next]_(Promise!vars)
  <1>1. CASE Dispatch(c)
    <2>1. /\ call[c] \in Call /\ c \in Sent /\ call[c].stage = "claimed"
          /\ exec[c] = "none"
      BY <1>1 DEF Dispatch, Step, IInv, TypeOK, Sent, FateInv, FateOf
    <2>2. [call[c] EXCEPT !.stage = "dispatched", !.claim = "none"].stage = "dispatched"
      BY <2>1 DEF Call
    <2>3. Ran' = Ran
      BY <1>1, <2>1 DEF Dispatch, Ran, IInv, TypeOK
    <2>. QED
      BY <1>1, <2>1, <2>2, <2>3, PromiseUntold DEF Dispatch, Step
  <1>2. CASE TakeReply(c)
    <2>1. call[c] \in Call /\ c \in Sent /\ call[c].stage = "answered" /\ Ran' = Ran
      BY <1>2 DEF TakeReply, Step, IInv, TypeOK, Sent, Ran
    <2>2. \A reply : [call[c] EXCEPT !.stage = "finishing", !.response = reply].stage = "finishing"
      BY <2>1 DEF Call
    <2>3. PICK reply :
             call' = [call EXCEPT ![c] = [call[c] EXCEPT !.stage = "finishing", !.response = reply]]
      BY <1>2 DEF TakeReply, Step
    <2>. QED
      BY <2>1, <2>2, <2>3, PromiseUntold
  <1>3. CASE AnswerFromDisk(c) \/ Finished(c)
    <2>1. c \in Pending /\ Ran' = Ran
      BY <1>3 DEF AnswerFromDisk, Finished, Pending, InPending, Ran
    <2>2. PICK response : Deliver(c, response)
      BY <1>3 DEF AnswerFromDisk, Finished
    <2>. QED
      BY <2>1, <2>2, PromiseDeliver
  <1>. QED
    BY <1>1, <1>2, <1>3 DEF Loop

\* The tasks' steps: only a reply that is written tells its client.
LEMMA PromiseTasks ==
    ASSUME IInv, NEW c \in Calls, Tasks(c) PROVE [Promise!Next]_(Promise!vars)
  <1>1. c \in Sent /\ call[c] \in Call /\ Ran' = Ran
    BY DEF Tasks, Claim, ClaimFails, Finish, FinishFails, Written, Step, IInv, TypeOK, Sent, Ran
  <1>2. CASE Written(c)
    <2>1. PICK R : R = [call[c] EXCEPT !.stage = "told"]
      OBVIOUS
    <2>2. /\ call' = [call EXCEPT ![c] = R] /\ call[c].stage = "replying"
          /\ R \in Call /\ R.response = call[c].response
      BY <1>1, <1>2, <2>1 DEF Written, Step, Call, Stages
    <2>3. Told(R) => R /= None /\ exec[c] /= "ran"
      BY <1>1, <2>2, NoneIsNoRecord DEF Told, IInv, FateInv, FateOf, Sent
    <2>. QED
      BY <1>1, <2>2, <2>3, OneWithdrawn
  <1>3. CASE Finish(c) \/ FinishFails(c)
    <2>1. [call[c] EXCEPT !.stage = "finished"].stage = "finished"
      BY <1>1 DEF Call
    <2>. QED
      BY <1>1, <1>3, <2>1, PromiseUntold DEF Finish, FinishFails, Step
  <1>4. CASE Claim(c) \/ ClaimFails(c)
    <2>1. PICK claim, saved :
             call' = [call EXCEPT ![c] = [call[c] EXCEPT !.stage = "claimed", !.claim = claim,
                                                         !.saved = saved]]
      <3>1. CASE Claim(c)
        BY <3>1 DEF Claim, Step
      <3>2. CASE ClaimFails(c)
        <4>1. [call[c] EXCEPT !.stage = "claimed", !.claim = "failed"]
              = [call[c] EXCEPT !.stage = "claimed", !.claim = "failed", !.saved = call[c].saved]
          BY <1>1 DEF Call
        <4>. QED
          BY <3>2, <4>1 DEF ClaimFails, Step
      <3>. QED
        BY <1>4, <3>1, <3>2
    <2>2. [call[c] EXCEPT !.stage = "claimed", !.claim = claim, !.saved = saved].stage = "claimed"
      BY <1>1 DEF Call
    <2>3. call[c].stage = "claiming"
      BY <1>4 DEF Claim, ClaimFails, Step
    <2>. QED
      BY <1>1, <2>1, <2>2, <2>3, PromiseUntold
  <1>. QED
    BY <1>2, <1>3, <1>4 DEF Tasks

\* A worker's reply is on its way, and tells its client nothing yet.
LEMMA PromiseReply ==
    ASSUME IInv, NEW c \in Calls, NEW outcome, Respond(c, outcome),
           \/ UNCHANGED exec
           \/ exec[c] \in {"queued", "taken"} /\ Becomes(c, "never")
    PROVE  [Promise!Next]_(Promise!vars)
  <1>1. c \in Sent /\ call[c] \in Call /\ call[c].stage = "dispatched"
    BY DEF Respond, Step, IInv, TypeOK, Sent
  <1>2. Ran' = Ran
    BY DEF Becomes, Ran, IInv, TypeOK
  <1>3. PICK said :
           call' = [call EXCEPT ![c] = [call[c] EXCEPT !.stage = "answered", !.response = said]]
    BY DEF Respond, Step
  <1>4. [call[c] EXCEPT !.stage = "answered", !.response = said].stage = "answered"
    BY <1>1 DEF Call
  <1>. QED
    BY <1>1, <1>2, <1>3, <1>4, PromiseUntold

\* The session's steps and a closed connection: running is the promise's Run.
LEMMA PromiseSession ==
    ASSUME IInv, NEW c \in Calls, Session(c) \/ Close(c)
    PROVE  [Promise!Next]_(Promise!vars)
  <1>1. CASE Execute(c)
    <2>1. c \notin Ran /\ c \notin Withdrawn
      BY <1>1, WithdrawnNotRan DEF Execute, Ran
    <2>2. Ran' = Ran \cup {c}
      BY <1>1 DEF Execute, Silently, Becomes, Ran, IInv, TypeOK
    <2>3. Withdrawn' = Withdrawn
      BY <1>1 DEF Execute, Silently, Withdrawn, Sent
    <2>. QED
      BY <2>1, <2>2, <2>3 DEF Promise!Next, Promise!Run, Ran, Withdrawn
  <1>2. ASSUME exec[c] \in {"queued", "taken"},
               Silently(c, "taken") \/ Silently(c, "never")
        PROVE  UNCHANGED Promise!vars
    <2>1. Ran' = Ran
      BY <1>2 DEF Silently, Becomes, Ran, IInv, TypeOK
    <2>2. Withdrawn' = Withdrawn
      BY <1>2 DEF Silently, Withdrawn, Sent
    <2>. QED
      BY <2>1, <2>2 DEF Promise!vars, Ran, Withdrawn
  <1>4. CASE Withdraw(c) \/ Take(c) \/ Decline(c) \/ Settle(c) \/ GiveUp(c)
    BY <1>2, <1>4, PromiseReply DEF Withdraw, Take, Decline, Settle, GiveUp
  <1>3. CASE Close(c)
    <2>1. /\ c \in Sent /\ call[c] \in Call /\ call[c].stage /= "told" /\ Ran' = Ran
      BY <1>3 DEF Close, IInv, TypeOK, Sent, Ran, InPending
    <2>2. \/ call' = [call EXCEPT ![c] = Gone(call[c])]
          \/ call' = [call EXCEPT ![c] = [call[c] EXCEPT !.open = FALSE]]
      BY <1>3, <2>1 DEF Close, IInv, TypeOK
    <2>3. Gone(call[c]).stage /= "told" /\ [call[c] EXCEPT !.open = FALSE].stage /= "told"
      BY <2>1, GoneFacts DEF Call
    <2>. QED
      BY <2>1, <2>2, <2>3, PromiseUntold
  <1>. QED
    BY <1>1, <1>3, <1>4 DEF Session

\* Stopping, dying and starting tell nobody anything.
LEMMA PromiseProcess ==
    ASSUME IInv, Freeze \/ Thaw \/ Exit \/ Start PROVE UNCHANGED Promise!vars
  <1>1. CASE Freeze \/ Thaw \/ Start
    BY <1>1 DEF Freeze, Thaw, Start, Promise!vars, Sent
  <1>2. CASE Exit
    <2>1. Ran' = Ran
      BY <1>2 DEF Exit, Ran
    <2>2. ASSUME NEW c \in Calls PROVE c \in Withdrawn' <=> c \in Withdrawn
      <3>1. CASE c \in Sent /\ call[c].stage \in InPending \cup {"replying"}
        <4>1. call[c] \in Call /\ call'[c] = Gone(call[c])
          BY <1>2, <3>1 DEF Exit, IInv, TypeOK, Sent
        <4>2. call'[c].stage = "lost" /\ call[c].stage /= "told"
          BY <3>1, <4>1, GoneFacts DEF InPending
        <4>. QED
          BY <4>2 DEF Withdrawn
      <3>2. CASE ~(c \in Sent /\ call[c].stage \in InPending \cup {"replying"})
        <4>1. call'[c] = call[c]
          BY <1>2, <3>2 DEF Exit
        <4>. QED
          BY <4>1 DEF Withdrawn, Sent
      <3>. QED
        BY <3>1, <3>2
    <2>3. Withdrawn' = Withdrawn
      BY <2>2 DEF Withdrawn, Sent
    <2>. QED
      BY <2>1, <2>3 DEF Promise!vars, Ran, Withdrawn
  <1>. QED
    BY <1>1, <1>2

\* A client told that its request sent nothing is told the truth of that request for ever,
\* by the ticket's race between take and withdrawal, the supervisor's busy answers and the
\* endpoint's classification of them: delivery keeps the promise of a ticket.
THEOREM TellsTheTruth == Spec => NotSentIsTrue
  <1>1. Init => Promise!Init
    BY DEF Init, Promise!Init, Sent
  <1>2. IInv /\ [Next]_vars => [Promise!Next]_(Promise!vars)
    <2>1. IInv /\ Next => [Promise!Next]_(Promise!vars)
      BY PromiseRequest, PromiseLoop, PromiseTasks, PromiseSession, PromiseProcess DEF Next
    <2>2. UNCHANGED vars => UNCHANGED Promise!vars
      BY DEF vars, Promise!vars, Sent
    <2>. QED
      BY <2>1, <2>2
  <1>. QED
    BY <1>1, <1>2, Invariant, PTL DEF Spec, NotSentIsTrue, Promise!Spec

=============================================================================
