------------------------------ MODULE Delivery ------------------------------
(***************************************************************************)
(* A message (turn.start, turn.steer) carried from a client of the daemon  *)
(* to its session and its answer back (src/src/rc/endpoint.rs,             *)
(* endpoint/receipts.rs, admission.rs, daemon/session_rpc.rs, ticket.rs).  *)
(*                                                                         *)
(* A client retries a message it has no answer for, on any connection and  *)
(* after any restart, under the same key.  A receipt in memory and a       *)
(* durable claim made before the message is dispatched keep a retry from   *)
(* running it again; a reply that certifies that nothing was sent gives    *)
(* the key back.  Every accepted request holds a piece of Work until its   *)
(* reply is written, and an upgrade stops the daemon only when none does.  *)
(***************************************************************************)
EXTENDS Integers, FiniteSets

CONSTANTS
    None,        \* Option::None
    Calls,       \* requests sent, each once
    Keys,        \* message keys: client_msg_id with its session and principal
    LongKeys,    \* those of more than 1024 bytes
    Digests,     \* contents a key is used with
    ReceiptCap,  \* receipts kept in memory
    MaxPending,  \* requests in flight
    MaxRestarts  \* bound: daemon processes after the first

ASSUME DeliveryConstants ==
    /\ ReceiptCap \in Nat \ {0} /\ MaxPending \in Nat \ {0} /\ MaxRestarts \in Nat
    /\ None \notin Calls /\ None \notin Keys /\ LongKeys \subseteq Keys
    /\ IsFiniteSet(Calls)

VARIABLES
    call,     \* each request, from its connection to its answer
    receipts, \* serve_described's receipts: key -> MessageReceipt, or None
    disk,     \* the receipt files: key -> Receipt, or None
    exec,     \* the ticket of each request, and what the session did with it
    active,   \* admission: pieces of Work
    closed,   \* admission: closed
    up,       \* the daemon runs
    restarts

vars == <<call, receipts, disk, exec, active, closed, up, restarts>>

\* `of`: the request whose effect a result reports.
\* "busy": SessionBusy, as the session's worker says it.
Response == [outcome : {"done", "error", "unknown", "busy", "not_sent", "pending", "conflict"},
             of : Calls \cup {None}]
Receipt == [digest : Digests, response : Response \cup {None}]

InPending == {"claiming", "claimed", "dispatched", "answered", "finishing", "finished"}
Stages == InPending \cup {"replying", "told", "lost"}

Call == [key : Keys, digest : Digests,
         stage : Stages,
         open : BOOLEAN,                       \* its connection is attached
         claim : {"none", "fresh", "saved", "failed"},   \* what Store::claim returned
         saved : Receipt \cup {None},
         response : Response \cup {None}]

ASSUME NoneIsNoRecord == None \notin Call \cup Receipt \cup Response

Sent == {c \in Calls : call[c] /= None}
Pending == {c \in Sent : call[c].stage \in InPending}
InFlight(k) == \E c \in Pending : call[c].key = k

Said(outcome) == [outcome |-> outcome, of |-> None]

Init ==
    /\ call = [c \in Calls |-> None]
    /\ receipts = [k \in Keys |-> None]
    /\ disk = [k \in Keys |-> None]
    /\ exec = [c \in Calls |-> "none"]
    /\ active = 0 /\ closed = FALSE /\ up = TRUE /\ restarts = 0

\* receipt_response: what a duplicate is told.
ReceiptResponse(entry, digest, inFlight) ==
    IF entry.digest /= digest THEN Said("conflict")
    ELSE IF entry.response /= None THEN entry.response
    ELSE IF inFlight THEN Said("pending") ELSE Said("unknown")

----------------------------------------------------------------------------
(* Requests *)

Started(k, d, stage, response) ==
    [key |-> k, digest |-> d, stage |-> stage, open |-> TRUE, claim |-> "none",
     saved |-> None, response |-> response]

NewCall(c, k, d, stage, response) ==
    call' = [call EXCEPT ![c] = Started(k, d, stage, response)]

\* Mutant: a receipt may go while its request is in flight.
DroppableInFlight(R) == {k \in Keys : R[k] /= None}

\* Receipts that may go: not those of requests in flight.
Droppable(R) == {k \in Keys : R[k] /= None /\ ~InFlight(k)}

Without(R, gone) == [k \in Keys |-> IF k \in gone THEN None ELSE R[k]]

\* What memory holds once receipts past their ten minutes are gone.
Retained == {Without(receipts, expired) : expired \in SUBSET Droppable(receipts)}

Full(R) == Cardinality({k \in Keys : R[k] /= None}) >= ReceiptCap

\* ... and, when it is full, the oldest that may go.
Evicted(R) == IF Full(R) THEN {Without(R, {k}) : k \in Droppable(R)} ELSE {R}

\* Admission is closed: nothing is accepted.
RefuseClosed(c, k, d) ==
    /\ up /\ call[c] = None /\ closed
    /\ NewCall(c, k, d, "told", Said("not_sent"))
    /\ UNCHANGED <<receipts, disk, exec, active, closed, up, restarts>>

\* Admission::enter, for each of the next three.
Enter == /\ up /\ ~closed /\ active' = active + 1
         /\ UNCHANGED <<disk, exec, closed, up, restarts>>

\* Too many requests in flight; those that carry no message count as well, so this
\* can happen at any time.
RefuseBusy(c, k, d) ==
    /\ call[c] = None
    /\ Enter
    /\ NewCall(c, k, d, "replying", Said("not_sent"))
    /\ UNCHANGED receipts

\* A receipt answers; or there is no room for one, or its key is too long to keep.
AnswerFromMemory(c, k, d) ==
    /\ call[c] = None /\ Cardinality(Pending) < MaxPending
    /\ Enter
    /\ \E kept \in Retained :
         \/ /\ kept[k] /= None /\ receipts' = kept
            /\ NewCall(c, k, d, "replying", ReceiptResponse(kept[k], d, InFlight(k)))
         \/ /\ kept[k] = None
            /\ \/ Evicted(kept) = {} /\ receipts' = kept
               \/ k \in LongKeys /\ receipts' \in Evicted(kept)
            /\ NewCall(c, k, d, "replying", Said("not_sent"))

\* A new message: its receipt is in memory and its claim on the way to disk.
Accept(c, k, d) ==
    /\ call[c] = None /\ Cardinality(Pending) < MaxPending /\ k \notin LongKeys
    /\ Enter
    /\ \E kept \in Retained :
         /\ kept[k] = None
         /\ \E room \in Evicted(kept) :
              receipts' = [room EXCEPT ![k] = [digest |-> d, response |-> None]]
    /\ NewCall(c, k, d, "claiming", None)

----------------------------------------------------------------------------
(* The claim *)

Step(c, from, fields) ==
    /\ up /\ c \in Sent /\ call[c].stage = from
    /\ call' = [call EXCEPT ![c] = fields]

\* Mutant: a claim is fresh whatever is on disk.
ClaimAlways(c) ==
    /\ Step(c, "claiming", [call[c] EXCEPT !.stage = "claimed", !.claim = "fresh"])
    /\ disk' = [disk EXCEPT ![call[c].key] = [digest |-> call[c].digest, response |-> None]]
    /\ UNCHANGED <<receipts, exec, active, closed, up, restarts>>

\* Store::claim, in its own task: read, then persist_noclobber.
Claim(c) ==
    LET k == call[c].key
    IN  /\ Step(c, "claiming", [call[c] EXCEPT !.stage = "claimed",
                                   !.claim = IF disk[k] = None THEN "fresh" ELSE "saved",
                                   !.saved = disk[k]])
        /\ disk' = IF disk[k] = None
                   THEN [disk EXCEPT ![k] = [digest |-> call[c].digest, response |-> None]]
                   ELSE disk
        /\ UNCHANGED <<receipts, exec, active, closed, up, restarts>>

\* It fails, before or after the file is in place.
ClaimFails(c) ==
    LET k == call[c].key
    IN  /\ Step(c, "claiming", [call[c] EXCEPT !.stage = "claimed", !.claim = "failed"])
        /\ disk' \in {disk} \cup
              IF disk[k] = None
              THEN {[disk EXCEPT ![k] = [digest |-> call[c].digest, response |-> None]]}
              ELSE {}
        /\ UNCHANGED <<receipts, exec, active, closed, up, restarts>>

\* Its connection or its daemon is gone: nobody will be told.
Gone(request) == [request EXCEPT !.stage = "lost", !.open = FALSE, !.claim = "none",
                                 !.saved = None, !.response = None]

\* deliver_response: the request leaves `pending`; its Work goes with the reply, or
\* ends here when the connection is gone or its output is full.
Deliver(c, response) ==
    \/ /\ call[c].open
       /\ call' = [call EXCEPT ![c] = [@ EXCEPT !.stage = "replying", !.response = response,
                                                !.claim = "none", !.saved = None]]
       /\ UNCHANGED active
    \/ /\ call' = [call EXCEPT ![c] = Gone(@)]
       /\ active' = active - 1

\* ReceiptEvent::Claimed, fresh: only now is the message dispatched.
Dispatch(c) ==
    /\ c \in Sent /\ call[c].claim = "fresh"
    /\ Step(c, "claimed", [call[c] EXCEPT !.stage = "dispatched", !.claim = "none"])
    /\ exec' = [exec EXCEPT ![c] = "queued"]
    /\ UNCHANGED <<receipts, disk, active, closed, up, restarts>>

\* ReceiptEvent::Claimed otherwise: answered from the file, or as uncertain.
AnswerFromDisk(c) ==
    /\ up /\ c \in Sent /\ call[c].stage = "claimed" /\ call[c].claim /= "fresh"
    /\ IF call[c].claim = "failed"
       THEN Deliver(c, Said("unknown")) /\ UNCHANGED receipts
       ELSE /\ receipts' = [receipts EXCEPT ![call[c].key] = call[c].saved]
            /\ Deliver(c, ReceiptResponse(call[c].saved, call[c].digest, FALSE))
    /\ UNCHANGED <<disk, exec, closed, up, restarts>>

----------------------------------------------------------------------------
(* The session: the worker of the request, the ticket, the supervisor *)

\* A worker replies once; what its request does afterwards no reply tells.
Respond(c, outcome) ==
    /\ Step(c, "dispatched", [call[c] EXCEPT !.stage = "answered",
           !.response = [outcome |-> outcome, of |-> IF outcome = "done" THEN c ELSE None]])
    /\ UNCHANGED <<receipts, disk, active, closed, up, restarts>>

Becomes(c, state) == exec' = [exec EXCEPT ![c] = state]

\* The session moves on with the message, and no reply tells.
Silently(c, state) ==
    /\ up /\ Becomes(c, state)
    /\ UNCHANGED <<call, receipts, disk, active, closed, up, restarts>>

\* Mutant: the worker reports a timeout without withdrawing the ticket.
WithdrawUnread(c) ==
    /\ exec[c] = "queued" /\ UNCHANGED exec
    /\ \E outcome \in {"busy", "error"} : Respond(c, outcome)

\* The ticket is still queued, or was never: Receipt::abandon wins on a timeout or a stop;
\* the request is not prepared or finds no place in the queue; or its session is gone or
\* no longer authorized, and the queue drops it.
Withdraw(c) ==
    /\ exec[c] = "queued" /\ Becomes(c, "never")
    /\ \E outcome \in {"busy", "error"} : Respond(c, outcome)

\* Ticket::accept: from here the message cannot be withdrawn.
Take(c) == exec[c] = "queued" /\ Silently(c, "taken")

\* Taken, and turned away before anything is written: another turn runs, or none does
\* (busy); the mode is the owner's, or the generation is spent (an error).  No reply when
\* none is awaited any more, or when the session goes with the ticket: the worker parks.
Decline(c) ==
    /\ exec[c] = "taken"
    /\ \/ Becomes(c, "never") /\ \E outcome \in {"busy", "error"} : Respond(c, outcome)
       \/ Silently(c, "never")

\* start_turn, steer: the message is written to the harness, perhaps after its worker
\* gave up on it.
Execute(c) == exec[c] = "taken" /\ Silently(c, "ran")

\* The harness confirms the message, or its outcome is an error or unknown.
Settle(c) ==
    /\ exec[c] = "ran" /\ UNCHANGED exec
    /\ \E outcome \in {"done", "error"} : Respond(c, outcome)

\* A taken message has no outcome in time: it may still take effect.
GiveUp(c) ==
    /\ exec[c] \in {"taken", "ran"} /\ UNCHANGED exec
    /\ Respond(c, "error")

----------------------------------------------------------------------------
(* The answer *)

NotSent(c) == call[c].response.outcome = "not_sent"

\* A busy reply certifies that nothing was written.
Classified(response) ==
    IF response.outcome = "busy" THEN Said("not_sent") ELSE response

\* The loop takes the reply from the outbound queue, classifies it and starts to store it.
TakeReply(c) ==
    LET reply == Classified(call[c].response)
    IN  /\ Step(c, "answered", [call[c] EXCEPT !.stage = "finishing", !.response = reply])
        /\ receipts' = IF reply.outcome = "not_sent" \/ receipts[call[c].key] = None
                       THEN receipts
                       ELSE [receipts EXCEPT ![call[c].key].response = reply]
        /\ UNCHANGED <<disk, exec, active, closed, up, restarts>>

\* Mutant: an uncertain reply gives the key back too.
FinishUncertain(c) ==
    /\ Step(c, "finishing", [call[c] EXCEPT !.stage = "finished"])
    /\ disk' = [disk EXCEPT ![call[c].key] =
                  IF call[c].response.outcome \in {"not_sent", "error"} THEN None
                  ELSE [@ EXCEPT !.response = call[c].response]]
    /\ UNCHANGED <<receipts, exec, active, closed, up, restarts>>

\* Mutant: the result is written without the claim's digest.
FinishWithoutDigest(c) ==
    /\ Step(c, "finishing", [call[c] EXCEPT !.stage = "finished"])
    /\ disk' = [disk EXCEPT ![call[c].key] =
                  IF NotSent(c) THEN None ELSE [digest |-> None, response |-> call[c].response]]
    /\ UNCHANGED <<receipts, exec, active, closed, up, restarts>>

\* Store::finish: the result joins the claim, or the claim is removed.
Finish(c) ==
    /\ Step(c, "finishing", [call[c] EXCEPT !.stage = "finished"])
    /\ disk' = [disk EXCEPT ![call[c].key] =
                  IF NotSent(c) THEN None ELSE [@ EXCEPT !.response = call[c].response]]
    /\ UNCHANGED <<receipts, exec, active, closed, up, restarts>>

FinishFails(c) ==
    /\ Step(c, "finishing", [call[c] EXCEPT !.stage = "finished"])
    /\ UNCHANGED <<receipts, disk, exec, active, closed, up, restarts>>

\* ReceiptEvent::Finished
Finished(c) ==
    /\ up /\ c \in Sent /\ call[c].stage = "finished"
    /\ receipts' = IF NotSent(c) THEN [receipts EXCEPT ![call[c].key] = None]
                   ELSE IF receipts[call[c].key] = None THEN receipts
                   ELSE [receipts EXCEPT ![call[c].key].response = call[c].response]
    /\ Deliver(c, call[c].response)
    /\ UNCHANGED <<disk, exec, closed, up, restarts>>

\* The reply is on the connection, and its Work ends.
Written(c) ==
    /\ Step(c, "replying", [call[c] EXCEPT !.stage = "told"])
    /\ active' = active - 1
    /\ UNCHANGED <<receipts, disk, exec, closed, up, restarts>>

\* Incoming::Closed: an accepted request stays pending; an unwritten reply is lost.
Close(c) ==
    /\ up /\ c \in Sent /\ call[c].stage \in InPending \cup {"replying"} /\ call[c].open
    /\ IF call[c].stage = "replying"
       THEN call' = [call EXCEPT ![c] = Gone(@)] /\ active' = active - 1
       ELSE call' = [call EXCEPT ![c].open = FALSE] /\ UNCHANGED active
    /\ UNCHANGED <<receipts, disk, exec, closed, up, restarts>>

----------------------------------------------------------------------------
(* Stopping for an upgrade, dying, starting *)

\* Mutant: replies not yet written do not hold the stop back.
FreezeUnwritten ==
    /\ up /\ ~closed /\ Pending = {}
    /\ closed' = TRUE
    /\ UNCHANGED <<call, receipts, disk, exec, active, up, restarts>>

\* Admission::freeze, for a safe stop
Freeze ==
    /\ up /\ ~closed /\ active = 0
    /\ closed' = TRUE
    /\ UNCHANGED <<call, receipts, disk, exec, active, up, restarts>>

\* Frozen dropped uncommitted: a blocker was found, or whoever asked is gone.
Thaw ==
    /\ up /\ closed
    /\ closed' = FALSE
    /\ UNCHANGED <<call, receipts, disk, exec, active, up, restarts>>

\* The process ends, by a committed stop, a stop somebody ordered, or a kill.
Exit ==
    /\ up
    /\ up' = FALSE
    /\ call' = [c \in Calls |->
                  IF c \in Sent /\ call[c].stage \in InPending \cup {"replying"}
                  THEN Gone(call[c]) ELSE call[c]]
    /\ exec' = [c \in Calls |-> IF exec[c] \in {"queued", "taken"} THEN "never"
                              ELSE exec[c]]
    /\ receipts' = [k \in Keys |-> None]
    /\ active' = 0 /\ closed' = FALSE
    /\ UNCHANGED <<disk, restarts>>

Start ==
    /\ ~up /\ restarts < MaxRestarts
    /\ up' = TRUE /\ restarts' = restarts + 1
    /\ UNCHANGED <<call, receipts, disk, exec, active, closed>>

----------------------------------------------------------------------------
Loop(c) == Dispatch(c) \/ AnswerFromDisk(c) \/ TakeReply(c) \/ Finished(c)
Tasks(c) == Claim(c) \/ ClaimFails(c) \/ Finish(c) \/ FinishFails(c) \/ Written(c)
Session(c) == Withdraw(c) \/ Take(c) \/ Decline(c) \/ Execute(c) \/ Settle(c) \/ GiveUp(c)

Next ==
    \/ \E c \in Calls, k \in Keys, d \in Digests :
          RefuseClosed(c, k, d) \/ RefuseBusy(c, k, d) \/ AnswerFromMemory(c, k, d)
            \/ Accept(c, k, d)
    \/ \E c \in Calls : Loop(c) \/ Tasks(c) \/ Session(c) \/ Close(c)
    \/ Freeze \/ Thaw \/ Exit \/ Start

Spec == Init /\ [][Next]_vars

----------------------------------------------------------------------------
(* Properties *)

\* The type of every variable.
TypeOK ==
    /\ call \in [Calls -> Call \cup {None}]
    /\ receipts \in [Keys -> Receipt \cup {None}]
    /\ disk \in [Keys -> Receipt \cup {None}]
    /\ exec \in [Calls -> {"none", "queued", "taken", "ran", "never"}]
    /\ active \in 0..Cardinality(Calls)
    /\ closed \in BOOLEAN /\ up \in BOOLEAN /\ restarts \in 0..MaxRestarts

\* A message reaches the harness at most once, however often it is retried, whatever
\* fails to be stored and wherever the daemon dies.
AtMostOnce ==
    \A c1, c2 \in Calls :
        exec[c1] = "ran" /\ exec[c2] = "ran" /\ call[c1].key = call[c2].key => c1 = c2

\* A result a client is given is that of its own message: same key, same content.
OwnResult ==
    \A c \in Sent :
        call[c].stage = "told" /\ call[c].response.outcome = "done" =>
            LET of == call[c].response.of
            IN  exec[of] = "ran" /\ call[of].key = call[c].key /\ call[of].digest = call[c].digest

\* Admission's count is the requests whose work or reply is outstanding: a daemon
\* stopped for an upgrade loses no accepted request and no reply.
FrozenIsQuiet ==
    up /\ closed => \A c \in Sent : call[c].stage \in {"told", "lost"}

\* A client told that a request sent nothing is told the truth of that request, and for
\* ever, whatever the race between the worker's timeout and the session's take
\* (`Instruction`, as a ticket promises it of an instruction).  Another request of the same
\* message may have run: AtMostOnce is what a retry relies on.
Promise == INSTANCE Instruction WITH
    Requests <- Calls,
    ran <- {c \in Calls : exec[c] = "ran"},
    withdrawn <- {c \in Sent : call[c].stage = "told" /\ call[c].response.outcome = "not_sent"}

NotSentIsTrue == Promise!Spec
=============================================================================
