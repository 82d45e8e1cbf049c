--------------------------- MODULE IdempotentCalls ---------------------------
(***************************************************************************)
(* State-changing HTTP calls to the API server: the idempotency middleware *)
(* keeps an entry per key in Redis around the handler of the route, here   *)
(* OrderController.create (route "orders", the middleware mounted once) or *)
(* PaymentController.processPayment (route "payments", mounted twice).     *)
(*                                                                         *)
(* An intent is what a person or an offline queue wants done; a call that  *)
(* repeats one carries the intent's key, or a new key each time, as        *)
(* fetchApi of the web clients makes one.  Statements of several instances *)
(* of the server interleave; an answer reaches the client before or after  *)
(* the Redis command that records it, which nobody awaits.                 *)
(***************************************************************************)
EXTENDS Naturals, FiniteSets

CONSTANTS
  Calls,        \* HTTP calls
  Intents,      \* what the calls are for
  None,         \* no intent, no call
  Route,        \* "orders" or "payments"
  FreshKeys,    \* every call has a key of its own
  Faults,       \* calls crash, Redis fails, entries expire
  MaxInFlight   \* bound: calls that overlap

ASSUME NoneAssumption == None \notin Calls \cup Intents
ASSUME KeyAssumption == Calls \cap Intents = {}
ASSUME RouteAssumption == Route \in {"orders", "payments"}
ASSUME SwitchAssumption == FreshKeys \in BOOLEAN /\ Faults \in BOOLEAN
ASSUME BoundAssumption == MaxInFlight \in Nat \ {0}

VARIABLES
  intent,   \* the intent of each call, None before it is sent
  entry,    \* the Redis entry of each key
  created,  \* the calls whose INSERT into orders committed
  pc,       \* the statement each call executes next
  layer,    \* how many times the middleware has patched res.send of the call
  answer    \* the answer each call received

vars == <<intent, entry, created, pc, layer, answer>>

Keys == Calls \cup Intents
KeyOf(c) == IF FreshKeys THEN c ELSE intent[c]
Same(c, d) == KeyOf(c) = KeyOf(d)

Answer(status, call) == [status |-> status, of |-> call]
Unanswered == Answer("none", None)
Free == Answer("free", None)
InProgress == Answer("in_progress", None)

MountsTwice == 2  \* fault: the order route repeats the middleware too
Mounts == IF Route = "payments" THEN 2 ELSE 1

Busy == {"gate", "lock", "handle", "respond", "record"}
InFlight == {c \in Calls : pc[c] \in Busy}

Init ==
  /\ intent = [c \in Calls |-> None]
  /\ entry = [k \in Keys |-> Free]
  /\ created = {}
  /\ pc = [c \in Calls |-> "idle"]
  /\ layer = [c \in Calls |-> 0]
  /\ answer = [c \in Calls |-> Unanswered]

Goto(c, place) == pc' = [pc EXCEPT ![c] = place]

(* res.send: a patched one also issues the command that records the answer. *)
Reply(c, x) ==
  /\ answer' = [answer EXCEPT ![c] = x]
  /\ Goto(c, IF layer[c] > 0 THEN "record" ELSE "done")

-----------------------------------------------------------------------------
(* Faulty variants of actions below: what each property must notice. *)

InsertUnguarded(c) ==  \* no unique index on (tenant_id, idempotency_key)
  /\ pc[c] = "handle" /\ Route = "orders"
  /\ created' = created \cup {c}
  /\ Goto(c, "respond")
  /\ UNCHANGED <<intent, entry, layer, answer>>

DuplicateIsSuccess(c) ==  \* the unique violation is answered like an insert
  /\ pc[c] = "handle" /\ Route = "orders"
  /\ \E d \in created : Same(c, d)
  /\ Reply(c, Answer("created", c))
  /\ UNCHANGED <<intent, entry, created, layer>>

ExpireCompleted(k) ==  \* "in progress" is set without an expiry
  /\ Faults /\ entry[k] \notin {Free, InProgress}
  /\ entry' = [entry EXCEPT ![k] = Free]
  /\ UNCHANGED <<intent, created, pc, layer, answer>>

-----------------------------------------------------------------------------
(* With a key per call it is a person who repeats it, and the screen lets  *)
(* them only after the previous call failed or was lost.                   *)
MayRepeat(i) ==
  FreshKeys => \A d \in Calls : intent[d] = i =>
                 pc[d] \in {"done", "lost"} /\ answer[d].status # "created"

Send(c) ==
  /\ pc[c] = "idle"
  /\ Cardinality(InFlight) < MaxInFlight
  /\ \E i \in Intents : MayRepeat(i) /\ intent' = [intent EXCEPT ![c] = i]
  /\ Goto(c, "gate")
  /\ UNCHANGED <<entry, created, layer, answer>>

(* redis.get: run the call, refuse it, or replay the recorded answer. *)
Gate(c) ==
  LET e == entry[KeyOf(c)] IN
  /\ pc[c] = "gate"
  /\ \/ e = Free /\ Goto(c, "lock") /\ UNCHANGED answer
     \/ e = InProgress /\ Reply(c, Answer("concurrent", None))
     \/ e \notin {Free, InProgress} /\ Reply(c, e)
  /\ UNCHANGED <<intent, entry, created, layer>>

(* redis.set ... EX 60, whatever the entry is by now; then the next mount or the handler. *)
Lock(c) ==
  /\ pc[c] = "lock"
  /\ entry' = [entry EXCEPT ![KeyOf(c)] = InProgress]
  /\ layer' = [layer EXCEPT ![c] = @ + 1]
  /\ Goto(c, IF layer[c] + 1 < Mounts THEN "gate" ELSE "handle")
  /\ UNCHANGED <<intent, created, answer>>

(* A Redis command fails: 500 without running the handler; a SET may have been applied. *)
CacheFails(c) ==
  /\ Faults
  /\ \/ pc[c] = "gate" /\ UNCHANGED entry
     \/ pc[c] = "lock" /\ entry' \in {entry, [entry EXCEPT ![KeyOf(c)] = InProgress]}
  /\ Reply(c, Answer("error", None))
  /\ UNCHANGED <<intent, created, layer>>

(* createOrderWithItems commits ... *)
Insert(c) ==
  /\ pc[c] = "handle" /\ Route = "orders"
  /\ \A d \in created : ~Same(c, d)
  /\ created' = created \cup {c}
  /\ Goto(c, "respond")
  /\ UNCHANGED <<intent, entry, layer, answer>>

(* ... or violates the unique index, which the error handler answers with 500. *)
Duplicate(c) ==
  /\ pc[c] = "handle" /\ Route = "orders"
  /\ \E d \in created : Same(c, d)
  /\ Reply(c, Answer("error", None))
  /\ UNCHANGED <<intent, entry, created, layer>>

(* No permission, a body that does not parse, an unknown menu item.  The   *)
(* payment handler never gets a key from the request and always refuses.   *)
Refuse(c) ==
  /\ pc[c] = "handle"
  /\ \/ Reply(c, Answer("refused", None))
     \/ Route = "orders" /\ Reply(c, Answer("error", None))
  /\ UNCHANGED <<intent, entry, created, layer>>

Respond(c) ==
  /\ pc[c] = "respond"
  /\ Reply(c, Answer("created", c))
  /\ UNCHANGED <<intent, entry, created, layer>>

(* The command issued by the patched res.send reaches Redis: SET for 24 hours, DEL after 5xx. *)
Record(c) ==
  /\ pc[c] = "record"
  /\ entry' = [entry EXCEPT ![KeyOf(c)] = IF answer[c].status = "error" THEN Free ELSE answer[c]]
  /\ Goto(c, "done")
  /\ UNCHANGED <<intent, created, layer, answer>>

RecordFails(c) ==
  /\ Faults /\ pc[c] = "record"
  /\ Goto(c, "done")
  /\ UNCHANGED <<intent, entry, created, layer, answer>>

(* The process ends, or the connection to the client is lost before the answer. *)
Crash(c) ==
  /\ Faults /\ pc[c] \in {"gate", "lock", "handle", "respond"}
  /\ Goto(c, "lost")
  /\ UNCHANGED <<intent, entry, created, layer, answer>>

(* 60 seconds after the lock, or 24 hours after the answer. *)
Expire(k) ==
  /\ Faults /\ entry[k] # Free
  /\ entry' = [entry EXCEPT ![k] = Free]
  /\ UNCHANGED <<intent, created, pc, layer, answer>>

-----------------------------------------------------------------------------
Handle(c) == Insert(c) \/ Duplicate(c) \/ Refuse(c)

Next ==
  \/ \E c \in Calls :
       \/ Send(c) \/ Gate(c) \/ Lock(c) \/ CacheFails(c) \/ Handle(c)
       \/ Respond(c) \/ Record(c) \/ RecordFails(c) \/ Crash(c)
  \/ \E k \in Keys : Expire(k)

Spec == Init /\ [][Next]_vars

(* Redis expires what it was told to expire; the server may do nothing at all. *)
FairSpec == Spec /\ \A k \in Keys : WF_vars(Expire(k))

-----------------------------------------------------------------------------
(* Calls, answers and entries; an entry is never a server error. *)
Statuses == {"created", "refused", "concurrent", "error"}
AnswerType == [status : Statuses \cup {"none"}, of : Calls \cup {None}]
EntryType ==
  [status : (Statuses \ {"error"}) \cup {"free", "in_progress"}, of : Calls \cup {None}]

TypeOK ==
  /\ intent \in [Calls -> Intents \cup {None}]
  /\ entry \in [Keys -> EntryType]
  /\ created \in SUBSET Calls
  /\ pc \in [Calls -> Busy \cup {"idle", "done", "lost"}]
  /\ layer \in [Calls -> 0..2]
  /\ answer \in [Calls -> AnswerType]

(* A call that is told its order was created, fresh or from the entry of   *)
(* its key, is told of the one order that its key created.                 *)
SuccessIsTheOrder ==
  \A c \in Calls : answer[c].status = "created" =>
    answer[c].of \in created /\ Same(c, answer[c].of)

(* A call is refused as concurrent only if another one has used its key.   *)
RefusedOnlyIfOther ==
  \A c \in Calls : answer[c].status = "concurrent" =>
    \E d \in Calls \ {c} : pc[d] # "idle" /\ Same(c, d)

(* A crashed call does not block its key for ever: "in progress" ends.     *)
KeyFreed == \A k \in Keys : entry[k] = InProgress ~> entry[k] # InProgress

(* An intent creates at most one order.  With a key per call (FreshKeys),  *)
(* as the clients make them (apiClient.ts), it does not hold: the order    *)
(* whose answer was lost is created again.  With a shared key it is part   *)
(* of OrderedOnce.                                                         *)
OneOrderPerIntent == \A c, d \in created : intent[c] = intent[d] => c = d

(* Once a call of a key was told "created", every later answer under that  *)
(* key is the same, or says that another call is still running.            *)
SuccessReplayed ==
  [][\A c, d \in Calls :
       /\ answer[c] = Unanswered /\ answer'[c] # Unanswered
       /\ answer[d].status = "created" /\ Same(c, d)
       => answer'[c] \in {answer[d], Answer("concurrent", None)}]_vars

(* The promise of OrderOnce, when the calls of an intent share a key. *)
Once == INSTANCE OrderOnce
OrderedOnce == Once!Spec

-----------------------------------------------------------------------------
(* Why the safety properties hold: an inductive invariant in named parts. *)

(* A call has an intent once it is sent, and no answer until it has        *)
(* replied; it reaches a gate only while a mount is left.                  *)
CallsProgress ==
  \A c \in Calls :
    /\ pc[c] \in {"idle", "gate", "lock"} => layer[c] < Mounts
    /\ intent[c] = None <=> pc[c] = "idle"
    /\ pc[c] \in {"record", "done"} <=> answer[c] # Unanswered
    /\ answer[c].status = "none" => answer[c] = Unanswered

(* A call has created an order only after the handler, and has if it is about to say so. *)
CreatedByHandler ==
  \A c \in Calls :
    /\ pc[c] = "respond" => c \in created
    /\ c \in created => pc[c] \in {"respond", "record", "done", "lost"}

(* What a call carries beside its status: the order, if there is one. *)
OnlySuccessNames ==
  /\ \A c \in Calls : answer[c].status # "created" => answer[c].of = None
  /\ \A k \in Keys : entry[k].status # "created" => entry[k].of = None

(* A recorded success is that of the order that the entry's key created. *)
EntryIsTheOrder ==
  \A k \in Keys : entry[k].status = "created" =>
    entry[k].of \in created /\ KeyOf(entry[k].of) = k

(* The unique index: a key creates at most one order. *)
OneOrderPerKey == \A c, d \in created : Same(c, d) => c = d

IndInv ==
  /\ TypeOK
  /\ CallsProgress
  /\ CreatedByHandler
  /\ OnlySuccessNames
  /\ EntryIsTheOrder
  /\ SuccessIsTheOrder
  /\ OneOrderPerKey

(* On the order route a call that has left the middleware's gate never comes *)
(* back to it; an entry that refuses, or a recorded refusal, is the work of  *)
(* such a call, so it is not the one that reads the entry.                   *)
PastGate(c) == pc[c] \notin {"idle", "gate", "lock"}
RefusersPast ==
  \A k \in Keys : entry[k].status \in {"in_progress", "concurrent"} =>
    \E d \in Calls : PastGate(d) /\ KeyOf(d) = k

OtherInv == RefusersPast /\ RefusedOnlyIfOther
=============================================================================
