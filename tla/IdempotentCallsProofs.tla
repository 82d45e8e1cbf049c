----------------------- MODULE IdempotentCallsProofs -----------------------
(***************************************************************************)
(* What the middleware and the unique index of orders guarantee for any    *)
(* number of calls, intents, faults and overlaps: the inductive invariant  *)
(* of IdempotentCalls, its safety properties, and the refinement of        *)
(* OrderOnce when the calls of an intent share a key.                      *)
(***************************************************************************)
EXTENDS IdempotentCalls, TLAPS

(* The key of a call that was sent is a key. *)
LEMMA KeyType ==
  ASSUME TypeOK, NEW c \in Calls, intent[c] # None
  PROVE  KeyOf(c) \in Keys
BY DEF TypeOK, KeyOf, Keys

(* The answers that the code makes up itself. *)
LEMMA AnswerTypes ==
  /\ \A s \in Statuses : Answer(s, None) \in AnswerType
  /\ \A c \in Calls : Answer("created", c) \in AnswerType
  /\ Unanswered \in AnswerType
  /\ Free \in EntryType /\ InProgress \in EntryType
BY DEF Answer, AnswerType, EntryType, Statuses, Unanswered, Free, InProgress

(* Nothing is sent, created or recorded at first. *)
LEMMA InitInv == Init => IndInv
<1> SUFFICES ASSUME Init PROVE IndInv
  OBVIOUS
<1>1. TypeOK
  BY AnswerTypes DEF Init, TypeOK, Busy
<1>2. CallsProgress /\ CreatedByHandler
  BY DEF Init, CallsProgress, CreatedByHandler, Mounts
<1>3. OnlySuccessNames /\ EntryIsTheOrder /\ SuccessIsTheOrder /\ OneOrderPerKey
  BY DEF Init, OnlySuccessNames, EntryIsTheOrder, SuccessIsTheOrder, OneOrderPerKey,
         Unanswered, Free, Answer
<1> QED
  BY <1>1, <1>2, <1>3 DEF IndInv

(* A call is sent: it gets an intent, which nothing else depends on yet. *)
LEMMA SendInv ==
  ASSUME IndInv, NEW c \in Calls, Send(c)
  PROVE  IndInv'
<1>1. PICK i \in Intents : intent' = [intent EXCEPT ![c] = i]
  BY DEF Send
<1>2. pc[c] = "idle" /\ pc' = [pc EXCEPT ![c] = "gate"]
  BY DEF Send, Goto
<1>3. UNCHANGED <<entry, created, layer, answer>>
  BY DEF Send
<1>4. TypeOK'
  BY <1>1, <1>2, <1>3 DEF IndInv, TypeOK, Busy
<1>5. CallsProgress'
  BY <1>1, <1>2, <1>3, NoneAssumption DEF IndInv, TypeOK, CallsProgress, Unanswered, Answer
<1>6. CreatedByHandler' /\ OnlySuccessNames'
  BY <1>1, <1>2, <1>3 DEF IndInv, TypeOK, CreatedByHandler, OnlySuccessNames
<1>7. c \notin created /\ answer[c] = Unanswered
  BY <1>2 DEF IndInv, CreatedByHandler, CallsProgress
<1>8. \A d \in Calls \ {c} : KeyOf(d)' = KeyOf(d)
  BY <1>1 DEF IndInv, TypeOK, KeyOf
<1>9. created \subseteq Calls
  BY DEF IndInv, TypeOK
<1>10. EntryIsTheOrder' /\ SuccessIsTheOrder' /\ OneOrderPerKey'
  BY <1>3, <1>7, <1>8, <1>9
     DEF IndInv, EntryIsTheOrder, SuccessIsTheOrder, OneOrderPerKey, Same, Unanswered, Answer
<1> QED
  BY <1>4, <1>5, <1>6, <1>10 DEF IndInv

(* The actions after Send leave every key as it is. *)
LEMMA KeysStay ==
  ASSUME UNCHANGED intent
  PROVE  \A c : KeyOf(c)' = KeyOf(c)
BY DEF KeyOf

(* Entries stay or become markers: they are locked, dropped or expire. *)
Marked ==
  /\ entry' \in [Keys -> EntryType]
  /\ \A k \in Keys : entry'[k] \in {entry[k], Free, InProgress}

(* Markers name no order, so entries stay true while none is created. *)
LEMMA MarkedInv ==
  ASSUME IndInv, Marked, created' = created, \A d : KeyOf(d)' = KeyOf(d)
  PROVE  /\ EntryIsTheOrder'
         /\ OneOrderPerKey'
         /\ \A k \in Keys : entry'[k].status # "created" => entry'[k].of = None
BY DEF IndInv, Marked, EntryIsTheOrder, OneOrderPerKey, OnlySuccessNames, Same, Free,
       InProgress, Answer

(* An entry that stays is one of these cases. *)
LEMMA EntryStays ==
  ASSUME TypeOK, UNCHANGED entry
  PROVE  Marked
BY DEF TypeOK, Marked

(* An answer is true of its call: it names the order of the call's key, or none. *)
TrueAnswer(c, x) ==
  /\ x \in AnswerType /\ x.status # "none"
  /\ x.status # "created" => x.of = None
  /\ x.status = "created" => x.of \in created /\ Same(c, x.of)

(* An answer that names no order is true of every call. *)
LEMMA FailureTrue ==
  ASSUME NEW c, NEW s \in Statuses \ {"created"}
  PROVE  TrueAnswer(c, Answer(s, None))
BY AnswerTypes DEF TrueAnswer, Answer, Statuses

(* A true answer keeps the invariant, while entries at most become markers. *)
LEMMA ReplyInv ==
  ASSUME IndInv, NEW c \in Calls, NEW x, Reply(c, x), TrueAnswer(c, x), Marked,
         pc[c] \in Busy \ {"record"}, UNCHANGED <<intent, created, layer>>
  PROVE  IndInv'
<1>1. answer' = [answer EXCEPT ![c] = x]
  BY DEF Reply
<1>2. PICK place \in {"record", "done"} : pc' = [pc EXCEPT ![c] = place]
  BY DEF Reply, Goto
<1>3. TypeOK'
  BY <1>1, <1>2 DEF IndInv, TypeOK, Busy, Marked, TrueAnswer
<1>4. CallsProgress' /\ CreatedByHandler'
  BY <1>1, <1>2
     DEF IndInv, TypeOK, CallsProgress, CreatedByHandler, Busy, Mounts, Unanswered, Answer,
         TrueAnswer
<1>5. \A d : KeyOf(d)' = KeyOf(d)
  BY KeysStay
<1>6. OnlySuccessNames' /\ EntryIsTheOrder' /\ OneOrderPerKey'
  BY <1>1, <1>5, MarkedInv DEF IndInv, TypeOK, OnlySuccessNames, TrueAnswer
<1>7. SuccessIsTheOrder'
  BY <1>1, <1>5 DEF IndInv, TypeOK, SuccessIsTheOrder, Same, TrueAnswer
<1> QED
  BY <1>3, <1>4, <1>6, <1>7 DEF IndInv

(* A call moves on without an answer; entries become markers, but that of  *)
(* its own key may become what the call was answered.                      *)
Quiet(c, place) ==
  /\ pc[c] \in Busy /\ place \in Busy \cup {"done", "lost"}
  /\ pc' = [pc EXCEPT ![c] = place]
  /\ intent' = intent /\ created' = created /\ answer' = answer
  /\ layer' \in [Calls -> 0..2]
  /\ \A d \in Calls \ {c} : layer'[d] = layer[d]
  /\ place \in {"gate", "lock"} => layer'[c] < Mounts
  /\ entry' \in [Keys -> EntryType]
  /\ \A k \in Keys : \/ entry'[k] \in {entry[k], Free, InProgress}
                     \/ k = KeyOf(c) /\ entry'[k] = answer[c]
  /\ place = "respond" => c \in created
  /\ c \in created => place \notin {"gate", "lock", "handle"}
  /\ pc[c] = "record" <=> place \in {"record", "done"}

(* So does a step without an answer. *)
LEMMA QuietInv ==
  ASSUME IndInv, NEW c \in Calls, NEW place, Quiet(c, place)
  PROVE  IndInv'
<1>1. TypeOK'
  BY DEF Quiet, IndInv, TypeOK
<1>2. CallsProgress' /\ CreatedByHandler'
  BY DEF Quiet, IndInv, TypeOK, CallsProgress, CreatedByHandler, Busy, Mounts
<1>3. OnlySuccessNames'
  BY DEF Quiet, IndInv, OnlySuccessNames, Free, InProgress, Answer
<1>4. \A d : KeyOf(d)' = KeyOf(d)
  BY KeysStay DEF Quiet
<1>5. OneOrderPerKey' /\ SuccessIsTheOrder'
  BY <1>4 DEF Quiet, IndInv, OneOrderPerKey, SuccessIsTheOrder, Same
<1>6. EntryIsTheOrder'
  BY <1>4 DEF Quiet, IndInv, EntryIsTheOrder, SuccessIsTheOrder, Same, Free, InProgress, Answer
<1> QED
  BY <1>1, <1>2, <1>3, <1>5, <1>6 DEF IndInv

(* An entry is set, by one command, to a marker or to the answer of a call. *)
LEMMA EntrySet ==
  ASSUME TypeOK, NEW k \in Keys, NEW e \in EntryType, entry' = [entry EXCEPT ![k] = e]
  PROVE  /\ entry' \in [Keys -> EntryType]
         /\ entry'[k] = e
         /\ \A j \in Keys \ {k} : entry'[j] = entry[j]
BY DEF TypeOK

(* The look-up found nothing and lets the call pass. *)
Passes(c) == entry[KeyOf(c)] = Free /\ Goto(c, "lock") /\ answer' = answer

(* What the look-up of a key answers at once is true of the call. *)
LEMMA GateAnswer ==
  ASSUME IndInv, NEW c \in Calls, Gate(c), ~Passes(c)
  PROVE  \E x : Reply(c, x) /\ TrueAnswer(c, x)
<1> DEFINE e == entry[KeyOf(c)]
<1>1. TypeOK /\ KeyOf(c) \in Keys
  BY KeyType DEF Gate, IndInv, CallsProgress
<1>2. CASE Reply(c, Answer("concurrent", None))
  BY <1>2, FailureTrue DEF Statuses
<1>3. CASE e \notin {Free, InProgress} /\ Reply(c, e)
  <2>1. e.status # "created" => e.of = None
    BY <1>1 DEF IndInv, OnlySuccessNames
  <2>2. e.status = "created" => e.of \in created /\ Same(c, e.of)
    BY <1>1 DEF IndInv, EntryIsTheOrder, Same
  <2>3. e \in AnswerType /\ e.status # "none"
    BY <1>1, <1>3, <2>1
       DEF TypeOK, EntryType, AnswerType, Statuses, Free, InProgress, Answer
  <2> QED
    BY <1>3, <2>1, <2>2, <2>3 DEF TrueAnswer
<1> QED
  BY <1>2, <1>3 DEF Gate, Passes

(* The look-up lets a call pass or answers what the entry says. *)
LEMMA GateInv ==
  ASSUME IndInv, NEW c \in Calls, Gate(c)
  PROVE  IndInv'
<1>1. pc[c] = "gate" /\ UNCHANGED <<intent, entry, created, layer>>
  BY DEF Gate
<1>2. TypeOK
  BY DEF IndInv
<1>3. CASE Passes(c)
  <2>1. c \notin created /\ layer[c] < Mounts
    BY <1>1 DEF IndInv, CreatedByHandler, CallsProgress
  <2>2. Quiet(c, "lock")
    BY <1>1, <1>2, <1>3, <2>1 DEF Quiet, TypeOK, Passes, Goto, Busy
  <2> QED
    BY <2>2, QuietInv
<1>4. CASE ~Passes(c)
  <2>1. PICK x : Reply(c, x) /\ TrueAnswer(c, x)
    BY <1>4, GateAnswer
  <2>2. Marked
    BY <1>1, <1>2, EntryStays
  <2> QED
    BY <1>1, <2>1, <2>2, ReplyInv DEF Busy
<1> QED
  BY <1>3, <1>4

(* The lock is a marker, and counts one mount. *)
LEMMA LockInv ==
  ASSUME IndInv, NEW c \in Calls, Lock(c)
  PROVE  IndInv'
<1>1. /\ pc[c] = "lock" /\ UNCHANGED <<intent, created, answer>>
      /\ entry' = [entry EXCEPT ![KeyOf(c)] = InProgress]
      /\ layer' = [layer EXCEPT ![c] = @ + 1]
      /\ Goto(c, IF layer[c] + 1 < Mounts THEN "gate" ELSE "handle")
  BY DEF Lock
<1>2. TypeOK /\ KeyOf(c) \in Keys /\ c \notin created /\ layer[c] < Mounts
  BY <1>1, KeyType DEF IndInv, CallsProgress, CreatedByHandler
<1>3. /\ entry' \in [Keys -> EntryType]
      /\ \A k \in Keys : entry'[k] \in {entry[k], Free, InProgress}
  BY <1>1, <1>2, EntrySet, AnswerTypes
<1>4. layer[c] \in 0..2 /\ Mounts \in 1..2
  BY <1>2 DEF TypeOK, Mounts
<1>5. layer[c] + 1 \in 0..2
  BY <1>2, <1>4
<1>6. layer' \in [Calls -> 0..2]
  BY <1>1, <1>2, <1>5 DEF TypeOK
<1>7. layer'[c] = layer[c] + 1 /\ \A d \in Calls \ {c} : layer'[d] = layer[d]
  BY <1>1, <1>2 DEF TypeOK
<1>8. pc[c] \in Busy /\ "gate" \in Busy /\ "handle" \in Busy
  BY <1>1 DEF Busy
<1>9. CASE layer[c] + 1 < Mounts
  <2>1. Quiet(c, "gate")
    BY <1>1, <1>2, <1>3, <1>6, <1>7, <1>8, <1>9 DEF Quiet, Goto
  <2> QED
    BY <2>1, QuietInv
<1>10. CASE ~(layer[c] + 1 < Mounts)
  <2>1. Quiet(c, "handle")
    BY <1>1, <1>2, <1>3, <1>6, <1>7, <1>8, <1>10 DEF Quiet, Goto
  <2> QED
    BY <2>1, QuietInv
<1> QED
  BY <1>9, <1>10

(* A failure of Redis is answered 500 and leaves at most a marker. *)
LEMMA CacheFailsInv ==
  ASSUME IndInv, NEW c \in Calls, CacheFails(c)
  PROVE  IndInv'
<1>1. /\ pc[c] \in {"gate", "lock"} /\ Reply(c, Answer("error", None))
      /\ entry' = entry \/ entry' = [entry EXCEPT ![KeyOf(c)] = InProgress]
      /\ UNCHANGED <<intent, created, layer>>
  BY DEF CacheFails
<1>2. TypeOK /\ KeyOf(c) \in Keys
  BY <1>1, KeyType DEF IndInv, CallsProgress
<1>3. Marked
  BY <1>1, <1>2, EntrySet, EntryStays, AnswerTypes DEF Marked
<1>4. TrueAnswer(c, Answer("error", None))
  BY FailureTrue DEF Statuses
<1> QED
  BY <1>1, <1>3, <1>4, ReplyInv DEF Busy

(* The order commits: no other call of its key has created one. *)
LEMMA InsertInv ==
  ASSUME IndInv, NEW c \in Calls, Insert(c)
  PROVE  IndInv'
<1>1. /\ pc[c] = "handle" /\ pc' = [pc EXCEPT ![c] = "respond"]
      /\ created' = created \cup {c}
      /\ \A d \in created : ~Same(c, d)
      /\ UNCHANGED <<intent, entry, layer, answer>>
  BY DEF Insert, Goto
<1>2. \A d : KeyOf(d)' = KeyOf(d)
  BY <1>1, KeysStay
<1>3. TypeOK'
  BY <1>1 DEF IndInv, TypeOK, Busy
<1>4. CallsProgress' /\ CreatedByHandler' /\ OnlySuccessNames'
  BY <1>1 DEF IndInv, TypeOK, CallsProgress, CreatedByHandler, OnlySuccessNames, Mounts
<1>5. EntryIsTheOrder' /\ SuccessIsTheOrder'
  BY <1>1, <1>2 DEF IndInv, EntryIsTheOrder, SuccessIsTheOrder, Same
<1>6. OneOrderPerKey'
  BY <1>1, <1>2 DEF IndInv, OneOrderPerKey, Same
<1> QED
  BY <1>3, <1>4, <1>5, <1>6 DEF IndInv

(* Duplicate, Refuse and Respond only reply. *)
LEMMA HandlerAnswer ==
  ASSUME IndInv, NEW c \in Calls, Duplicate(c) \/ Refuse(c) \/ Respond(c)
  PROVE  \E x : Reply(c, x) /\ TrueAnswer(c, x)
<1>1. CASE Respond(c)
  <2>1. c \in created
    BY <1>1 DEF Respond, IndInv, CreatedByHandler
  <2>2. TrueAnswer(c, Answer("created", c))
    BY <2>1, AnswerTypes DEF TrueAnswer, Answer, Same
  <2> QED
    BY <1>1, <2>2 DEF Respond
<1>2. CASE Duplicate(c) \/ Refuse(c)
  <2>1. TrueAnswer(c, Answer("error", None)) /\ TrueAnswer(c, Answer("refused", None))
    BY FailureTrue DEF Statuses
  <2> QED
    BY <1>2, <2>1 DEF Duplicate, Refuse
<1> QED
  BY <1>1, <1>2

(* The replies of the handler are true. *)
LEMMA HandlerReplyInv ==
  ASSUME IndInv, NEW c \in Calls, Duplicate(c) \/ Refuse(c) \/ Respond(c)
  PROVE  IndInv'
<1>1. pc[c] \in {"handle", "respond"} /\ UNCHANGED <<intent, entry, created, layer>>
  BY DEF Duplicate, Refuse, Respond
<1>2. Marked
  BY <1>1, EntryStays DEF IndInv
<1>3. PICK x : Reply(c, x) /\ TrueAnswer(c, x)
  BY HandlerAnswer
<1> QED
  BY <1>1, <1>2, <1>3, ReplyInv DEF Busy

(* The recording command reaches Redis, or fails; or the call crashes. *)
LEMMA EndInv ==
  ASSUME IndInv, NEW c \in Calls, Record(c) \/ RecordFails(c) \/ Crash(c)
  PROVE  IndInv'
<1>1. /\ pc[c] \in Busy
      /\ UNCHANGED <<intent, created, layer, answer>>
  BY DEF Record, RecordFails, Crash, Busy
<1>2. TypeOK /\ KeyOf(c) \in Keys
  BY <1>1, KeyType DEF IndInv, CallsProgress, Busy
<1>3. CASE Record(c)
  <2>1. PICK e : e \in {Free, answer[c]} /\ entry' = [entry EXCEPT ![KeyOf(c)] = e]
                 /\ (answer[c].status = "error" => e = Free)
    BY <1>3 DEF Record
  <2>2. pc' = [pc EXCEPT ![c] = "done"] /\ pc[c] = "record"
    BY <1>3 DEF Record, Goto
  <2>3. answer[c] \in AnswerType /\ answer[c].status # "none"
    BY <1>2, <2>2 DEF TypeOK, IndInv, CallsProgress
  <2>4. answer[c].status # "error" => answer[c] \in EntryType
    BY <2>3 DEF AnswerType, EntryType, Statuses
  <2>5. e \in EntryType
    BY <2>1, <2>4, AnswerTypes
  <2>6. Quiet(c, "done")
    BY <1>1, <1>2, <2>1, <2>2, <2>5, EntrySet DEF Quiet, TypeOK
  <2> QED
    BY <2>6, QuietInv
<1>4. CASE RecordFails(c) \/ Crash(c)
  <2>1. PICK place \in {"done", "lost"} : pc' = [pc EXCEPT ![c] = place]
                                          /\ (pc[c] = "record" <=> place = "done")
    BY <1>4 DEF RecordFails, Crash, Goto
  <2>2. entry' = entry
    BY <1>4 DEF RecordFails, Crash
  <2>3. Quiet(c, place)
    BY <1>1, <1>2, <2>1, <2>2 DEF Quiet, TypeOK
  <2> QED
    BY <2>3, QuietInv
<1> QED
  BY <1>3, <1>4

(* An entry that expires is free. *)
LEMMA ExpireInv ==
  ASSUME IndInv, NEW k \in Keys, Expire(k)
  PROVE  IndInv'
<1>1. entry' = [entry EXCEPT ![k] = Free] /\ UNCHANGED <<intent, created, pc, layer, answer>>
  BY DEF Expire
<1>2. Marked
  BY <1>1, EntrySet, AnswerTypes DEF IndInv, Marked
<1>3. \A d : KeyOf(d)' = KeyOf(d)
  BY <1>1, KeysStay
<1>4. TypeOK' /\ CallsProgress' /\ CreatedByHandler'
  BY <1>1, <1>2 DEF IndInv, Marked, TypeOK, CallsProgress, CreatedByHandler, Mounts
<1>5. EntryIsTheOrder' /\ OneOrderPerKey' /\ OnlySuccessNames'
  BY <1>1, <1>2, <1>3, MarkedInv DEF IndInv, OnlySuccessNames
<1>6. SuccessIsTheOrder'
  BY <1>1, <1>3 DEF IndInv, SuccessIsTheOrder, Same
<1> QED
  BY <1>4, <1>5, <1>6 DEF IndInv

-----------------------------------------------------------------------------
(* Every step keeps the invariant. *)
LEMMA NextInv == IndInv /\ [Next]_vars => IndInv'
<1> SUFFICES ASSUME IndInv, [Next]_vars PROVE IndInv'
  OBVIOUS
<1>1. ASSUME NEW c \in Calls, Send(c) PROVE IndInv'
  BY <1>1, SendInv
<1>2. ASSUME NEW c \in Calls, Gate(c) \/ Lock(c) \/ CacheFails(c) PROVE IndInv'
  BY <1>2, GateInv, LockInv, CacheFailsInv
<1>3. ASSUME NEW c \in Calls, Handle(c) \/ Respond(c) PROVE IndInv'
  BY <1>3, InsertInv, HandlerReplyInv DEF Handle
<1>4. ASSUME NEW c \in Calls, Record(c) \/ RecordFails(c) \/ Crash(c) PROVE IndInv'
  BY <1>4, EndInv
<1>5. ASSUME NEW k \in Keys, Expire(k) PROVE IndInv'
  BY <1>5, ExpireInv
<1>6. CASE UNCHANGED vars
  BY <1>6 DEF vars, IndInv, TypeOK, CallsProgress, CreatedByHandler, OnlySuccessNames,
              EntryIsTheOrder, SuccessIsTheOrder, OneOrderPerKey, Same, KeyOf
<1> QED
  BY <1>1, <1>2, <1>3, <1>4, <1>5, <1>6 DEF Next

(* The strengthening holds in every reachable state: entries, answers and  *)
(* created orders agree, however calls overlap, crash and lose Redis.      *)
THEOREM Inductive == Spec => []IndInv
<1> QED
  BY InitInv, NextInv, PTL DEF Spec

(* Every call, answer and Redis entry keeps its type; in particular no     *)
(* server error is ever recorded in an entry.                              *)
THEOREM TypeCorrect == Spec => []TypeOK
<1>1. IndInv => TypeOK
  BY DEF IndInv
<1> QED
  BY <1>1, Inductive, PTL

(* A call that createOrder answers "created", fresh or replayed, names the *)
(* one order that its key created.                                         *)
THEOREM SuccessTrue == Spec => []SuccessIsTheOrder
<1>1. IndInv => SuccessIsTheOrder
  BY DEF IndInv
<1> QED
  BY <1>1, Inductive, PTL

-----------------------------------------------------------------------------
(* A reply is a step of OrderOnce: the answer confirms the order of the    *)
(* call's intent, or declines.                                             *)
LEMMA ReplyRefines ==
  ASSUME ~FreshKeys, IndInv, NEW c \in Calls, NEW x, Reply(c, x), TrueAnswer(c, x),
         pc[c] \in Busy \ {"record"}, UNCHANGED <<intent, created>>
  PROVE  Once!Next
<1>1. answer' = [answer EXCEPT ![c] = x] /\ answer[c] = Unanswered /\ intent[c] # None
  BY DEF Reply, IndInv, CallsProgress, Busy
<1>2. CASE x.status = "created"
  <2>1. x.of \in created /\ intent[x.of] = intent[c]
    BY <1>2 DEF TrueAnswer, Same, KeyOf
  <2>2. x = [status |-> "created", of |-> x.of]
    BY <1>2 DEF TrueAnswer, AnswerType
  <2>3. Once!Confirm(c)
    BY <1>1, <2>1, <2>2 DEF Once!Confirm, Once!Answer, Once!Unanswered, Unanswered, Answer
  <2> QED
    BY <2>3 DEF Once!Next
<1>3. CASE x.status # "created"
  <2>1. x = [status |-> x.status, of |-> None] /\ x.status \in {"refused", "concurrent", "error"}
    BY <1>3 DEF TrueAnswer, AnswerType, Statuses
  <2>2. Once!Decline(c)
    BY <1>1, <2>1 DEF Once!Decline, Once!Answer, Once!Unanswered, Unanswered, Answer
  <2> QED
    BY <2>2 DEF Once!Next
<1> QED
  BY <1>2, <1>3

(* Every step of the middleware and the handlers is a step of OrderOnce or leaves it alone. *)
LEMMA NextRefines ==
  ASSUME ~FreshKeys, IndInv, [Next]_vars
  PROVE  [Once!Next]_<<intent, created, answer>>
<1>1. ASSUME NEW c \in Calls, Send(c) PROVE Once!Next
  <2>1. intent[c] = None
    BY <1>1 DEF Send, IndInv, CallsProgress
  <2>2. Once!Submit(c)
    BY <1>1, <2>1 DEF Send, Once!Submit
  <2> QED
    BY <2>2 DEF Once!Next
<1>2. ASSUME NEW c \in Calls, Gate(c) PROVE Once!Next \/ UNCHANGED <<intent, created, answer>>
  <2>1. pc[c] \in Busy \ {"record"} /\ UNCHANGED <<intent, created>>
    BY <1>2 DEF Gate, Busy
  <2> QED
    BY <1>2, <2>1, GateAnswer, ReplyRefines DEF Passes
<1>3. ASSUME NEW c \in Calls, CacheFails(c) PROVE Once!Next
  <2>1. pc[c] \in Busy \ {"record"} /\ UNCHANGED <<intent, created>>
    BY <1>3 DEF CacheFails, Busy
  <2>2. Reply(c, Answer("error", None)) /\ TrueAnswer(c, Answer("error", None))
    BY <1>3, FailureTrue DEF CacheFails, Statuses
  <2> QED
    BY <2>1, <2>2, ReplyRefines
<1>4. ASSUME NEW c \in Calls, Insert(c) PROVE Once!Next
  <2>1. intent[c] # None
    BY <1>4 DEF Insert, IndInv, CallsProgress
  <2>2. Once!Create(c)
    BY <1>4, <2>1 DEF Insert, Once!Create, Same, KeyOf
  <2> QED
    BY <2>2 DEF Once!Next
<1>5. ASSUME NEW c \in Calls, Duplicate(c) \/ Refuse(c) \/ Respond(c) PROVE Once!Next
  <2>1. pc[c] \in Busy \ {"record"} /\ UNCHANGED <<intent, created>>
    BY <1>5 DEF Duplicate, Refuse, Respond, Busy
  <2> QED
    BY <1>5, <2>1, HandlerAnswer, ReplyRefines
<1>6. ASSUME NEW c \in Calls, Lock(c) \/ Record(c) \/ RecordFails(c) \/ Crash(c)
      PROVE  UNCHANGED <<intent, created, answer>>
  BY <1>6 DEF Lock, Record, RecordFails, Crash
<1>7. ASSUME NEW k \in Keys, Expire(k) PROVE UNCHANGED <<intent, created, answer>>
  BY <1>7 DEF Expire
<1>8. CASE UNCHANGED vars
  BY <1>8 DEF vars
<1> QED
  BY <1>1, <1>2, <1>3, <1>4, <1>5, <1>6, <1>7, <1>8 DEF Next, Handle

(* The middleware and the handlers implement OrderOnce whenever the calls  *)
(* of an intent share a key: no overlap, crash, expiry or failure of Redis *)
(* creates a second order or confirms an order that is not the intent's.   *)
THEOREM Refinement ==
  ASSUME ~FreshKeys
  PROVE  Spec => OrderedOnce
<1>1. Init => Once!Init
  BY DEF Init, Once!Init, Once!Unanswered, Once!Answer, Unanswered, Answer
<1>2. IndInv /\ [Next]_vars => [Once!Next]_<<intent, created, answer>>
  BY NextRefines
<1> QED
  BY <1>1, <1>2, Inductive, PTL DEF Spec, OrderedOnce, Once!Spec

-----------------------------------------------------------------------------
(* Refusals on the order route, where the middleware is mounted once.      *)

(* No call takes its key or its passage of the gate back. *)
LEMMA PastStays ==
  ASSUME Route = "orders", IndInv, [Next]_vars, NEW d \in Calls
  PROVE  /\ PastGate(d) => PastGate(d)'
         /\ pc[d] # "idle" => pc'[d] # "idle" /\ KeyOf(d)' = KeyOf(d)
<1>1. pc \in [Calls -> Busy \cup {"idle", "done", "lost"}] /\ intent \in [Calls -> Intents \cup {None}]
  BY DEF IndInv, TypeOK
<1>2. ASSUME NEW c \in Calls, Send(c) PROVE PastGate(d)' <=> PastGate(d)
  BY <1>1, <1>2 DEF Send, Goto, PastGate
<1>3. ASSUME NEW c \in Calls, Send(c)
      PROVE  pc[d] # "idle" => pc'[d] # "idle" /\ KeyOf(d)' = KeyOf(d)
  BY <1>1, <1>3 DEF Send, Goto, KeyOf
<1>4. ASSUME NEW c \in Calls, Lock(c) PROVE pc' = [pc EXCEPT ![c] = "handle"] /\ intent' = intent
  <2>1. layer[c] \in 0..2 /\ layer[c] < 1
    BY <1>4 DEF Lock, IndInv, TypeOK, CallsProgress, Mounts
  <2>2. ~(layer[c] + 1 < Mounts)
    BY <2>1 DEF Mounts
  <2> QED
    BY <1>4, <2>2 DEF Lock, Goto
<1>5. ASSUME NEW c \in Calls, Gate(c)
      PROVE  /\ pc[c] = "gate" /\ intent' = intent
             /\ \E place \in {"lock", "record", "done"} : pc' = [pc EXCEPT ![c] = place]
  BY <1>5 DEF Gate, Reply, Goto
<1>6. ASSUME NEW c \in Calls, CacheFails(c) \/ Handle(c) \/ Respond(c) \/ Record(c) \/ RecordFails(c) \/ Crash(c)
      PROVE  /\ intent' = intent
             /\ \E place \in {"respond", "record", "done", "lost"} : pc' = [pc EXCEPT ![c] = place]
  BY <1>6 DEF CacheFails, Handle, Insert, Duplicate, Refuse, Respond, Record, RecordFails, Crash, Reply, Goto
<1>7. ASSUME NEW k \in Keys, Expire(k) PROVE pc' = pc /\ intent' = intent
  BY <1>7 DEF Expire
<1>8. CASE \E c \in Calls : Send(c)
  BY <1>2, <1>3, <1>8
<1>9. CASE intent' = intent /\ pc' = pc
  BY <1>9, KeysStay DEF PastGate
<1>10. CASE \E c \in Calls : Lock(c) \/ Gate(c)
  <2>1. intent' = intent /\ \A e : KeyOf(e)' = KeyOf(e)
    BY <1>4, <1>5, <1>10, KeysStay
  <2> QED
    BY <1>1, <1>4, <1>5, <1>10, <2>1 DEF PastGate, Lock
<1>11. CASE \E c \in Calls : CacheFails(c) \/ Handle(c) \/ Respond(c) \/ Record(c) \/ RecordFails(c) \/ Crash(c)
  <2>1. intent' = intent /\ \A e : KeyOf(e)' = KeyOf(e)
    BY <1>6, <1>11, KeysStay
  <2> QED
    BY <1>1, <1>6, <1>11, <2>1 DEF PastGate
<1>12. CASE UNCHANGED vars
  BY <1>9, <1>12 DEF vars
<1> QED
  BY <1>7, <1>8, <1>9, <1>10, <1>11, <1>12 DEF Next

(* An entry that refuses stays, or is set by the call that passes the gate *)
(* with it or that records a refusal it was given.                         *)
LEMMA RefuserKept ==
  ASSUME Route = "orders", IndInv, [Next]_vars, NEW k \in Keys,
         entry'[k].status \in {"in_progress", "concurrent"}
  PROVE  \/ entry[k].status \in {"in_progress", "concurrent"}
         \/ \E d \in Calls : PastGate(d)' /\ KeyOf(d)' = k
<1>1. entry \in [Keys -> EntryType] /\ pc \in [Calls -> Busy \cup {"idle", "done", "lost"}]
  BY DEF IndInv, TypeOK
<1>2. ASSUME NEW c \in Calls, Lock(c) \/ CacheFails(c) \/ Record(c), entry'[k] # entry[k]
      PROVE  PastGate(c)' /\ KeyOf(c)' = k
  <2>1. pc[c] # "idle" /\ KeyOf(c)' = KeyOf(c)
    BY <1>2, KeysStay DEF Lock, CacheFails, Record
  <2>2. KeyOf(c) = k
    BY <1>1, <1>2 DEF Lock, CacheFails, Record
  <2>3. CASE Lock(c)
    <3>1. layer[c] \in 0..2 /\ layer[c] < 1
      BY <2>3 DEF Lock, IndInv, TypeOK, CallsProgress, Mounts
    <3>2. ~(layer[c] + 1 < Mounts)
      BY <3>1 DEF Mounts
    <3> QED
      BY <1>1, <2>1, <2>2, <2>3, <3>2 DEF Lock, Goto, PastGate
  <2>4. CASE CacheFails(c) \/ Record(c)
    BY <1>1, <2>1, <2>2, <2>4 DEF CacheFails, Record, Reply, Goto, PastGate
  <2> QED
    BY <1>2, <2>3, <2>4
<1>3. ASSUME NEW c \in Calls,
             Send(c) \/ Gate(c) \/ Handle(c) \/ Respond(c) \/ RecordFails(c) \/ Crash(c)
      PROVE  entry' = entry
  BY <1>3 DEF Send, Gate, Handle, Insert, Duplicate, Refuse, Respond, RecordFails, Crash
<1>4. ASSUME NEW j \in Keys, Expire(j) PROVE entry'[k] = entry[k]
  BY <1>1, <1>4 DEF Expire, Free, Answer
<1>5. CASE UNCHANGED vars
  BY <1>5 DEF vars
<1> QED
  BY <1>2, <1>3, <1>4, <1>5 DEF Next

(* A call is told that another one is running only by the entry of its key. *)
LEMMA RefusalRead ==
  ASSUME IndInv, [Next]_vars, NEW c \in Calls, answer'[c].status = "concurrent"
  PROVE  \/ answer[c].status = "concurrent"
         \/ /\ pc[c] = "gate" /\ KeyOf(c) \in Keys
            /\ entry[KeyOf(c)].status \in {"in_progress", "concurrent"}
<1>1. answer \in [Calls -> AnswerType]
  BY DEF IndInv, TypeOK
<1>2. ASSUME NEW d \in Calls, Gate(d)
      PROVE  \/ answer' = answer
             \/ /\ pc[d] = "gate" /\ answer' = [answer EXCEPT ![d] = Answer("concurrent", None)]
                /\ entry[KeyOf(d)] = InProgress
             \/ pc[d] = "gate" /\ answer' = [answer EXCEPT ![d] = entry[KeyOf(d)]]
  BY <1>2 DEF Gate, Reply
<1>3. ASSUME NEW d \in Calls, Gate(d), answer[c].status # "concurrent"
      PROVE  pc[c] = "gate" /\ entry[KeyOf(c)].status \in {"in_progress", "concurrent"}
  BY <1>1, <1>2, <1>3 DEF InProgress, Answer
<1>4. ASSUME NEW d \in Calls, CacheFails(d) \/ Handle(d) \/ Respond(d)
      PROVE  \/ answer' = answer
             \/ \E s \in {"error", "refused", "created"}, x \in Calls \cup {None} :
                  answer' = [answer EXCEPT ![d] = Answer(s, x)]
  BY <1>4 DEF CacheFails, Handle, Insert, Duplicate, Refuse, Respond, Reply
<1>5. ASSUME NEW d \in Calls, CacheFails(d) \/ Handle(d) \/ Respond(d)
      PROVE  answer[c].status = "concurrent"
  BY <1>1, <1>4, <1>5 DEF Answer
<1>6. ASSUME NEW d \in Calls, Send(d) \/ Lock(d) \/ Record(d) \/ RecordFails(d) \/ Crash(d)
      PROVE  answer' = answer
  BY <1>6 DEF Send, Lock, Record, RecordFails, Crash
<1>7. ASSUME NEW k \in Keys, Expire(k) PROVE answer' = answer
  BY <1>7 DEF Expire
<1>8. CASE UNCHANGED vars
  BY <1>8 DEF vars
<1>9. pc[c] = "gate" => KeyOf(c) \in Keys
  BY KeyType DEF IndInv, CallsProgress
<1> QED
  BY <1>3, <1>5, <1>6, <1>7, <1>8, <1>9 DEF Next

(* On the order route every step keeps what is known of refusals. *)
LEMMA OtherStep ==
  ASSUME Route = "orders", IndInv, OtherInv, [Next]_vars
  PROVE  OtherInv'
<1>1. RefusersPast'
  <2> SUFFICES ASSUME NEW k \in Keys, entry'[k].status \in {"in_progress", "concurrent"}
               PROVE  \E d \in Calls : PastGate(d)' /\ KeyOf(d)' = k
    BY DEF RefusersPast
  <2>1. CASE entry[k].status \in {"in_progress", "concurrent"}
    <3>1. PICK d \in Calls : PastGate(d) /\ KeyOf(d) = k
      BY <2>1 DEF OtherInv, RefusersPast
    <3> QED
      BY <3>1, PastStays DEF PastGate
  <2> QED
    BY <2>1, RefuserKept
<1>2. RefusedOnlyIfOther'
  <2> SUFFICES ASSUME NEW c \in Calls, answer'[c].status = "concurrent"
               PROVE  \E d \in Calls \ {c} : pc'[d] # "idle" /\ KeyOf(c)' = KeyOf(d)'
    BY DEF RefusedOnlyIfOther, Same
  <2>1. PICK d \in Calls \ {c} : pc[d] # "idle" /\ KeyOf(c) = KeyOf(d) /\ pc[c] # "idle"
    <3>1. CASE answer[c].status = "concurrent"
      <4>1. pc[c] # "idle"
        BY <3>1 DEF IndInv, CallsProgress, Unanswered, Answer
      <4> QED
        BY <3>1, <4>1 DEF OtherInv, RefusedOnlyIfOther, Same
    <3>2. CASE answer[c].status # "concurrent"
      <4>1. /\ pc[c] = "gate" /\ KeyOf(c) \in Keys
            /\ entry[KeyOf(c)].status \in {"in_progress", "concurrent"}
        BY <3>2, RefusalRead
      <4>2. PICK d \in Calls : PastGate(d) /\ KeyOf(d) = KeyOf(c)
        BY <4>1 DEF OtherInv, RefusersPast
      <4> QED
        BY <4>1, <4>2 DEF PastGate
    <3> QED
      BY <3>1, <3>2
  <2> QED
    BY <2>1, PastStays
<1> QED
  BY <1>1, <1>2 DEF OtherInv

(* On the order route a call is refused as concurrent only if another call *)
(* has used its key, for any number of calls, keys and faults: no call     *)
(* meets its own lock.  (On the payment route the second mount does.)      *)
THEOREM RefusedForOther ==
  ASSUME Route = "orders"
  PROVE  Spec => []RefusedOnlyIfOther
<1>1. Init => OtherInv
  BY DEF Init, OtherInv, RefusersPast, RefusedOnlyIfOther, Free, Unanswered, Answer
<1>2. OtherInv /\ IndInv /\ [Next]_vars => OtherInv'
  BY OtherStep
<1>3. OtherInv => RefusedOnlyIfOther
  BY DEF OtherInv
<1> QED
  BY <1>1, <1>2, <1>3, Inductive, PTL DEF Spec
=============================================================================
