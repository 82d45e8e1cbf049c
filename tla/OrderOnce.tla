------------------------------ MODULE OrderOnce ------------------------------
(***************************************************************************)
(* What the API promises of an order that a client submits, however often  *)
(* it repeats the call: each intent creates at most one order, and a call  *)
(* that is told "created" is told of that order.  A call may also be       *)
(* refused, at any time and for any reason.                                *)
(***************************************************************************)
CONSTANTS Calls, Intents, None

VARIABLES
  intent,   \* what each call wants, None before it is sent
  created,  \* the calls that created an order
  answer    \* the answer each call received

Answer(status, call) == [status |-> status, of |-> call]
Unanswered == Answer("none", None)

Init ==
  /\ intent = [c \in Calls |-> None]
  /\ created = {}
  /\ answer = [c \in Calls |-> Unanswered]

Submit(c) ==
  /\ intent[c] = None
  /\ \E i \in Intents : intent' = [intent EXCEPT ![c] = i]
  /\ UNCHANGED <<created, answer>>

Create(c) ==
  /\ intent[c] # None
  /\ \A d \in created : intent[d] # intent[c]
  /\ created' = created \cup {c}
  /\ UNCHANGED <<intent, answer>>

Confirm(c) ==
  /\ answer[c] = Unanswered
  /\ \E d \in created : /\ intent[d] = intent[c]
                        /\ answer' = [answer EXCEPT ![c] = Answer("created", d)]
  /\ UNCHANGED <<intent, created>>

Decline(c) ==
  /\ intent[c] # None
  /\ answer[c] = Unanswered
  /\ \E s \in {"refused", "concurrent", "error"} :
       answer' = [answer EXCEPT ![c] = Answer(s, None)]
  /\ UNCHANGED <<intent, created>>

Next == \E c \in Calls : Submit(c) \/ Create(c) \/ Confirm(c) \/ Decline(c)

Spec == Init /\ [][Next]_<<intent, created, answer>>
=============================================================================
