---------------------------- MODULE TillDayProofs ----------------------------
(***************************************************************************)
(* Theorems about TillDay, for every set of users, dates, orders and       *)
(* terminals.  Inductive is IndInv: an opening that nothing overlapped is  *)
(* the only one of its topic, and what it has found (no open day, no open  *)
(* shift) still holds when it inserts.                                     *)
(***************************************************************************)
EXTENDS TillDay, TLAPS

OpensDay(t) == pc[t] \in {"period", "insert"}
OpensShift(t) == pc[t] \in {"day", "create"}

CallIsAbout(t) ==
  /\ OpensDay(t) => tx[t].call = "openDay" /\ tx[t].date \in Dates
  /\ OpensShift(t) => tx[t].call = "openShift" /\ tx[t].user \in Users

FindingHolds(t) ==
  /\ OpensDay(t) /\ "day" \notin raced => ~ActiveDay
  /\ OpensShift(t) /\ tx[t].user \notin raced => shifts[tx[t].user] = 0
  /\ pc[t] = "create" => ActiveDay

\* t and v do not open the same thing, unless it is noted.
Apart(t, v) ==
  /\ "day" \notin raced => ~(OpensDay(t) /\ OpensDay(v))
  /\ OpensShift(t) /\ OpensShift(v) /\ tx[t].user = tx[v].user => tx[t].user \in raced

IndInv ==
  /\ TypeOK
  /\ \A t \in Terminals : CallIsAbout(t) /\ FindingHolds(t)
  /\ \A t \in Terminals : \A v \in Terminals \ {t} : Apart(t, v)
  /\ OneTillWhenAlone

\* A call's steps leave the other calls alone and forget no overlap.
OnlyOf(t) ==
  /\ tx' = [tx EXCEPT ![t] = tx'[t]]
  /\ pc' = [pc EXCEPT ![t] = pc'[t]]
  /\ raced \subseteq raced'

(* No day, no shift and no call at first. *)
LEMMA InitIndInv == Init => IndInv
<1> SUFFICES ASSUME Init PROVE IndInv
  OBVIOUS
<1> USE TillAssumption
<1>1. TypeOK
  BY DEF TypeOK, Init, NoTx
<1>2. ASSUME NEW t \in Terminals PROVE CallIsAbout(t) /\ FindingHolds(t) /\ ~OpensDay(t) /\ ~OpensShift(t)
  BY DEF CallIsAbout, FindingHolds, OpensDay, OpensShift, Init
<1>3. OneTillWhenAlone
  BY DEF OneTillWhenAlone, Init
<1> QED BY <1>1, <1>2, <1>3 DEF IndInv, Apart

(* A step of one terminal leaves what the others know as it is. *)
LEMMA OthersKept ==
  ASSUME IndInv, NEW t \in Terminals, OnlyOf(t), NEW v \in Terminals \ {t}
  PROVE  /\ tx'[v] = tx[v] /\ pc'[v] = pc[v]
         /\ OpensDay(v)' = OpensDay(v) /\ OpensShift(v)' = OpensShift(v)
         /\ CallIsAbout(v)'
<1>1. tx'[v] = tx[v] /\ pc'[v] = pc[v]
  BY DEF IndInv, TypeOK, OnlyOf
<1>2. CallIsAbout(v)
  BY DEF IndInv
<1> QED BY <1>1, <1>2 DEF OpensDay, OpensShift, CallIsAbout

\* Any two of the other calls stay apart.
LEMMA OthersApart ==
  ASSUME IndInv, NEW t \in Terminals, OnlyOf(t),
         NEW v \in Terminals \ {t}, NEW w \in Terminals \ {t}, w # v
  PROVE  Apart(v, w)'
<1>1. Apart(v, w) /\ raced \subseteq raced'
  BY DEF IndInv, OnlyOf
<1>2. /\ tx'[v] = tx[v] /\ OpensDay(v)' = OpensDay(v) /\ OpensShift(v)' = OpensShift(v)
      /\ tx'[w] = tx[w] /\ OpensDay(w)' = OpensDay(w) /\ OpensShift(w)' = OpensShift(w)
  BY OthersKept
<1> QED BY <1>1, <1>2 DEF Apart

\* A step of t that changes no day and no shift, and leaves t with a finding
\* that holds, apart from the others.
LEMMA QuietStep ==
  ASSUME IndInv, NEW t \in Terminals, OnlyOf(t), UNCHANGED <<day, shifts>>,
         TypeOK', CallIsAbout(t)', FindingHolds(t)',
         \A v \in Terminals \ {t} : Apart(t, v)'
  PROVE  IndInv'
<1>1. ASSUME NEW v \in Terminals \ {t} PROVE CallIsAbout(v)' /\ FindingHolds(v)' /\ Apart(v, t)'
  <2>1. FindingHolds(v) /\ raced \subseteq raced'
    BY DEF IndInv, OnlyOf
  <2>2. /\ tx'[v] = tx[v] /\ pc'[v] = pc[v] /\ CallIsAbout(v)'
        /\ OpensDay(v)' = OpensDay(v) /\ OpensShift(v)' = OpensShift(v)
    BY OthersKept
  <2>3. FindingHolds(v)'
    BY <2>1, <2>2 DEF FindingHolds, ActiveDay
  <2>4. Apart(v, t)'
    BY DEF Apart
  <2> QED BY <2>2, <2>3, <2>4
<1>2. OneTillWhenAlone'
  <2>1. OneTillWhenAlone /\ raced \subseteq raced'
    BY DEF IndInv, OnlyOf
  <2> QED BY <2>1 DEF OneTillWhenAlone, ActiveDay
<1>3. ASSUME NEW v \in Terminals, NEW w \in Terminals \ {v} PROVE Apart(v, w)'
  BY <1>1, OthersApart
<1> QED BY <1>1, <1>2, <1>3 DEF IndInv

\* A step that ends the call of t, or goes on without opening more than before.
LEMMA ContinuesQuietly ==
  ASSUME IndInv, NEW t \in Terminals, UNCHANGED <<day, shifts, order, raced>>,
         NEW to \in {"off", "insert", "create", "sum", "allOrders"},
         pc' = [pc EXCEPT ![t] = to],
         \/ tx' = [tx EXCEPT ![t] = NoTx] /\ to = "off"
         \/ UNCHANGED tx /\ to = "insert" /\ pc[t] = "period"
         \/ UNCHANGED tx /\ to = "create" /\ pc[t] = "day" /\ ActiveDay
         \/ UNCHANGED tx /\ to \in {"sum", "allOrders"}
  PROVE  IndInv'
<1> USE TillAssumption
<1>1. TypeOK'
  BY DEF IndInv, TypeOK, NoTx
<1>2. OnlyOf(t)
  BY DEF IndInv, TypeOK, OnlyOf
<1>3. /\ pc'[t] = to
      /\ OpensDay(t)' => OpensDay(t) /\ tx'[t] = tx[t]
      /\ OpensShift(t)' => OpensShift(t) /\ tx'[t] = tx[t]
      /\ to = "create" => ActiveDay
  BY DEF IndInv, TypeOK, OpensDay, OpensShift
<1>4. CallIsAbout(t)' /\ FindingHolds(t)'
  <2>1. CallIsAbout(t) /\ FindingHolds(t)
    BY DEF IndInv
  <2> QED BY <1>3, <2>1 DEF CallIsAbout, FindingHolds, ActiveDay
<1>5. ASSUME NEW v \in Terminals \ {t} PROVE Apart(t, v)'
  <2>1. Apart(t, v)
    BY DEF IndInv
  <2>2. tx'[v] = tx[v] /\ OpensDay(v)' = OpensDay(v) /\ OpensShift(v)' = OpensShift(v)
    BY <1>2, OthersKept
  <2> QED BY <1>3, <2>1, <2>2 DEF Apart
<1> QED BY <1>1, <1>2, <1>4, <1>5, QuietStep

(* A call begins: it takes its first statement and is noted where it overlaps. *)
LEMMA EnterShape ==
  ASSUME IndInv, NEW t \in Terminals, NEW to, NEW x, Enter(t, to, x)
  PROVE  /\ pc[t] = "off" /\ pc' = [pc EXCEPT ![t] = to] /\ pc'[t] = to
         /\ tx' = [tx EXCEPT ![t] = x] /\ tx'[t] = x
         /\ OnlyOf(t) /\ UNCHANGED tables
         /\ raced' \subseteq raced \cup {Topic(x)}
BY DEF IndInv, TypeOK, Enter, Goto, OnlyOf, tables

(* An opening has just found no open day: there is none. *)
LEMMA FindPendingDayStep ==
  ASSUME IndInv, NEW t \in Terminals, FindPendingDay(t) PROVE IndInv'
<1> USE TillAssumption
<1>1. PICK d \in Dates : ~ActiveDay /\ Enter(t, "period", [call |-> "openDay", user |-> None, date |-> d])
  BY DEF FindPendingDay
<1> DEFINE x == [call |-> "openDay", user |-> None, date |-> d]
<1>2. Enter(t, "period", x)
  BY <1>1
<1>3. /\ pc' = [pc EXCEPT ![t] = "period"] /\ pc'[t] = "period"
      /\ tx' = [tx EXCEPT ![t] = x] /\ tx'[t] = x
      /\ OnlyOf(t) /\ UNCHANGED tables /\ Topic(x) = "day"
      /\ raced' \subseteq raced \cup {"day"}
  <2>1. Topic(x) = "day"
    BY DEF Topic
  <2> HIDE DEF x
  <2> QED BY <1>2, <2>1, EnterShape
<1>4. TypeOK'
  BY <1>3 DEF IndInv, TypeOK, tables
<1>5. CallIsAbout(t)' /\ FindingHolds(t)'
  BY <1>1, <1>3 DEF CallIsAbout, FindingHolds, OpensDay, OpensShift, ActiveDay, tables
<1>6. ASSUME NEW v \in Terminals \ {t}, OpensDay(v) PROVE "day" \in raced'
  <2>1. tx[v].call = "openDay" /\ Topic(tx[v]) = "day"
    BY <1>6 DEF IndInv, CallIsAbout, Topic
  <2> QED BY <1>2, <1>3, <2>1 DEF Enter
<1>7. ASSUME NEW v \in Terminals \ {t} PROVE Apart(t, v)'
  <2>1. OpensDay(v)' = OpensDay(v) /\ ~OpensShift(t)'
    BY <1>3, OthersKept DEF OpensShift
  <2> QED BY <1>6, <2>1 DEF Apart
<1>8. UNCHANGED <<day, shifts>>
  BY <1>3 DEF tables
<1> QED BY <1>3, <1>4, <1>5, <1>7, <1>8, QuietStep

(* An opening has just found no open shift of the user: there is none. *)
LEMMA FindOpenShiftStep ==
  ASSUME IndInv, NEW t \in Terminals, FindOpenShift(t) PROVE IndInv'
<1> USE TillAssumption
<1>1. PICK u \in Users : shifts[u] = 0 /\ Enter(t, "day", [call |-> "openShift", user |-> u, date |-> None])
  BY DEF FindOpenShift
<1> DEFINE x == [call |-> "openShift", user |-> u, date |-> None]
<1>2. Enter(t, "day", x)
  BY <1>1
<1>3. /\ pc' = [pc EXCEPT ![t] = "day"] /\ pc'[t] = "day"
      /\ tx' = [tx EXCEPT ![t] = x] /\ tx'[t] = x
      /\ OnlyOf(t) /\ UNCHANGED tables /\ Topic(x) = u
      /\ raced' \subseteq raced \cup {u}
  <2>1. Topic(x) = u
    BY DEF Topic
  <2> HIDE DEF x
  <2> QED BY <1>2, <2>1, EnterShape
<1>4. TypeOK'
  BY <1>3 DEF IndInv, TypeOK, tables
<1>5. CallIsAbout(t)' /\ FindingHolds(t)'
  BY <1>1, <1>3 DEF CallIsAbout, FindingHolds, OpensDay, OpensShift, ActiveDay, tables
<1>6. ASSUME NEW v \in Terminals \ {t}, OpensShift(v), tx[v].user = u PROVE u \in raced'
  <2>1. tx[v].call = "openShift" /\ Topic(tx[v]) = u
    BY <1>6 DEF IndInv, CallIsAbout, Topic
  <2> QED BY <1>2, <1>3, <2>1 DEF Enter
<1>7. ASSUME NEW v \in Terminals \ {t} PROVE Apart(t, v)'
  <2>1. OpensShift(v)' = OpensShift(v) /\ tx'[v] = tx[v] /\ ~OpensDay(t)' /\ tx'[t].user = u
    BY <1>3, OthersKept DEF OpensDay
  <2> QED BY <1>6, <2>1 DEF Apart
<1>8. UNCHANGED <<day, shifts>>
  BY <1>3 DEF tables
<1> QED BY <1>3, <1>4, <1>5, <1>7, <1>8, QuietStep

\* A closing begins: it opens nothing.
LEMMA ClosingBegins ==
  ASSUME IndInv, NEW t \in Terminals, ReadShift(t) \/ ReadDay(t) PROVE IndInv'
<1> USE TillAssumption
<1>1. PICK to \in {"userOrders", "openShifts"},
           x \in [call : {"closeShift", "closeDay"}, user : Users \cup {None}, date : Dates \cup {None}] :
        /\ pc' = [pc EXCEPT ![t] = to] /\ tx' = [tx EXCEPT ![t] = x]
        /\ UNCHANGED <<tables, raced>>
  <2>1. CASE ReadShift(t)
    <3>1. PICK u \in Users :
            /\ pc' = [pc EXCEPT ![t] = "userOrders"]
            /\ tx' = [tx EXCEPT ![t] = [call |-> "closeShift", user |-> u, date |-> None]]
            /\ UNCHANGED <<tables, raced>>
      BY <2>1 DEF ReadShift, Goto
    <3> QED BY <3>1
  <2>2. CASE ReadDay(t)
    <3>1. PICK d \in Dates :
            /\ pc' = [pc EXCEPT ![t] = "openShifts"]
            /\ tx' = [tx EXCEPT ![t] = [call |-> "closeDay", user |-> None, date |-> d]]
            /\ UNCHANGED <<tables, raced>>
      BY <2>2 DEF ReadDay, Goto
    <3> QED BY <3>1
  <2> QED BY <2>1, <2>2
<1>2. TypeOK'
  BY <1>1 DEF IndInv, TypeOK, tables
<1>3. OnlyOf(t) /\ UNCHANGED <<day, shifts>> /\ ~OpensDay(t)' /\ ~OpensShift(t)' /\ pc'[t] # "create"
  BY <1>1 DEF IndInv, TypeOK, OnlyOf, OpensDay, OpensShift, tables
<1>4. CallIsAbout(t)' /\ FindingHolds(t)' /\ \A v \in Terminals \ {t} : Apart(t, v)'
  BY <1>3 DEF CallIsAbout, FindingHolds, Apart
<1> QED BY <1>2, <1>3, <1>4, QuietStep

(* The day inserted is the only open one, unless openings overlapped. *)
LEMMA InsertDayStep ==
  ASSUME IndInv, NEW t \in Terminals, InsertDay(t) PROVE IndInv'
<1> USE TillAssumption
<1> DEFINE d == tx[t].date
<1>1. /\ pc[t] = "insert" /\ pc' = [pc EXCEPT ![t] = "off"] /\ tx' = [tx EXCEPT ![t] = NoTx]
      /\ day' = [day EXCEPT ![d] = "PENDING"] /\ UNCHANGED <<shifts, order, raced>>
  BY DEF InsertDay, Leave, Goto
<1>2. OpensDay(t) /\ d \in Dates
  BY <1>1 DEF IndInv, OpensDay, CallIsAbout
<1> HIDE DEF d
<1>3. TypeOK'
  BY <1>1, <1>2 DEF IndInv, TypeOK, NoTx
<1>4. OnlyOf(t) /\ ~OpensDay(t)' /\ ~OpensShift(t)' /\ pc'[t] = "off"
  BY <1>1 DEF IndInv, TypeOK, OnlyOf, OpensDay, OpensShift
<1>5. ActiveDay'
  BY <1>1, <1>2 DEF IndInv, TypeOK, ActiveDay
<1>6. ASSUME NEW v \in Terminals PROVE CallIsAbout(v)' /\ FindingHolds(v)'
  <2>1. CASE v = t
    BY <1>4, <2>1 DEF CallIsAbout, FindingHolds
  <2>2. CASE v # t
    <3>1. /\ tx'[v] = tx[v] /\ pc'[v] = pc[v] /\ CallIsAbout(v)'
          /\ OpensDay(v)' = OpensDay(v) /\ OpensShift(v)' = OpensShift(v)
      BY <1>4, <2>2, OthersKept
    <3>2. Apart(t, v) /\ FindingHolds(v)
      BY <2>2 DEF IndInv
    <3> QED BY <1>1, <1>2, <1>5, <3>1, <3>2 DEF Apart, FindingHolds
  <2> QED BY <2>1, <2>2
<1>7. ASSUME NEW v \in Terminals, NEW w \in Terminals \ {v} PROVE Apart(v, w)'
  <2>1. CASE v = t \/ w = t
    BY <1>4, <2>1 DEF Apart
  <2>2. CASE v # t /\ w # t
    BY <1>4, <2>2, OthersApart
  <2> QED BY <2>1, <2>2
<1>8. OneTillWhenAlone'
  <2>1. OneTillWhenAlone /\ FindingHolds(t) /\ TypeOK
    BY DEF IndInv
  <2>2. "day" \notin raced => \A e \in Dates : day'[e] = "PENDING" => e = d
    BY <1>1, <1>2, <2>1 DEF FindingHolds, ActiveDay, TypeOK
  <2> QED BY <1>1, <1>5, <2>1, <2>2 DEF OneTillWhenAlone
<1> QED BY <1>3, <1>6, <1>7, <1>8 DEF IndInv

(* The shift inserted is the only open one of its user, unless openings overlapped. *)
LEMMA CreateShiftStep ==
  ASSUME IndInv, NEW t \in Terminals, CreateShift(t) PROVE IndInv'
<1> USE TillAssumption
<1> DEFINE u == tx[t].user
<1>1. /\ pc[t] = "create" /\ pc' = [pc EXCEPT ![t] = "off"] /\ tx' = [tx EXCEPT ![t] = NoTx]
      /\ shifts' = [shifts EXCEPT ![u] = @ + 1] /\ UNCHANGED <<day, order, raced>>
  BY DEF CreateShift, Leave, Goto
<1>2. OpensShift(t) /\ u \in Users
  BY <1>1 DEF IndInv, OpensShift, CallIsAbout
<1> HIDE DEF u
<1>3. shifts[u] \in Nat /\ shifts[u] + 1 \in Nat
  BY <1>2 DEF IndInv, TypeOK
<1>4. TypeOK'
  BY <1>1, <1>2, <1>3 DEF IndInv, TypeOK, NoTx
<1>5. OnlyOf(t) /\ ~OpensDay(t)' /\ ~OpensShift(t)' /\ pc'[t] = "off"
  BY <1>1 DEF IndInv, TypeOK, OnlyOf, OpensDay, OpensShift
<1>6. ActiveDay /\ ActiveDay'
  BY <1>1 DEF IndInv, FindingHolds, ActiveDay
<1>7. ASSUME NEW v \in Terminals PROVE CallIsAbout(v)' /\ FindingHolds(v)'
  <2>1. CASE v = t
    BY <1>5, <2>1 DEF CallIsAbout, FindingHolds
  <2>2. CASE v # t
    <3>1. /\ tx'[v] = tx[v] /\ pc'[v] = pc[v] /\ CallIsAbout(v)'
          /\ OpensDay(v)' = OpensDay(v) /\ OpensShift(v)' = OpensShift(v)
      BY <1>5, <2>2, OthersKept
    <3>2. Apart(t, v) /\ FindingHolds(v) /\ CallIsAbout(v)
      BY <2>2 DEF IndInv
    <3>3. OpensShift(v) /\ tx[v].user \notin raced => tx[v].user # u
      BY <1>2, <3>2 DEF Apart, u
    <3>4. OpensShift(v) /\ tx[v].user \notin raced => shifts'[tx[v].user] = 0
      BY <1>1, <3>2, <3>3 DEF FindingHolds, CallIsAbout, IndInv, TypeOK
    <3> QED BY <1>1, <1>6, <3>1, <3>2, <3>4 DEF FindingHolds
  <2> QED BY <2>1, <2>2
<1>8. ASSUME NEW v \in Terminals, NEW w \in Terminals \ {v} PROVE Apart(v, w)'
  <2>1. CASE v = t \/ w = t
    BY <1>5, <2>1 DEF Apart
  <2>2. CASE v # t /\ w # t
    BY <1>5, <2>2, OthersApart
  <2> QED BY <2>1, <2>2
<1>9. OneTillWhenAlone'
  <2>1. OneTillWhenAlone /\ FindingHolds(t) /\ TypeOK
    BY DEF IndInv
  <2>2. u \notin raced => shifts[u] = 0
    BY <1>2, <2>1 DEF FindingHolds, u
  <2>3. \A w \in Users \ raced : shifts'[w] <= 1
    BY <1>1, <1>2, <2>1, <2>2 DEF OneTillWhenAlone, TypeOK
  <2> QED BY <1>1, <1>6, <2>1, <2>3 DEF OneTillWhenAlone
<1> QED BY <1>4, <1>7, <1>8, <1>9 DEF IndInv

\* Placing or ending an order, and stuttering, concern neither days nor shifts.
LEMMA OrderStep ==
  ASSUME IndInv, UNCHANGED <<day, shifts, pc, tx, raced>>,
         order' \in [Orders -> {"ABSENT", "LIVE", "ENDED"}]
  PROVE  IndInv'
<1>1. TypeOK'
  BY DEF IndInv, TypeOK
<1>2. \A t \in Terminals : CallIsAbout(t)' /\ FindingHolds(t)'
  BY DEF IndInv, CallIsAbout, FindingHolds, OpensDay, OpensShift, ActiveDay
<1>3. \A t \in Terminals : \A v \in Terminals \ {t} : Apart(t, v)'
  BY DEF IndInv, Apart, OpensDay, OpensShift
<1>4. OneTillWhenAlone'
  BY DEF IndInv, OneTillWhenAlone, ActiveDay
<1> QED BY <1>1, <1>2, <1>3, <1>4 DEF IndInv

(* The other statements insert nothing. *)
LEMMA ContinueStep ==
  ASSUME IndInv, NEW t \in Terminals, Continue(t) \/ EndInError(t) PROVE IndInv'
<1>1. CASE FindPeriod(t)
  BY <1>1, ContinuesQuietly DEF FindPeriod, Goto, tables
<1>2. CASE InsertDay(t)
  BY <1>2, InsertDayStep
<1>3. CASE FindActiveDay(t)
  BY <1>3, ContinuesQuietly DEF FindActiveDay, Goto, tables
<1>4. CASE CreateShift(t)
  BY <1>4, CreateShiftStep
<1>5. CASE CountUserOrders(t)
  BY <1>5, ContinuesQuietly DEF CountUserOrders, Goto, tables
<1>6. CASE CountOpenShifts(t)
  BY <1>6, ContinuesQuietly DEF CountOpenShifts, Goto, tables
<1>7. CASE CountOpenOrders(t)
  BY <1>7, ContinuesQuietly DEF CountOpenOrders, Goto, tables
<1>8. CASE SumCash(t) \/ EndInError(t)
  BY <1>8, ContinuesQuietly DEF SumCash, EndInError, Leave, Goto, tables
<1> QED BY <1>1, <1>2, <1>3, <1>4, <1>5, <1>6, <1>7, <1>8 DEF Continue

(* Every step keeps the invariant. *)
LEMMA NextIndInv == IndInv /\ [Next]_vars => IndInv'
<1> SUFFICES ASSUME IndInv, [Next]_vars PROVE IndInv'
  OBVIOUS
<1>1. ASSUME NEW t \in Terminals, Begin(t) PROVE IndInv'
  BY <1>1, FindPendingDayStep, FindOpenShiftStep, ClosingBegins DEF Begin
<1>2. ASSUME NEW t \in Terminals, Continue(t) \/ EndInError(t) PROVE IndInv'
  BY <1>2, ContinueStep
<1>3. ASSUME NEW o \in Orders, PlaceOrder(o) \/ EndOrder(o) PROVE IndInv'
  <2>1. order' \in [Orders -> {"ABSENT", "LIVE", "ENDED"}] /\ UNCHANGED <<day, shifts, pc, tx, raced>>
    BY <1>3 DEF IndInv, TypeOK, PlaceOrder, EndOrder
  <2> QED BY <2>1, OrderStep
<1>4. CASE UNCHANGED vars
  BY <1>4, OrderStep DEF IndInv, TypeOK, vars, tables
<1> QED BY <1>1, <1>2, <1>3, <1>4 DEF Next

\* IndInv holds in every reachable state of the day and shift services.
THEOREM Invariance == Spec => []IndInv
<1>1. Init => IndInv
  BY InitIndInv
<1>2. IndInv /\ [Next]_vars => IndInv'
  BY NextIndInv
<1> QED BY <1>1, <1>2, PTL DEF Spec

\* openDay and openShift write only rows of their types.
THEOREM Typing == Spec => []TypeOK
<1>1. IndInv => TypeOK
  BY DEF IndInv
<1> QED BY <1>1, Invariance, PTL

\* Openings that do not overlap leave one open day, one open shift per user, and
\* no shift without a day (openDay, openShift).
THEOREM OneTill == Spec => []OneTillWhenAlone
<1>1. IndInv => OneTillWhenAlone
  BY DEF IndInv
<1> QED BY <1>1, Invariance, PTL
=============================================================================
