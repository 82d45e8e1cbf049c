------------------------------- MODULE TillDay -------------------------------
(***************************************************************************)
(* Day sessions and shifts of one branch: DailyClosingService (openDay,    *)
(* closeDay) and ShiftService (openShift, closeShift), called by           *)
(* terminals.  Every check is a statement of its own, outside any          *)
(* transaction; only the two inserts of openShift are one.                 *)
(*                                                                         *)
(* Both closings pass their checks and then sum up cash payments where     *)
(* branchId and paymentMethod (and, in closeShift, order) have certain     *)
(* values.  The model Payment of schema.prisma has no such fields (it has  *)
(* method and invoiceId), so the client refuses the query: SumCash always  *)
(* fails, and what follows it in the code is never reached.                *)
(*                                                                         *)
(* Data: a shift is created with its drawer and is never closed, so shifts *)
(* are kept as their number per user.  Dates in an open fiscal period are  *)
(* a constant: nothing in the code closes a period.                        *)
(***************************************************************************)
EXTENDS Naturals

CONSTANTS
  Users, Dates, Orders, Terminals,
  None,
  OpenDates,   \* dates that fall within an open fiscal period
  UserOf       \* UserOf[o]: the user who placed order o

ASSUME TillAssumption ==
  /\ None \notin Users /\ None \notin Dates
  /\ "day" \notin Users
  /\ UserOf \in [Orders -> Users]

VARIABLES
  day,      \* daily_closings, one per date (unique index): its status
  shifts,   \* number of OPEN shifts of a user, each with an open drawer
  order,    \* orders: not placed, live, or CLOSED, VOIDED or CANCELLED
  pc, tx,   \* each terminal: next statement, and the user and date of the call
  raced     \* users and "day": about whom two openings overlapped

tables == <<day, shifts, order>>
vars == <<day, shifts, order, pc, tx, raced>>

NoTx == [call |-> "none", user |-> None, date |-> None]

Init ==
  /\ day = [d \in Dates |-> "ABSENT"]
  /\ shifts = [u \in Users |-> 0]
  /\ order = [o \in Orders |-> "ABSENT"]
  /\ pc = [t \in Terminals |-> "off"]
  /\ tx = [t \in Terminals |-> NoTx]
  /\ raced = {}

ActiveDay == \E d \in Dates : day[d] = "PENDING"
LiveOrders == {o \in Orders : order[o] = "LIVE"}

Goto(t, from, to) == pc[t] = from /\ pc' = [pc EXCEPT ![t] = to]
Leave(t, from) ==
  /\ Goto(t, from, "off")
  /\ tx' = [tx EXCEPT ![t] = NoTx]

\* Openings of a day, and openings of a shift by one user, are about the same thing.
Topic(x) == IF x.call = "openDay" THEN "day" ELSE x.user
Enter(t, to, x) ==
  /\ Goto(t, "off", to)
  /\ tx' = [tx EXCEPT ![t] = x]
  /\ raced' = IF \E v \in Terminals \ {t} : tx[v].call = x.call /\ Topic(tx[v]) = Topic(x)
                THEN raced \cup {Topic(x)} ELSE raced
  /\ UNCHANGED tables

-----------------------------------------------------------------------------
(* Faulty variants of definitions below, for the mutants of the runs. *)

FindNoShift(t) ==  \* a user's earlier shift is not looked for
  \E u \in Users : Enter(t, "day", [call |-> "openShift", user |-> u, date |-> None])

-----------------------------------------------------------------------------
(* openDay *)

FindPendingDay(t) ==
  \E d \in Dates :
    /\ ~ActiveDay
    /\ Enter(t, "period", [call |-> "openDay", user |-> None, date |-> d])

FindPeriod(t) ==
  /\ Goto(t, "period", "insert")
  /\ tx[t].date \in OpenDates
  /\ UNCHANGED <<tables, tx, raced>>

InsertDay(t) ==  \* one session per branch and date: unique index
  /\ Leave(t, "insert")
  /\ day[tx[t].date] = "ABSENT"
  /\ day' = [day EXCEPT ![tx[t].date] = "PENDING"]
  /\ UNCHANGED <<shifts, order, raced>>

-----------------------------------------------------------------------------
(* openShift *)

FindOpenShift(t) ==
  \E u \in Users :
    /\ shifts[u] = 0
    /\ Enter(t, "day", [call |-> "openShift", user |-> u, date |-> None])

FindActiveDay(t) ==
  /\ Goto(t, "day", "create")
  /\ ActiveDay
  /\ UNCHANGED <<tables, tx, raced>>

CreateShift(t) ==  \* shift and drawer, one transaction
  /\ Leave(t, "create")
  /\ shifts' = [shifts EXCEPT ![tx[t].user] = @ + 1]
  /\ UNCHANGED <<day, order, raced>>

-----------------------------------------------------------------------------
(* closeShift and closeDay *)

ReadShift(t) ==
  \E u \in Users :
    /\ shifts[u] > 0
    /\ Goto(t, "off", "userOrders")
    /\ tx' = [tx EXCEPT ![t] = [call |-> "closeShift", user |-> u, date |-> None]]
    /\ UNCHANGED <<tables, raced>>

CountUserOrders(t) ==
  /\ Goto(t, "userOrders", "sum")
  /\ \A o \in LiveOrders : UserOf[o] # tx[t].user
  /\ UNCHANGED <<tables, tx, raced>>

ReadDay(t) ==
  \E d \in Dates :
    /\ day[d] = "PENDING"
    /\ Goto(t, "off", "openShifts")
    /\ tx' = [tx EXCEPT ![t] = [call |-> "closeDay", user |-> None, date |-> d]]
    /\ UNCHANGED <<tables, raced>>

CountOpenShifts(t) ==
  /\ Goto(t, "openShifts", "allOrders")
  /\ \A u \in Users : shifts[u] = 0
  /\ UNCHANGED <<tables, tx, raced>>

CountOpenOrders(t) ==  \* then the shifts of the date are read
  /\ Goto(t, "allOrders", "sum")
  /\ LiveOrders = {}
  /\ UNCHANGED <<tables, tx, raced>>

\* The aggregate over payments: refused by the client, the call ends in an error.
SumCash(t) ==
  /\ Leave(t, "sum")
  /\ UNCHANGED <<tables, raced>>

-----------------------------------------------------------------------------
\* A failed check, a unique violation or a lost process; of the sum, SumCash.
EndInError(t) ==
  /\ pc[t] \notin {"off", "sum"}
  /\ Leave(t, pc[t])
  /\ UNCHANGED <<tables, raced>>

\* createOrderWithItems asks for no day session.
PlaceOrder(o) ==
  /\ order[o] = "ABSENT"
  /\ order' = [order EXCEPT ![o] = "LIVE"]
  /\ UNCHANGED <<day, shifts, pc, tx, raced>>

EndOrder(o) ==
  /\ order[o] = "LIVE"
  /\ order' = [order EXCEPT ![o] = "ENDED"]
  /\ UNCHANGED <<day, shifts, pc, tx, raced>>

Begin(t) == FindPendingDay(t) \/ FindOpenShift(t) \/ ReadShift(t) \/ ReadDay(t)
Continue(t) ==
  \/ FindPeriod(t) \/ InsertDay(t) \/ FindActiveDay(t) \/ CreateShift(t)
  \/ CountUserOrders(t) \/ CountOpenShifts(t) \/ CountOpenOrders(t) \/ SumCash(t)

Next ==
  \/ \E t \in Terminals : Begin(t) \/ Continue(t) \/ EndInError(t)
  \/ \E o \in Orders : PlaceOrder(o) \/ EndOrder(o)

Spec == Init /\ [][Next]_vars
\* A call that can go on does.
FairSpec == Spec /\ \A t \in Terminals : WF_vars(Continue(t))

-----------------------------------------------------------------------------
(* Properties. *)

\* The types of the tables and of the calls of DailyClosingService and ShiftService.
TypeOK ==
  /\ day \in [Dates -> {"ABSENT", "PENDING"}]
  /\ shifts \in [Users -> Nat]
  /\ order \in [Orders -> {"ABSENT", "LIVE", "ENDED"}]
  /\ pc \in [Terminals -> {"off", "period", "insert", "day", "create", "userOrders",
                           "openShifts", "allOrders", "sum"}]
  /\ tx \in [Terminals -> [call : {"none", "openDay", "openShift", "closeShift", "closeDay"},
                           user : Users \cup {None}, date : Dates \cup {None}]]
  /\ raced \subseteq Users \cup {"day"}

\* While no two openings overlapped, a user has one open shift and a branch one
\* open day, and nobody has a shift without a day (openShift, openDay): although
\* the three checks and the inserts are separate statements.
OneTillWhenAlone ==
  /\ \A u \in Users \ raced : shifts[u] <= 1
  /\ "day" \notin raced =>
       \A d, e \in Dates : day[d] = "PENDING" /\ day[e] = "PENDING" => d = e
  /\ (\E u \in Users : shifts[u] > 0) => ActiveDay

\* A closing of a shift whose checks have passed closes it (closeShift).
CheckedShiftCloses ==
  \A u \in Users : (\E t \in Terminals : pc[t] = "sum" /\ tx[t].user = u) ~> shifts[u] = 0
=============================================================================
