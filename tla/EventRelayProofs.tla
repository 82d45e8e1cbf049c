--------------------------- MODULE EventRelayProofs ---------------------------
(***************************************************************************)
(* Theorems about EventRelay, for every set of servers, sockets and        *)
(* branches and every number of events and failures.                       *)
(*                                                                         *)
(* IndInv follows an event from inbox to heard.  Of two dispatches that    *)
(* wait for their next callback, the earlier event is never behind         *)
(* (ResumesSound), so that each copy a callback emits is later than those  *)
(* it has emitted and earlier than those it will emit (CopyPlaced), and    *)
(* the adapter's queue keeps that order (ClusterSound, HeardSound).        *)
(***************************************************************************)
EXTENDS EventRelay, SequenceTheorems, TLAPS

Registered(w) ==
  /\ asking[w] \subseteq known[w]
  /\ \A b \in Branches :
       /\ callbacks[w][b] <= failed[w][b] + 1
       /\ b \notin known[w] => callbacks[w][b] <= failed[w][b]

InboxSound(w) ==
  /\ \A i \in DOMAIN inbox[w] : inbox[w][i] \in 1..Len(published)
  /\ \A i, j \in DOMAIN inbox[w] : i < j => inbox[w][i] < inbox[w][j]

\* Between two waiting dispatches of one server, p before r in the queue.
InTurn(p, r) ==
  \/ p.n < r.n /\ p.next >= r.next
  \/ p.n > r.n /\ p.next < r.next

ResumesSound(w) ==
  /\ \A i \in DOMAIN resumes[w] :
       /\ resumes[w][i].n \in 1..Len(published)
       /\ 2 <= resumes[w][i].next /\ resumes[w][i].next <= resumes[w][i].last
       /\ resumes[w][i].last <= failed[w][published[resumes[w][i].n].branch] + 1
       /\ \A k \in DOMAIN inbox[w] : resumes[w][i].n < inbox[w][k]
  /\ \A i, j \in DOMAIN resumes[w] : i < j => InTurn(resumes[w][i], resumes[w][j])

\* What the callback that emitted m has still to emit is later than m.
CopyPlaced(m) ==
  /\ m.n \in 1..Len(published)
  /\ \A i \in DOMAIN inbox[m.from] : m.n < inbox[m.from][i]
  /\ \A i \in DOMAIN resumes[m.from] :
       resumes[m.from][i].next <= m.callback => m.n < resumes[m.from][i].n

IsIn(m, copies) == \E i \in DOMAIN copies : copies[i] = m

\* m is later than every copy that its callback has among copies.
After(copies, m) ==
  \A k \in Copies : IsIn(k, copies) /\ SameCallback(k, m) => k.n < m.n

ClusterSound(w) ==
  /\ \A m \in Copies : IsIn(m, cluster[w]) => m.from # w /\ CopyPlaced(m)
  /\ InOrder(cluster[w])

HeardSound(s) ==
  /\ \A m \in Copies : IsIn(m, heard[s]) =>
       /\ CopyPlaced(m) /\ BranchOf[s] \in Branches
       /\ m.from = at[s] => m.callback <= failed[at[s]][BranchOf[s]] + 1
  /\ InOrder(heard[s])
  /\ at[s] = None => heard[s] = <<>>
  /\ at[s] # None => \A m \in Copies : IsIn(m, cluster[at[s]]) => After(heard[s], m)

IndInv ==
  /\ TypeOK
  /\ \A w \in Servers : Registered(w) /\ InboxSound(w) /\ ResumesSound(w) /\ ClusterSound(w)
  /\ \A s \in Sockets : HeardSound(s)

-----------------------------------------------------------------------------
(* Sequences *)

(* A queue with one more element. *)
LEMMA AppendFacts ==
  ASSUME NEW S, NEW q \in Seq(S), NEW m \in S
  PROVE  /\ Append(q, m) \in Seq(S)
         /\ DOMAIN q = 1..Len(q) /\ Len(q) \in Nat
         /\ DOMAIN Append(q, m) = 1..(Len(q) + 1)
         /\ \A i \in DOMAIN q : Append(q, m)[i] = q[i]
         /\ Append(q, m)[Len(q) + 1] = m
BY AppendProperties, LenProperties

(* A queue without its first element. *)
LEMMA TailFacts ==
  ASSUME NEW S, NEW q \in Seq(S), q # <<>>
  PROVE  /\ Tail(q) \in Seq(S) /\ Head(q) \in S
         /\ 1 \in DOMAIN q /\ Head(q) = q[1]
         /\ \A i \in DOMAIN Tail(q) : i + 1 \in DOMAIN q /\ Tail(q)[i] = q[i + 1] /\ 1 < i + 1
         /\ DOMAIN Tail(q) \subseteq Nat
BY HeadTailProperties, LenProperties

(* What is in a queue with one more element. *)
LEMMA IsInAppend ==
  ASSUME NEW q \in Seq(Copies), NEW a \in Copies, NEW m
  PROVE  IsIn(m, Append(q, a)) <=> IsIn(m, q) \/ m = a
<1>1. /\ DOMAIN q = 1..Len(q) /\ Len(q) \in Nat
      /\ DOMAIN Append(q, a) = 1..(Len(q) + 1)
      /\ \A i \in DOMAIN q : Append(q, a)[i] = q[i]
      /\ Append(q, a)[Len(q) + 1] = a
  BY AppendFacts
<1>2. DOMAIN Append(q, a) = DOMAIN q \cup {Len(q) + 1}
  BY <1>1
<1> QED BY <1>1, <1>2 DEF IsIn

(* A queue stays in order with a later element. *)
LEMMA AppendInOrder ==
  ASSUME NEW q \in Seq(Copies), NEW m \in Copies, InOrder(q), After(q, m)
  PROVE  InOrder(Append(q, m))
<1> DEFINE a == Append(q, m)
<1>1. /\ DOMAIN q = 1..Len(q) /\ Len(q) \in Nat
      /\ DOMAIN a = 1..(Len(q) + 1)
      /\ \A i \in DOMAIN q : a[i] = q[i]
      /\ a[Len(q) + 1] = m
  BY AppendFacts
<1> HIDE DEF a
<1>2. SUFFICES ASSUME NEW i \in DOMAIN a, NEW j \in DOMAIN a, i < j, SameCallback(a[i], a[j])
               PROVE  a[i].n < a[j].n
  BY DEF InOrder, a
<1>3. i \in DOMAIN q /\ a[i] = q[i]
  BY <1>1, <1>2
<1>4. CASE j \in DOMAIN q
  BY <1>1, <1>2, <1>3, <1>4 DEF InOrder
<1>5. CASE j = Len(q) + 1
  <2>1. q[i] \in Copies /\ IsIn(q[i], q)
    BY <1>1, <1>3 DEF IsIn
  <2> QED BY <1>1, <1>2, <1>3, <1>5, <2>1 DEF After
<1> QED BY <1>1, <1>4, <1>5

\* The head of a queue in order is earlier than the rest.
LEMMA TailInOrder ==
  ASSUME NEW q \in Seq(Copies), q # <<>>, InOrder(q)
  PROVE  /\ InOrder(Tail(q))
         /\ IsIn(Head(q), q)
         /\ \A m \in Copies : IsIn(m, Tail(q)) =>
              IsIn(m, q) /\ (SameCallback(Head(q), m) => Head(q).n < m.n)
<1>1. /\ 1 \in DOMAIN q /\ Head(q) = q[1]
      /\ \A i \in DOMAIN Tail(q) : i + 1 \in DOMAIN q /\ Tail(q)[i] = q[i + 1] /\ 1 < i + 1
      /\ DOMAIN Tail(q) \subseteq Nat
  BY TailFacts
<1>2. InOrder(Tail(q))
  <2>1. SUFFICES ASSUME NEW i \in DOMAIN Tail(q), NEW j \in DOMAIN Tail(q), i < j,
                        SameCallback(Tail(q)[i], Tail(q)[j])
                 PROVE  Tail(q)[i].n < Tail(q)[j].n
    BY DEF InOrder
  <2>2. i + 1 < j + 1
    BY <1>1, <2>1
  <2> QED BY <1>1, <2>1, <2>2 DEF InOrder
<1> QED BY <1>1, <1>2 DEF InOrder, IsIn

(* Nothing is in order. *)
LEMMA EmptyInOrder == InOrder(<<>>)
BY DEF InOrder

-----------------------------------------------------------------------------
(* Nothing is published, queued or heard at first. *)
LEMMA InitIndInv == Init => IndInv
<1> SUFFICES ASSUME Init PROVE IndInv
  OBVIOUS
<1> USE RelayAssumption
<1>1. TypeOK
  BY DEF TypeOK, Init
<1>2. ASSUME NEW w \in Servers
      PROVE  Registered(w) /\ InboxSound(w) /\ ResumesSound(w) /\ ClusterSound(w)
  <2>1. /\ inbox[w] = <<>> /\ resumes[w] = <<>> /\ cluster[w] = <<>>
        /\ asking[w] = {} /\ callbacks[w] = [b \in Branches |-> 0]
        /\ failed[w] = [b \in Branches |-> 0]
    BY DEF Init
  <2>2. Registered(w)
    BY <2>1 DEF Registered
  <2>3. InboxSound(w) /\ ResumesSound(w)
    BY <2>1 DEF InboxSound, ResumesSound
  <2>4. ClusterSound(w)
    BY <2>1, EmptyInOrder DEF ClusterSound, IsIn
  <2> QED BY <2>2, <2>3, <2>4
<1>3. ASSUME NEW s \in Sockets PROVE HeardSound(s)
  <2>1. heard[s] = <<>>
    BY DEF Init
  <2> QED BY <2>1, EmptyInOrder DEF HeardSound, After, IsIn
<1> QED BY <1>1, <1>2, <1>3 DEF IndInv

-----------------------------------------------------------------------------
(* Steps that dispatch nothing *)

\* Redis sends only new events, or loses some.
OnlyNewInbox ==
  /\ Len(published) <= Len(published')
  /\ \A i \in 1..Len(published) : published'[i] = published[i]
  /\ \A w \in Servers : \A i \in DOMAIN inbox'[w] :
       \/ \E k \in DOMAIN inbox[w] : inbox'[w][i] = inbox[w][k]
       \/ inbox'[w][i] = Len(published) + 1

(* Events are numbered by publication. *)
LEMMA Lengths ==
  ASSUME TypeOK PROVE Len(published) \in Nat /\ DOMAIN published = 1..Len(published)
BY LenProperties DEF TypeOK

(* An event is of a branch. *)
LEMMA BranchTyped ==
  ASSUME TypeOK, NEW n \in 1..Len(published) PROVE published[n].branch \in Branches
<1>1. published \in Seq(Events) /\ n \in DOMAIN published
  BY Lengths DEF TypeOK
<1>2. published[n] \in Events
  BY <1>1
<1> QED BY <1>2 DEF Events

\* No event that Redis has sent is earlier than n if none was and new ones are later.
LEMMA NothingEarlier ==
  ASSUME TypeOK, OnlyNewInbox, NEW w \in Servers, NEW n \in 1..Len(published),
         \A i \in DOMAIN inbox[w] : n < inbox[w][i]
  PROVE  /\ n \in 1..Len(published')
         /\ \A i \in DOMAIN inbox'[w] : n < inbox'[w][i]
<1>1. Len(published) \in Nat /\ Len(published) <= Len(published')
  BY Lengths DEF OnlyNewInbox
<1>2. ASSUME NEW i \in DOMAIN inbox'[w] PROVE n < inbox'[w][i]
  <2>1. CASE \E k \in DOMAIN inbox[w] : inbox'[w][i] = inbox[w][k]
    BY <2>1
  <2>2. CASE inbox'[w][i] = Len(published) + 1
    BY <1>1, <2>2
  <2> QED BY <1>2, <2>1, <2>2 DEF OnlyNewInbox
<1>3. n <= Len(published') /\ n \in Nat
  BY <1>1
<1>4. Len(published') \in Int
  BY <1>1, <1>3 DEF OnlyNewInbox
<1> QED BY <1>2, <1>3, <1>4

(* A copy that has its place keeps it when only inboxes grow. *)
LEMMA PlaceKept ==
  ASSUME TypeOK, TypeOK', OnlyNewInbox, UNCHANGED resumes,
         NEW m \in Copies, CopyPlaced(m)
  PROVE  CopyPlaced(m)'
<1>1. m.from \in Servers
  BY DEF Copies
<1> QED BY <1>1, NothingEarlier DEF CopyPlaced

(* A step that emits nothing keeps the invariant if inboxes and registrations stay      *)
(* sound.                                                                               *)
LEMMA QuietStep ==
  ASSUME IndInv, TypeOK', OnlyNewInbox, UNCHANGED <<resumes, cluster>>,
         \A w \in Servers : Registered(w)' /\ InboxSound(w)',
         \A w \in Servers, b \in Branches : failed[w][b] <= failed'[w][b],
         \A s \in Sockets : /\ at'[s] = None => heard'[s] = <<>>
                            /\ \/ heard'[s] = <<>>
                               \/ heard'[s] = heard[s] /\ at'[s] = at[s]
  PROVE  IndInv'
<1> USE RelayAssumption
<1>0. TypeOK
  BY DEF IndInv
<1>1. ASSUME NEW w \in Servers PROVE ResumesSound(w)'
  <2>1. ResumesSound(w)
    BY DEF IndInv
  <2>2. ASSUME NEW i \in DOMAIN resumes[w]
        PROVE  /\ resumes[w][i].n \in 1..Len(published')
               /\ \A k \in DOMAIN inbox'[w] : resumes[w][i].n < inbox'[w][k]
    <3>1. /\ resumes[w][i].n \in 1..Len(published)
          /\ \A k \in DOMAIN inbox[w] : resumes[w][i].n < inbox[w][k]
      BY <2>1, <2>2 DEF ResumesSound
    <3> QED BY <1>0, <3>1, NothingEarlier
  <2>3. ASSUME NEW i \in DOMAIN resumes[w]
        PROVE  resumes[w][i].last <= failed'[w][published'[resumes[w][i].n].branch] + 1
    <3>1. /\ resumes[w][i].n \in 1..Len(published)
          /\ resumes[w][i].last <= failed[w][published[resumes[w][i].n].branch] + 1
      BY <2>1, <2>3 DEF ResumesSound
    <3>2. PICK n \in 1..Len(published) : n = resumes[w][i].n
      BY <3>1
    <3>3. PICK b \in Branches : published[n].branch = b
      BY <1>0, BranchTyped
    <3>4. published'[n].branch = b
      BY <3>3 DEF OnlyNewInbox
    <3>5. resumes[w][i] \in Resumes
      BY <1>0, <2>3 DEF TypeOK
    <3>6. resumes[w][i].last \in Nat /\ failed[w][b] \in Nat /\ failed'[w][b] \in Nat
      BY <1>0, <3>5 DEF TypeOK, Resumes
    <3>7. failed[w][b] <= failed'[w][b]
      OBVIOUS
    <3> QED BY <3>1, <3>2, <3>3, <3>4, <3>6, <3>7
  <2> QED BY <2>1, <2>2, <2>3 DEF ResumesSound
<1>2. ASSUME NEW w \in Servers PROVE ClusterSound(w)'
  <2>1. ClusterSound(w) /\ cluster[w] \in Seq(Copies)
    BY <1>0 DEF IndInv, TypeOK
  <2>2. ASSUME NEW m \in Copies, IsIn(m, cluster[w]) PROVE m.from # w /\ CopyPlaced(m)'
    BY <1>0, <2>1, <2>2, PlaceKept DEF ClusterSound
  <2> QED BY <2>1, <2>2 DEF ClusterSound
<1>3. ASSUME NEW s \in Sockets PROVE HeardSound(s)'
  <2>1. CASE heard'[s] = <<>>
    BY <2>1, EmptyInOrder DEF HeardSound, After, IsIn
  <2>2. CASE heard'[s] = heard[s] /\ at'[s] = at[s]
    <3>1. HeardSound(s) /\ heard[s] \in Seq(Copies) /\ at[s] \in Servers \cup {None}
      BY <1>0 DEF IndInv, TypeOK
    <3>2. ASSUME NEW m \in Copies, IsIn(m, heard[s])
          PROVE  /\ CopyPlaced(m)' /\ BranchOf[s] \in Branches
                 /\ m.from = at[s] => m.callback <= failed'[at[s]][BranchOf[s]] + 1
      <4>1. /\ CopyPlaced(m) /\ BranchOf[s] \in Branches
            /\ m.from = at[s] => m.callback <= failed[at[s]][BranchOf[s]] + 1
        BY <3>1, <3>2 DEF HeardSound
      <4>2. ASSUME m.from = at[s] PROVE m.callback <= failed'[at[s]][BranchOf[s]] + 1
        <5>1. PICK w \in Servers, b \in Branches : w = at[s] /\ b = BranchOf[s]
          BY <4>1, <4>2 DEF Copies
        <5>2. failed[w][b] <= failed'[w][b]
          OBVIOUS
        <5>3. failed[w][b] \in Nat /\ failed'[w][b] \in Nat /\ m.callback \in Nat
          BY <1>0 DEF TypeOK, Copies
        <5> QED BY <4>1, <4>2, <5>1, <5>2, <5>3
      <4> QED BY <1>0, <4>1, <4>2, PlaceKept
    <3> QED BY <2>2, <3>1, <3>2 DEF HeardSound
  <2> QED BY <2>1, <2>2
<1> QED BY <1>1, <1>2, <1>3 DEF IndInv

(* An event published is later than every one in an inbox. *)
LEMMA PublishStep ==
  ASSUME IndInv, NEW b \in Branches, NEW kind \in Kinds, Publish(b, kind) PROVE IndInv'
<1>0. TypeOK /\ Len(published) \in Nat
  BY Lengths DEF IndInv
<1>1. [branch |-> b, kind |-> kind] \in Events /\ published \in Seq(Events)
  BY <1>0 DEF TypeOK, Events
<1>2. /\ published' \in Seq(Events) /\ Len(published') = Len(published) + 1
      /\ \A i \in 1..Len(published) : published'[i] = published[i]
  BY <1>1, AppendFacts, AppendProperties DEF Publish
<1>3. ASSUME NEW w \in Servers
      PROVE  /\ inbox'[w] \in Seq(Nat) /\ InboxSound(w)'
             /\ \A i \in DOMAIN inbox'[w] :
                  \/ \E k \in DOMAIN inbox[w] : inbox'[w][i] = inbox[w][k]
                  \/ inbox'[w][i] = Len(published) + 1
  <2> DEFINE q == inbox[w]
             e == Len(published) + 1
  <2>1. q \in Seq(Nat) /\ InboxSound(w) /\ e \in Nat
    BY <1>0 DEF IndInv, TypeOK
  <2>2. CASE inbox'[w] = q
    BY <1>0, <1>2, <2>1, <2>2 DEF InboxSound
  <2>3. CASE inbox'[w] = Append(q, e)
    <3>1. /\ Append(q, e) \in Seq(Nat)
          /\ DOMAIN q = 1..Len(q) /\ Len(q) \in Nat
          /\ DOMAIN Append(q, e) = 1..(Len(q) + 1)
          /\ \A i \in DOMAIN q : Append(q, e)[i] = q[i]
          /\ Append(q, e)[Len(q) + 1] = e
      BY <2>1, AppendFacts
    <3>2. \A i \in DOMAIN inbox'[w] : i \in DOMAIN q \/ i = Len(q) + 1
      BY <2>3, <3>1
    <3>3. ASSUME NEW i \in DOMAIN q PROVE inbox'[w][i] = q[i] /\ q[i] \in 1..Len(published) /\ q[i] < e
      BY <1>0, <2>1, <2>3, <3>1, <3>3 DEF InboxSound
    <3>4. ASSUME NEW i \in DOMAIN inbox'[w] PROVE inbox'[w][i] \in 1..Len(published')
      BY <1>0, <1>2, <2>3, <3>1, <3>2, <3>3, <3>4
    <3>5. ASSUME NEW i \in DOMAIN inbox'[w], NEW j \in DOMAIN inbox'[w], i < j
          PROVE  inbox'[w][i] < inbox'[w][j]
      <4>1. i \in DOMAIN q
        BY <2>3, <3>1, <3>5
      <4>2. CASE j \in DOMAIN q
        BY <2>1, <3>3, <3>5, <4>1, <4>2 DEF InboxSound
      <4>3. CASE j = Len(q) + 1
        BY <2>3, <3>1, <3>3, <4>1, <4>3
      <4> QED BY <3>2, <4>2, <4>3
    <3> QED BY <2>3, <3>1, <3>2, <3>3, <3>4, <3>5 DEF InboxSound
  <2>4. inbox'[w] = q \/ inbox'[w] = Append(q, e)
    BY DEF Publish
  <2> QED BY <2>2, <2>3, <2>4
<1>4. inbox' \in [Servers -> Seq(Nat)]
  BY <1>3 DEF Publish
<1>5. TypeOK'
  BY <1>0, <1>2, <1>4 DEF TypeOK, Publish, registration
<1>6. OnlyNewInbox
  BY <1>0, <1>2, <1>3 DEF OnlyNewInbox
<1>7. \A w \in Servers : Registered(w)'
  BY DEF IndInv, Registered, Publish, registration
<1>8. /\ UNCHANGED <<resumes, cluster>>
      /\ \A w \in Servers, x \in Branches : failed[w][x] <= failed'[w][x]
      /\ \A s \in Sockets : at'[s] = None => heard'[s] = <<>>
      /\ \A s \in Sockets : heard'[s] = heard[s] /\ at'[s] = at[s]
  BY <1>0 DEF Publish, registration, IndInv, HeardSound, TypeOK
<1> QED BY <1>3, <1>5, <1>6, <1>7, <1>8, QuietStep

\* Steps that change neither the events nor what was heard, and at most empty inboxes.
LEMMA SubscriptionStep ==
  ASSUME IndInv, TypeOK', UNCHANGED <<published, resumes, cluster>>,
         \A w \in Servers : inbox'[w] = inbox[w] \/ inbox'[w] = <<>>,
         \A w \in Servers : Registered(w)',
         \A w \in Servers, b \in Branches : failed[w][b] <= failed'[w][b],
         \A s \in Sockets : /\ at'[s] = None => heard'[s] = <<>>
                            /\ \/ heard'[s] = <<>>
                               \/ heard'[s] = heard[s] /\ at'[s] = at[s]
  PROVE  IndInv'
<1>1. \A w \in Servers : InboxSound(w)'
  BY DEF IndInv, InboxSound
<1>2. OnlyNewInbox
  BY Lengths DEF OnlyNewInbox, IndInv
<1> QED BY <1>1, <1>2, QuietStep

(* Losing or regaining Redis emits nothing. *)
LEMMA LinkStep ==
  ASSUME IndInv, NEW w \in Servers, LinkLost(w) \/ Ready(w) PROVE IndInv'
<1>0. TypeOK
  BY DEF IndInv
<1>1. <<>> \in Seq(Nat) /\ ActiveChannels(w) \subseteq Branches
  BY DEF ActiveChannels
<1>2. TypeOK'
  <2>1. CASE LinkLost(w)
    BY <1>0, <1>1, <2>1 DEF TypeOK, LinkLost
  <2>2. CASE Ready(w)
    BY <1>0, <1>1, <2>2 DEF TypeOK, Ready, transport
  <2> QED BY <2>1, <2>2
<1>3. \A v \in Servers : Registered(v)' /\ (inbox'[v] = inbox[v] \/ inbox'[v] = <<>>)
  BY <1>0 DEF IndInv, TypeOK, Registered, LinkLost, Ready, transport
<1>4. /\ UNCHANGED <<published, resumes, cluster>>
      /\ \A v \in Servers, x \in Branches : failed[v][x] <= failed'[v][x]
      /\ \A s \in Sockets : at'[s] = None => heard'[s] = <<>>
      /\ \A s \in Sockets : heard'[s] = heard[s] /\ at'[s] = at[s]
  BY <1>0 DEF LinkLost, Ready, transport, IndInv, HeardSound, TypeOK
<1> QED BY <1>2, <1>3, <1>4, SubscriptionStep

(* The answer to a subscription emits nothing; a refused one is counted. *)
LEMMA AnswerStep ==
  ASSUME IndInv, NEW w \in Servers, NEW b \in Branches,
         SubscribeAnswered(w, b) \/ SubscribeRefused(w, b)
  PROVE  IndInv'
<1>0. TypeOK
  BY DEF IndInv
<1>1. failed[w][b] \in Nat /\ failed[w][b] + 1 \in Nat
  BY <1>0 DEF TypeOK
<1>2. TypeOK'
  <2>1. CASE SubscribeAnswered(w, b)
    BY <1>0, <2>1 DEF TypeOK, SubscribeAnswered, transport
  <2>2. CASE SubscribeRefused(w, b)
    BY <1>0, <1>1, <2>2 DEF TypeOK, SubscribeRefused, transport
  <2> QED BY <2>1, <2>2
<1>3. ASSUME NEW v \in Servers, NEW x \in Branches
      PROVE  /\ failed[v][x] <= failed'[v][x]
             /\ callbacks'[v][x] <= failed'[v][x] + 1
             /\ x \notin known'[v] => callbacks'[v][x] <= failed'[v][x]
  <2>1. /\ failed[v][x] \in Nat /\ callbacks[v][x] \in Nat
        /\ callbacks[v][x] <= failed[v][x] + 1
        /\ x \notin known[v] => callbacks[v][x] <= failed[v][x]
    BY <1>0 DEF IndInv, TypeOK, Registered
  <2>2. CASE SubscribeAnswered(w, b)
    BY <2>1, <2>2 DEF SubscribeAnswered
  <2>3. CASE SubscribeRefused(w, b) /\ v = w /\ x = b
    BY <1>0, <2>1, <2>3 DEF SubscribeRefused, TypeOK
  <2>4. CASE SubscribeRefused(w, b) /\ ~(v = w /\ x = b)
    BY <1>0, <2>1, <2>4 DEF SubscribeRefused, TypeOK
  <2> QED BY <2>2, <2>3, <2>4
<1>4. ASSUME NEW v \in Servers PROVE asking'[v] \subseteq known'[v]
  <2>1. asking[v] \subseteq known[v]
    BY DEF IndInv, Registered
  <2>2. CASE SubscribeAnswered(w, b)
    BY <1>0, <2>1, <2>2 DEF TypeOK, SubscribeAnswered
  <2>3. CASE SubscribeRefused(w, b)
    BY <1>0, <2>1, <2>3 DEF TypeOK, SubscribeRefused
  <2> QED BY <2>2, <2>3
<1>5. \A v \in Servers : Registered(v)'
  BY <1>3, <1>4 DEF Registered
<1>6. /\ UNCHANGED <<published, resumes, cluster, inbox>>
      /\ \A s \in Sockets : at'[s] = None => heard'[s] = <<>>
      /\ \A s \in Sockets : heard'[s] = heard[s] /\ at'[s] = at[s]
  BY DEF SubscribeAnswered, SubscribeRefused, transport, IndInv, HeardSound
<1> QED BY <1>2, <1>3, <1>5, <1>6, SubscriptionStep

(* A socket that connects has heard nothing. *)
LEMMA HandleConnectionStep ==
  ASSUME IndInv, NEW s \in Sockets, NEW w \in Servers, HandleConnection(s, w) PROVE IndInv'
<1> USE RelayAssumption
<1>0. TypeOK
  BY DEF IndInv
<1>1. /\ \A v \in Servers : Registered(v)' /\ failed' = failed
      /\ known' \in [Servers -> SUBSET Branches] /\ asking' \in [Servers -> SUBSET Branches]
      /\ callbacks' \in [Servers -> [Branches -> Nat]] /\ UNCHANGED subscribed
  <2>1. CASE UNCHANGED registration
    BY <1>0, <2>1 DEF registration, IndInv, TypeOK, Registered
  <2>2. CASE ~UNCHANGED registration
    <3>1. PICK b \in Branches :
            /\ b \notin known[w]
            /\ known' = [known EXCEPT ![w] = @ \cup {b}]
            /\ callbacks' = [callbacks EXCEPT ![w][b] = @ + 1]
            /\ asking' = [asking EXCEPT ![w] = @ \cup {b}]
            /\ UNCHANGED <<subscribed, failed>>
      BY <2>2 DEF HandleConnection, SubscribeToBranch
    <3>2. callbacks[w][b] \in Nat /\ callbacks[w][b] + 1 \in Nat
      BY <1>0 DEF TypeOK
    <3>3. /\ known' \in [Servers -> SUBSET Branches] /\ asking' \in [Servers -> SUBSET Branches]
          /\ callbacks' \in [Servers -> [Branches -> Nat]]
      BY <1>0, <3>1, <3>2 DEF TypeOK
    <3>4. ASSUME NEW v \in Servers, NEW x \in Branches
          PROVE  /\ callbacks'[v][x] <= failed[v][x] + 1
                 /\ x \notin known'[v] => callbacks'[v][x] <= failed[v][x]
      <4>1. /\ failed[v][x] \in Nat /\ callbacks[v][x] \in Nat
            /\ callbacks[v][x] <= failed[v][x] + 1
            /\ x \notin known[v] => callbacks[v][x] <= failed[v][x]
        BY <1>0 DEF IndInv, TypeOK, Registered
      <4>2. CASE v = w /\ x = b
        BY <1>0, <3>1, <4>1, <4>2 DEF TypeOK
      <4>3. CASE ~(v = w /\ x = b)
        BY <1>0, <3>1, <4>1, <4>3 DEF TypeOK
      <4> QED BY <4>2, <4>3
    <3>5. \A v \in Servers : asking'[v] \subseteq known'[v]
      BY <1>0, <3>1 DEF IndInv, TypeOK, Registered
    <3> QED BY <3>1, <3>3, <3>4, <3>5 DEF Registered
  <2> QED BY <2>1, <2>2
<1>2. TypeOK'
  BY <1>0, <1>1 DEF TypeOK, HandleConnection, transport
<1>3. /\ UNCHANGED <<published, resumes, cluster, inbox>>
      /\ \A v \in Servers, x \in Branches : failed[v][x] <= failed'[v][x]
  BY <1>0, <1>1 DEF HandleConnection, transport, TypeOK
<1>4. ASSUME NEW u \in Sockets
      PROVE  /\ at'[u] = None => heard'[u] = <<>>
             /\ heard'[u] = <<>> \/ (heard'[u] = heard[u] /\ at'[u] = at[u])
  BY <1>0 DEF HandleConnection, transport, IndInv, TypeOK, HeardSound
<1> QED BY <1>1, <1>2, <1>3, <1>4, SubscriptionStep

(* A socket that leaves hears nothing more. *)
LEMMA DisconnectStep ==
  ASSUME IndInv, NEW s \in Sockets, Disconnect(s) PROVE IndInv'
<1>0. TypeOK
  BY DEF IndInv
<1>1. TypeOK'
  BY <1>0 DEF TypeOK, Disconnect, registration
<1>2. /\ UNCHANGED <<published, resumes, cluster, inbox>>
      /\ \A v \in Servers : Registered(v)'
      /\ \A v \in Servers, x \in Branches : failed[v][x] <= failed'[v][x]
  BY <1>0 DEF Disconnect, registration, TypeOK, IndInv, Registered
<1>3. ASSUME NEW u \in Sockets
      PROVE  /\ at'[u] = None => heard'[u] = <<>>
             /\ heard'[u] = <<>> \/ (heard'[u] = heard[u] /\ at'[u] = at[u])
  BY <1>0 DEF Disconnect, IndInv, TypeOK, HeardSound
<1> QED BY <1>1, <1>2, <1>3, SubscriptionStep

-----------------------------------------------------------------------------
(* Steps that dispatch *)

(* A relayed copy is typed and goes to the sockets of its branch at this server and to  *)
(* the other servers.                                                                   *)
LEMMA EmitTyped ==
  ASSUME TypeOK, NEW w \in Servers, NEW c \in Nat, NEW n \in 1..Len(published), Relay(w, c, n)
  PROVE  LET m == [from |-> w, callback |-> c, n |-> n]
             b == published[n].branch
         IN /\ m \in Copies
            /\ \A s \in Sockets :
                 \/ heard'[s] = heard[s]
                 \/ at[s] = w /\ BranchOf[s] = b /\ heard'[s] = Append(heard[s], m)
            /\ \A v \in Servers :
                 \/ cluster'[v] = cluster[v]
                 \/ v # w /\ cluster'[v] = Append(cluster[v], m)
            /\ DOMAIN heard' = Sockets /\ DOMAIN cluster' = Servers
            /\ heard' \in [Sockets -> Seq(Copies)] /\ cluster' \in [Servers -> Seq(Copies)]
<1> DEFINE m == [from |-> w, callback |-> c, n |-> n]
           b == published[n].branch
<1>1. m \in Copies
  BY Lengths DEF Copies
<1>2. /\ \A s \in Sockets : heard[s] \in Seq(Copies) /\ Append(heard[s], m) \in Seq(Copies)
      /\ \A v \in Servers : cluster[v] \in Seq(Copies) /\ Append(cluster[v], m) \in Seq(Copies)
  BY <1>1, AppendFacts DEF TypeOK
<1>3. CASE published[n].kind = Status
  <2>1. EmitLocally(w, m)
    BY <1>3 DEF Relay
  <2>2. PICK reached \in SUBSET (Servers \ {w}) :
          cluster' = [v \in Servers |-> IF v \in reached THEN Append(cluster[v], m) ELSE cluster[v]]
    BY <1>3 DEF Relay
  <2>3. heard' = [s \in Sockets |-> IF s \in Room(w, b) THEN Append(heard[s], m) ELSE heard[s]]
    BY <2>1 DEF EmitLocally
  <2> HIDE DEF m
  <2>4. heard' \in [Sockets -> Seq(Copies)] /\ cluster' \in [Servers -> Seq(Copies)]
    BY <1>2, <2>2, <2>3
  <2>5. \A s \in Sockets : \/ heard'[s] = heard[s]
                           \/ at[s] = w /\ BranchOf[s] = b /\ heard'[s] = Append(heard[s], m)
    BY <2>3 DEF Room
  <2>6. \A v \in Servers : \/ cluster'[v] = cluster[v]
                           \/ v # w /\ cluster'[v] = Append(cluster[v], m)
    BY <2>2
  <2> QED BY <1>1, <2>4, <2>5, <2>6 DEF m
<1>4. CASE published[n].kind # Status
  BY <1>1, <1>4 DEF Relay, TypeOK
<1> QED BY <1>3, <1>4

(* A copy relayed in its turn is later than those its callback has relayed. *)
LEMMA EmitStep ==
  ASSUME IndInv, NEW w \in Servers, NEW c \in Nat, NEW n \in 1..Len(published), Relay(w, c, n),
         NEW m, m = [from |-> w, callback |-> c, n |-> n],
         UNCHANGED <<published, link, at, registration>>,
         inbox' \in [Servers -> Seq(Nat)], resumes' \in [Servers -> Seq(Resumes)],
         \A v \in Servers : InboxSound(v)' /\ ResumesSound(v)',
         CopyPlaced(m)',
         \A k \in Copies : CopyPlaced(k) =>
           CopyPlaced(k)' /\ (SameCallback(k, m) => k.n < n),
         c <= failed[w][published[n].branch] + 1
  PROVE  IndInv'
<1> USE RelayAssumption
<1>0. TypeOK
  BY DEF IndInv
<1> DEFINE b == published[n].branch
<1>1. b \in Branches /\ m \in Copies /\ m.from = w /\ m.n = n /\ m.callback = c
  BY <1>0, BranchTyped, EmitTyped
<1>2. /\ \A s \in Sockets :
           \/ heard'[s] = heard[s]
           \/ at[s] = w /\ BranchOf[s] = b /\ heard'[s] = Append(heard[s], m)
      /\ \A v \in Servers :
           \/ cluster'[v] = cluster[v]
           \/ v # w /\ cluster'[v] = Append(cluster[v], m)
      /\ heard' \in [Sockets -> Seq(Copies)] /\ cluster' \in [Servers -> Seq(Copies)]
  BY <1>0, EmitTyped
<1>3. TypeOK'
  BY <1>0, <1>2 DEF TypeOK, registration
<1>4. \A v \in Servers : Registered(v)'
  BY DEF IndInv, Registered, registration
<1>5. ASSUME NEW q, \A k \in Copies : IsIn(k, q) => CopyPlaced(k) PROVE After(q, m)
  BY <1>1, <1>5 DEF After
<1>6. ASSUME NEW v \in Servers
      PROVE  /\ ClusterSound(v)'
             /\ \A k \in Copies : IsIn(k, cluster'[v]) => IsIn(k, cluster[v]) \/ (k = m /\ v # w)
  <2>1. ClusterSound(v) /\ cluster[v] \in Seq(Copies)
    BY <1>0 DEF IndInv, TypeOK
  <2>2. CASE cluster'[v] = cluster[v]
    BY <2>1, <2>2 DEF ClusterSound
  <2>3. CASE v # w /\ cluster'[v] = Append(cluster[v], m)
    <3>1. \A k \in Copies : IsIn(k, cluster'[v]) => IsIn(k, cluster[v]) \/ k = m
      BY <1>1, <2>1, <2>3, IsInAppend
    <3>2. \A k \in Copies : IsIn(k, cluster'[v]) => k.from # v /\ CopyPlaced(k)'
      BY <1>1, <2>1, <2>3, <3>1 DEF ClusterSound
    <3>3. InOrder(cluster[v]) /\ After(cluster[v], m)
      BY <1>5, <2>1 DEF ClusterSound
    <3>4. InOrder(cluster'[v])
      BY <1>1, <2>1, <2>3, <3>3, AppendInOrder
    <3> QED BY <2>3, <3>1, <3>2, <3>4 DEF ClusterSound
  <2> QED BY <1>2, <2>2, <2>3
<1>7. ASSUME NEW s \in Sockets PROVE HeardSound(s)'
  <2>1. HeardSound(s) /\ heard[s] \in Seq(Copies) /\ at[s] \in Servers \cup {None}
    BY <1>0 DEF IndInv, TypeOK
  <2>2. After(heard[s], m)
    BY <1>5, <2>1 DEF HeardSound
  <2>3. CASE heard'[s] = heard[s]
    <3>1. \A k \in Copies : IsIn(k, heard'[s]) =>
            /\ CopyPlaced(k)' /\ BranchOf[s] \in Branches
            /\ k.from = at[s] => k.callback <= failed[at[s]][BranchOf[s]] + 1
      BY <2>1, <2>3 DEF HeardSound
    <3>2. ASSUME at[s] # None, NEW k \in Copies, IsIn(k, cluster'[at[s]]) PROVE After(heard'[s], k)
      <4>1. at[s] \in Servers /\ (IsIn(k, cluster[at[s]]) \/ k = m)
        BY <1>6, <2>1, <3>2
      <4> QED BY <2>1, <2>2, <2>3, <3>2, <4>1 DEF HeardSound
    <3> QED BY <2>1, <2>3, <3>1, <3>2 DEF HeardSound, registration
  <2>4. CASE at[s] = w /\ BranchOf[s] = b /\ heard'[s] = Append(heard[s], m)
    <3>1. \A k \in Copies : IsIn(k, heard'[s]) <=> IsIn(k, heard[s]) \/ k = m
      BY <1>1, <2>1, <2>4, IsInAppend
    <3>2. \A k \in Copies : IsIn(k, heard'[s]) =>
            /\ CopyPlaced(k)' /\ BranchOf[s] \in Branches
            /\ k.from = at[s] => k.callback <= failed[at[s]][BranchOf[s]] + 1
      BY <1>1, <2>1, <2>4, <3>1 DEF HeardSound
    <3>3. InOrder(heard'[s])
      BY <1>1, <2>1, <2>2, <2>4, AppendInOrder DEF HeardSound
    <3>4. ASSUME NEW k \in Copies, IsIn(k, cluster'[w]) PROVE After(heard'[s], k)
      <4>1. IsIn(k, cluster[w])
        BY <1>6, <3>4
      <4>2. After(heard[s], k)
        BY <2>1, <2>4, <4>1 DEF HeardSound
      <4>3. k.from # w
        BY <4>1 DEF IndInv, ClusterSound
      <4> QED BY <1>1, <3>1, <4>2, <4>3 DEF After, SameCallback
    <3> QED BY <2>1, <2>4, <3>2, <3>3, <3>4 DEF HeardSound, registration
  <2> QED BY <1>2, <2>3, <2>4
<1> QED BY <1>3, <1>4, <1>6, <1>7 DEF IndInv

(* The first callback relays the first event of the inbox. *)
LEMMA DispatchStep ==
  ASSUME IndInv, NEW w \in Servers, Dispatch(w) PROVE IndInv'
<1>0. /\ TypeOK /\ Len(published) \in Nat
      /\ InboxSound(w) /\ ResumesSound(w) /\ Registered(w)
  BY Lengths DEF IndInv
<1>1. /\ inbox[w] \in Seq(Nat) /\ inbox[w] # <<>> /\ resumes[w] \in Seq(Resumes)
      /\ inbox' = [inbox EXCEPT ![w] = Tail(inbox[w])]
      /\ UNCHANGED <<published, link, at, registration>>
  BY <1>0 DEF Dispatch, TypeOK
<1>2. /\ Tail(inbox[w]) \in Seq(Nat) /\ Head(inbox[w]) = inbox[w][1] /\ 1 \in DOMAIN inbox[w]
      /\ \A i \in DOMAIN Tail(inbox[w]) :
           i + 1 \in DOMAIN inbox[w] /\ Tail(inbox[w])[i] = inbox[w][i + 1] /\ 1 < i + 1
      /\ DOMAIN Tail(inbox[w]) \subseteq Nat
  BY <1>1, TailFacts
<1>3. PICK n \in 1..Len(published) : n = Head(inbox[w])
  BY <1>0, <1>2 DEF InboxSound
<1>4. PICK b \in Branches : b = published[n].branch
  BY <1>0, BranchTyped
<1>5. PICK last \in Nat : last = callbacks[w][b] /\ last <= failed[w][b] + 1
  BY <1>0 DEF TypeOK, Registered
<1> DEFINE r == [n |-> n, next |-> 2, last |-> last]
           m == [from |-> w, callback |-> 1, n |-> n]
<1>6. /\ Relay(w, 1, n)
      /\ resumes' = IF last > 1 THEN [resumes EXCEPT ![w] = Append(resumes[w], r)] ELSE resumes
  BY <1>3, <1>4, <1>5 DEF Dispatch
<1>7. r \in Resumes /\ m \in Copies /\ m.from = w /\ m.callback = 1 /\ m.n = n /\ n \in Nat
  BY <1>0 DEF Resumes, Copies
<1>8. /\ \A i \in DOMAIN inbox'[w] : inbox'[w][i] \in 1..Len(published) /\ n < inbox'[w][i]
      /\ \A i \in DOMAIN inbox'[w] : \E k \in DOMAIN inbox[w] : inbox'[w][i] = inbox[w][k]
      /\ \A i, j \in DOMAIN inbox'[w] : i < j => inbox'[w][i] < inbox'[w][j]
  <2>1. inbox'[w] = Tail(inbox[w])
    BY <1>0, <1>1 DEF TypeOK
  <2>2. ASSUME NEW i \in DOMAIN Tail(inbox[w])
        PROVE  /\ inbox'[w][i] = inbox[w][i + 1] /\ i + 1 \in DOMAIN inbox[w]
               /\ inbox'[w][i] \in 1..Len(published) /\ n < inbox'[w][i]
    BY <1>0, <1>2, <1>3, <2>1, <2>2 DEF InboxSound
  <2>3. ASSUME NEW i \in DOMAIN Tail(inbox[w]), NEW j \in DOMAIN Tail(inbox[w]), i < j
        PROVE  inbox'[w][i] < inbox'[w][j]
    <3>1. i + 1 < j + 1
      BY <1>2, <2>3
    <3> QED BY <1>0, <2>2, <3>1 DEF InboxSound
  <2> QED BY <2>1, <2>2, <2>3
<1>9. \A i \in DOMAIN resumes[w] :
        /\ resumes[w][i] \in Resumes /\ resumes[w][i].n < n /\ 2 <= resumes[w][i].next
  BY <1>0, <1>1, <1>2, <1>3 DEF ResumesSound
<1>10. /\ resumes' \in [Servers -> Seq(Resumes)]
       /\ \A v \in Servers \ {w} : resumes'[v] = resumes[v] /\ inbox'[v] = inbox[v]
       /\ resumes'[w] = resumes[w] \/ (last > 1 /\ resumes'[w] = Append(resumes[w], r))
  <2>1. Append(resumes[w], r) \in Seq(Resumes)
    BY <1>1, <1>7, AppendFacts
  <2> HIDE DEF r
  <2> QED BY <1>0, <1>1, <1>6, <2>1 DEF TypeOK
<1>11. /\ DOMAIN resumes[w] = 1..Len(resumes[w]) /\ Len(resumes[w]) \in Nat
       /\ DOMAIN Append(resumes[w], r) = 1..(Len(resumes[w]) + 1)
       /\ \A i \in DOMAIN resumes[w] : Append(resumes[w], r)[i] = resumes[w][i]
       /\ Append(resumes[w], r)[Len(resumes[w]) + 1] = r
  BY <1>1, <1>7, AppendFacts
<1>12. \A i \in DOMAIN resumes'[w] :
         \/ i \in DOMAIN resumes[w] /\ resumes'[w][i] = resumes[w][i]
         \/ i = Len(resumes[w]) + 1 /\ resumes'[w][i] = r /\ last > 1
  <2> HIDE DEF r
  <2> QED BY <1>10, <1>11
<1>13. ASSUME NEW v \in Servers PROVE InboxSound(v)' /\ ResumesSound(v)'
  <2>1. CASE v # w
    <3>1. InboxSound(v) /\ ResumesSound(v) /\ inbox'[v] = inbox[v] /\ resumes'[v] = resumes[v]
      BY <1>10, <2>1 DEF IndInv
    <3> QED BY <1>1, <3>1 DEF InboxSound, ResumesSound, registration
  <2>2. CASE v = w
    <3>1. InboxSound(w)'
      BY <1>1, <1>8 DEF InboxSound
    <3>2. ASSUME NEW i \in DOMAIN resumes'[w]
          PROVE  /\ resumes'[w][i].n \in 1..Len(published)
                 /\ 2 <= resumes'[w][i].next /\ resumes'[w][i].next <= resumes'[w][i].last
                 /\ resumes'[w][i].last <= failed[w][published[resumes'[w][i].n].branch] + 1
                 /\ \A k \in DOMAIN inbox'[w] : resumes'[w][i].n < inbox'[w][k]
      <4>1. CASE i \in DOMAIN resumes[w] /\ resumes'[w][i] = resumes[w][i]
        BY <1>0, <1>8, <4>1 DEF ResumesSound
      <4>2. CASE resumes'[w][i] = r /\ last > 1
        BY <1>4, <1>5, <1>8, <4>2
      <4> QED BY <1>12, <4>1, <4>2
    <3>3. ASSUME NEW i \in DOMAIN resumes'[w], NEW j \in DOMAIN resumes'[w], i < j
          PROVE  InTurn(resumes'[w][i], resumes'[w][j])
      <4>1. i \in DOMAIN resumes[w] /\ resumes'[w][i] = resumes[w][i]
        <5> HIDE DEF r
        <5> QED BY <1>11, <1>12, <3>3
      <4>2. CASE j \in DOMAIN resumes[w] /\ resumes'[w][j] = resumes[w][j]
        BY <1>0, <3>3, <4>1, <4>2 DEF ResumesSound
      <4>3. CASE resumes'[w][j] = r
        BY <1>9, <4>1, <4>3 DEF InTurn, Resumes
      <4> QED BY <1>12, <4>2, <4>3
    <3>4. ResumesSound(w)'
      BY <1>1, <3>2, <3>3 DEF ResumesSound, registration
    <3> QED BY <2>2, <3>1, <3>4
  <2> QED BY <2>1, <2>2
<1>14. CopyPlaced(m)'
  <2>1. \A i \in DOMAIN resumes'[w] : ~(resumes'[w][i].next <= 1)
    BY <1>9, <1>12 DEF Resumes
  <2> QED BY <1>1, <1>7, <1>8, <2>1 DEF CopyPlaced
<1>15. ASSUME NEW k \in Copies, CopyPlaced(k)
       PROVE  CopyPlaced(k)' /\ (SameCallback(k, m) => k.n < n)
  <2>1. CASE k.from # w
    <3>1. k.from \in Servers
      BY DEF Copies
    <3> QED BY <1>1, <1>7, <1>10, <1>15, <2>1, <3>1 DEF CopyPlaced, SameCallback
  <2>2. CASE k.from = w
    <3>1. k.n < n
      BY <1>2, <1>3, <1>15, <2>2 DEF CopyPlaced
    <3>2. \A i \in DOMAIN inbox'[w] : k.n < inbox'[w][i]
      BY <1>8, <1>15, <2>2 DEF CopyPlaced
    <3>3. ASSUME NEW i \in DOMAIN resumes'[w], resumes'[w][i].next <= k.callback
          PROVE  k.n < resumes'[w][i].n
      BY <1>12, <1>15, <2>2, <3>1, <3>3 DEF CopyPlaced
    <3> QED BY <1>1, <1>15, <2>2, <3>1, <3>2, <3>3 DEF CopyPlaced
  <2> QED BY <2>1, <2>2
<1>16. inbox' \in [Servers -> Seq(Nat)] /\ 1 <= failed[w][b] + 1
  BY <1>0, <1>1, <1>2 DEF TypeOK
<1>17. PICK e \in Copies : e = [from |-> w, callback |-> 1, n |-> n]
  BY <1>7
<1>18. CopyPlaced(e)'
  BY <1>14, <1>17
<1>19. \A k \in Copies : CopyPlaced(k) => CopyPlaced(k)' /\ (SameCallback(k, e) => k.n < n)
  BY <1>15, <1>17
<1>20. 1 <= failed[w][published[n].branch] + 1
  BY <1>4, <1>16
<1>21. /\ Relay(w, 1, n) /\ UNCHANGED <<published, link, at, registration>>
       /\ inbox' \in [Servers -> Seq(Nat)] /\ resumes' \in [Servers -> Seq(Resumes)]
  BY <1>1, <1>6, <1>10, <1>16
<1>22. \A v \in Servers : InboxSound(v)' /\ ResumesSound(v)'
  BY <1>13
<1> HIDE DEF m, r
<1> QED BY <1>17, <1>18, <1>19, <1>20, <1>21, <1>22, EmitStep

(* A further callback relays the event of its dispatch, in its turn. *)
LEMMA ResumeStep ==
  ASSUME IndInv, NEW w \in Servers, Resume(w) PROVE IndInv'
<1> DEFINE q == resumes[w]
<1>0. /\ TypeOK /\ Len(published) \in Nat /\ InboxSound(w) /\ ResumesSound(w)
      /\ q \in Seq(Resumes) /\ q # <<>>
      /\ UNCHANGED <<published, link, at, registration, inbox>>
  BY Lengths DEF IndInv, TypeOK, Resume
<1>1. /\ Tail(q) \in Seq(Resumes) /\ Head(q) \in Resumes /\ Head(q) = q[1] /\ 1 \in DOMAIN q
      /\ \A i \in DOMAIN Tail(q) : i + 1 \in DOMAIN q /\ Tail(q)[i] = q[i + 1] /\ 1 < i + 1
      /\ DOMAIN Tail(q) \subseteq Nat
  BY <1>0, TailFacts
<1>2. PICK r \in Resumes : r = Head(q)
  BY <1>1
<1>3. /\ r.n \in 1..Len(published) /\ 2 <= r.next /\ r.next <= r.last
      /\ r.last <= failed[w][published[r.n].branch] + 1
      /\ \A k \in DOMAIN inbox[w] : r.n < inbox[w][k]
  BY <1>0, <1>1, <1>2 DEF ResumesSound
<1>4. PICK n \in 1..Len(published), c \in Nat, last \in Nat :
        n = r.n /\ c = r.next /\ last = r.last /\ n \in Nat
  BY <1>0, <1>3 DEF Resumes
<1>5. PICK b \in Branches : b = published[n].branch
  BY <1>0, BranchTyped
<1>6. failed[w][b] \in Nat /\ last <= failed[w][b] + 1
  BY <1>0, <1>3, <1>4, <1>5 DEF TypeOK
<1>7. PICK u \in Resumes : /\ u = [r EXCEPT !.next = r.next + 1]
                          /\ u.n = n /\ u.next = c + 1 /\ u.last = last
  <2>1. c + 1 \in Nat
    BY <1>4
  <2>2. [n |-> n, next |-> c + 1, last |-> last] \in Resumes
    BY <1>4, <2>1 DEF Resumes
  <2>3. [r EXCEPT !.next = r.next + 1] = [n |-> n, next |-> c + 1, last |-> last]
    BY <1>4 DEF Resumes
  <2> QED BY <2>2, <2>3
<1>8. /\ Relay(w, c, n)
      /\ resumes' = [resumes EXCEPT ![w] = IF c < last THEN Append(Tail(q), u) ELSE Tail(q)]
  BY <1>2, <1>4, <1>7 DEF Resume
<1>9. /\ Append(Tail(q), u) \in Seq(Resumes)
      /\ DOMAIN Tail(q) = 1..Len(Tail(q)) /\ Len(Tail(q)) \in Nat
      /\ DOMAIN Append(Tail(q), u) = 1..(Len(Tail(q)) + 1)
      /\ \A i \in DOMAIN Tail(q) : Append(Tail(q), u)[i] = Tail(q)[i]
      /\ Append(Tail(q), u)[Len(Tail(q)) + 1] = u
  BY <1>1, AppendFacts
<1>10. /\ resumes' \in [Servers -> Seq(Resumes)]
       /\ \A v \in Servers \ {w} : resumes'[v] = resumes[v]
       /\ resumes'[w] = Tail(q) \/ (c < last /\ resumes'[w] = Append(Tail(q), u))
  BY <1>0, <1>1, <1>8, <1>9 DEF TypeOK
<1>11. ASSUME NEW i \in DOMAIN Tail(q)
       PROVE  /\ i + 1 \in DOMAIN q /\ Tail(q)[i] = q[i + 1] /\ q[i + 1] \in Resumes
              /\ InTurn(r, q[i + 1])
  BY <1>0, <1>1, <1>2 DEF ResumesSound
<1>12. ASSUME NEW i \in DOMAIN resumes'[w]
       PROVE  \/ i \in DOMAIN Tail(q) /\ resumes'[w][i] = q[i + 1]
              \/ i = Len(Tail(q)) + 1 /\ resumes'[w][i] = u /\ c < last
  <2>1. CASE resumes'[w] = Tail(q)
    BY <1>11, <1>12, <2>1
  <2>2. CASE c < last /\ resumes'[w] = Append(Tail(q), u)
    <3>1. i \in DOMAIN Tail(q) \/ i = Len(Tail(q)) + 1
      BY <1>9, <1>12, <2>2
    <3>2. CASE i \in DOMAIN Tail(q)
      <4>1. resumes'[w][i] = Tail(q)[i]
        BY <1>9, <2>2, <3>2
      <4> QED BY <1>11, <3>2, <4>1
    <3>3. CASE i = Len(Tail(q)) + 1
      BY <1>9, <2>2, <3>3
    <3> QED BY <3>1, <3>2, <3>3
  <2> QED BY <1>10, <2>1, <2>2
<1>13. ASSUME NEW v \in Servers PROVE InboxSound(v)' /\ ResumesSound(v)'
  <2>1. InboxSound(v)'
    BY <1>0 DEF IndInv, InboxSound
  <2>2. CASE v # w
    <3>1. ResumesSound(v) /\ resumes'[v] = resumes[v]
      BY <1>10, <2>2 DEF IndInv
    <3> QED BY <1>0, <2>1, <3>1 DEF ResumesSound, registration
  <2>3. CASE v = w
    <3>1. ASSUME NEW i \in DOMAIN resumes'[w]
          PROVE  /\ resumes'[w][i].n \in 1..Len(published)
                 /\ 2 <= resumes'[w][i].next /\ resumes'[w][i].next <= resumes'[w][i].last
                 /\ resumes'[w][i].last <= failed[w][published[resumes'[w][i].n].branch] + 1
                 /\ \A k \in DOMAIN inbox[w] : resumes'[w][i].n < inbox[w][k]
      <4>1. CASE i \in DOMAIN Tail(q) /\ resumes'[w][i] = q[i + 1]
        BY <1>0, <1>11, <4>1 DEF ResumesSound
      <4>2. CASE resumes'[w][i] = u /\ c < last
        BY <1>3, <1>4, <1>5, <1>6, <1>7, <4>2
      <4> QED BY <1>12, <4>1, <4>2
    <3>2. ASSUME NEW i \in DOMAIN resumes'[w], NEW j \in DOMAIN resumes'[w], i < j
          PROVE  InTurn(resumes'[w][i], resumes'[w][j])
      <4>1. i \in DOMAIN Tail(q) /\ resumes'[w][i] = q[i + 1]
        <5>1. \/ i \in DOMAIN Tail(q) /\ resumes'[w][i] = q[i + 1]
              \/ i = Len(Tail(q)) + 1
          BY <1>12
        <5>2. j \in DOMAIN Tail(q) \/ j = Len(Tail(q)) + 1
          BY <1>12
        <5>3. i # Len(Tail(q)) + 1
          <6>1. j \in 1..(Len(Tail(q)) + 1)
            BY <1>9, <5>2
          <6> QED BY <1>9, <3>2, <6>1
        <5> QED BY <5>1, <5>3
      <4>2. CASE j \in DOMAIN Tail(q) /\ resumes'[w][j] = q[j + 1]
        <5>1. i + 1 < j + 1
          BY <1>1, <3>2, <4>1, <4>2
        <5> QED BY <1>0, <1>11, <4>1, <4>2, <5>1 DEF ResumesSound
      <4>3. CASE resumes'[w][j] = u
        <5>1. InTurn(r, q[i + 1]) /\ q[i + 1] \in Resumes
          BY <1>11, <4>1
        <5>2. PICK p \in Resumes : p = q[i + 1] /\ p.n \in Nat /\ p.next \in Nat
          BY <5>1 DEF Resumes
        <5>3. (n < p.n /\ c >= p.next) \/ (n > p.n /\ c < p.next)
          BY <1>4, <5>1, <5>2 DEF InTurn
        <5>4. (p.n < n /\ p.next >= c + 1) \/ (p.n > n /\ p.next < c + 1)
          BY <1>4, <5>2, <5>3
        <5> QED BY <1>7, <4>1, <4>3, <5>2, <5>4 DEF InTurn
      <4> QED BY <1>12, <4>2, <4>3
    <3>3. ResumesSound(w)'
      BY <1>0, <3>1, <3>2 DEF ResumesSound, registration
    <3> QED BY <2>1, <2>3, <3>3
  <2> QED BY <2>2, <2>3
<1>14. PICK e \in Copies : /\ e = [from |-> w, callback |-> c, n |-> n]
                          /\ e.from = w /\ e.callback = c /\ e.n = n
  <2>1. [from |-> w, callback |-> c, n |-> n] \in Copies
    BY <1>4 DEF Copies
  <2> QED BY <2>1
<1>15. CopyPlaced(e)'
  <2>1. ASSUME NEW i \in DOMAIN resumes'[w], resumes'[w][i].next <= c PROVE n < resumes'[w][i].n
    <3>1. CASE i \in DOMAIN Tail(q) /\ resumes'[w][i] = q[i + 1]
      <4>1. PICK p \in Resumes : p = q[i + 1] /\ p.n \in Nat /\ p.next \in Nat
        BY <1>11, <3>1 DEF Resumes
      <4> QED BY <1>4, <1>11, <2>1, <3>1, <4>1 DEF InTurn
    <3>2. CASE resumes'[w][i] = u
      BY <1>4, <1>7, <2>1, <3>2
    <3> QED BY <1>12, <3>1, <3>2
  <2>2. \A i \in DOMAIN inbox'[w] : n < inbox'[w][i]
    BY <1>0, <1>3, <1>4
  <2> QED BY <1>0, <1>14, <2>1, <2>2 DEF CopyPlaced
<1>16. ASSUME NEW k \in Copies, CopyPlaced(k)
       PROVE  CopyPlaced(k)' /\ (SameCallback(k, e) => k.n < n)
  <2>1. CASE k.from # w
    <3>1. k.from \in Servers
      BY DEF Copies
    <3> QED BY <1>0, <1>10, <1>14, <1>16, <2>1, <3>1 DEF CopyPlaced, SameCallback
  <2>2. CASE k.from = w
    <3>1. k.callback \in Nat /\ (c <= k.callback => k.n < n)
      BY <1>1, <1>2, <1>4, <1>16, <2>2 DEF CopyPlaced, Copies
    <3>2. ASSUME NEW i \in DOMAIN resumes'[w], resumes'[w][i].next <= k.callback
          PROVE  k.n < resumes'[w][i].n
      <4>1. CASE i \in DOMAIN Tail(q) /\ resumes'[w][i] = q[i + 1]
        BY <1>11, <1>16, <2>2, <3>2, <4>1 DEF CopyPlaced
      <4>2. CASE resumes'[w][i] = u
        BY <1>4, <1>7, <3>1, <3>2, <4>2
      <4> QED BY <1>12, <4>1, <4>2
    <3>3. CopyPlaced(k)'
      BY <1>0, <1>16, <2>2, <3>2 DEF CopyPlaced
    <3> QED BY <1>14, <3>1, <3>3 DEF SameCallback
  <2> QED BY <2>1, <2>2
<1>17. c <= failed[w][published[n].branch] + 1
  BY <1>3, <1>4, <1>5, <1>6
<1>18. /\ e = [from |-> w, callback |-> c, n |-> n] /\ Relay(w, c, n)
       /\ UNCHANGED <<published, link, at, registration>>
       /\ inbox' \in [Servers -> Seq(Nat)] /\ resumes' \in [Servers -> Seq(Resumes)]
  BY <1>0, <1>8, <1>10, <1>14 DEF TypeOK
<1>19. \A v \in Servers : InboxSound(v)' /\ ResumesSound(v)'
  BY <1>13
<1>20. \A k \in Copies : CopyPlaced(k) => CopyPlaced(k)' /\ (SameCallback(k, e) => k.n < n)
  BY <1>16
<1> HIDE DEF q
<1> QED BY <1>15, <1>17, <1>18, <1>19, <1>20, EmitStep

(* A copy handed out is later than those heard from its callback. *)
LEMMA HandOutStep ==
  ASSUME IndInv, NEW w \in Servers, HandOut(w) PROVE IndInv'
<1> USE RelayAssumption
<1> DEFINE q == cluster[w]
<1>0. /\ TypeOK /\ ClusterSound(w) /\ q \in Seq(Copies) /\ q # <<>>
      /\ UNCHANGED <<published, link, at, registration, inbox, resumes>>
      /\ cluster' = [cluster EXCEPT ![w] = Tail(q)]
  BY DEF IndInv, TypeOK, HandOut
<1>1. /\ Tail(q) \in Seq(Copies) /\ Head(q) \in Copies /\ IsIn(Head(q), q)
      /\ InOrder(Tail(q))
      /\ \A k \in Copies : IsIn(k, Tail(q)) =>
           IsIn(k, q) /\ (SameCallback(Head(q), k) => Head(q).n < k.n)
  BY <1>0, TailFacts, TailInOrder DEF ClusterSound
<1>2. PICK m \in Copies : m = Head(q)
  BY <1>1
<1>3. /\ m.from # w /\ CopyPlaced(m)
      /\ \A k \in Copies : IsIn(k, Tail(q)) =>
           IsIn(k, q) /\ (SameCallback(m, k) => m.n < k.n)
  BY <1>0, <1>1, <1>2 DEF ClusterSound
<1>4. heard' = [s \in Sockets |->
        IF s \in Room(w, published[m.n].branch) THEN Append(heard[s], m) ELSE heard[s]]
  BY <1>2 DEF HandOut, EmitLocally
<1>5. PICK b \in Branches : b = published[m.n].branch
  BY <1>0, <1>3, BranchTyped DEF CopyPlaced
<1>6. ASSUME NEW s \in Sockets
      PROVE  /\ heard'[s] \in Seq(Copies)
             /\ \/ heard'[s] = heard[s]
                \/ at[s] = w /\ BranchOf[s] = b /\ heard'[s] = Append(heard[s], m)
  <2>1. heard[s] \in Seq(Copies) /\ Append(heard[s], m) \in Seq(Copies)
    BY <1>0, AppendFacts DEF TypeOK
  <2> QED BY <1>4, <1>5, <2>1 DEF Room
<1>7. /\ heard' \in [Sockets -> Seq(Copies)] /\ cluster' \in [Servers -> Seq(Copies)]
      /\ cluster'[w] = Tail(q) /\ \A v \in Servers \ {w} : cluster'[v] = cluster[v]
  BY <1>0, <1>1, <1>4, <1>6 DEF TypeOK
<1>8. TypeOK'
  BY <1>0, <1>7 DEF TypeOK, registration
<1>9. ASSUME NEW v \in Servers
      PROVE  Registered(v)' /\ InboxSound(v)' /\ ResumesSound(v)'
  BY <1>0 DEF IndInv, Registered, InboxSound, ResumesSound, registration
<1>10. \A k : CopyPlaced(k) => CopyPlaced(k)'
  BY <1>0 DEF CopyPlaced
<1>11. ASSUME NEW v \in Servers
       PROVE  /\ ClusterSound(v)'
              /\ \A k \in Copies : IsIn(k, cluster'[v]) => IsIn(k, cluster[v])
  <2>1. ClusterSound(v)
    BY DEF IndInv
  <2>2. CASE v = w
    BY <1>1, <1>3, <1>7, <1>10, <2>1, <2>2 DEF ClusterSound
  <2>3. CASE v # w
    BY <1>7, <1>10, <2>1, <2>3 DEF ClusterSound
  <2> QED BY <2>2, <2>3
<1>12. ASSUME NEW s \in Sockets PROVE HeardSound(s)'
  <2>1. HeardSound(s) /\ heard[s] \in Seq(Copies) /\ at[s] \in Servers \cup {None}
    BY <1>0 DEF IndInv, TypeOK
  <2>2. CASE heard'[s] = heard[s]
    BY <1>0, <1>10, <1>11, <2>1, <2>2 DEF HeardSound, registration
  <2>3. CASE at[s] = w /\ BranchOf[s] = b /\ heard'[s] = Append(heard[s], m)
    <3>1. \A k \in Copies : IsIn(k, heard'[s]) <=> IsIn(k, heard[s]) \/ k = m
      BY <2>1, <2>3, IsInAppend
    <3>2. After(heard[s], m)
      BY <1>1, <1>2, <2>1, <2>3 DEF HeardSound
    <3>3. InOrder(heard'[s])
      BY <2>1, <2>3, <3>2, AppendInOrder DEF HeardSound
    <3>4. \A k \in Copies : IsIn(k, heard'[s]) =>
            /\ CopyPlaced(k)' /\ BranchOf[s] \in Branches
            /\ k.from = at[s] => k.callback <= failed[at[s]][BranchOf[s]] + 1
      BY <1>3, <1>10, <2>1, <2>3, <3>1 DEF HeardSound
    <3>5. ASSUME NEW k \in Copies, IsIn(k, cluster'[w]) PROVE After(heard'[s], k)
      <4>1. IsIn(k, q) /\ (SameCallback(m, k) => m.n < k.n)
        BY <1>3, <1>7, <3>5
      <4>2. After(heard[s], k)
        BY <2>1, <2>3, <4>1 DEF HeardSound
      <4> QED BY <3>1, <4>1, <4>2 DEF After
    <3> QED BY <1>0, <2>1, <2>3, <3>3, <3>4, <3>5 DEF HeardSound, registration
  <2> QED BY <1>6, <2>2, <2>3
<1> QED BY <1>8, <1>9, <1>11, <1>12 DEF IndInv

(* A server that restarts has no sockets, callbacks or waiting dispatches. *)
LEMMA RestartStep ==
  ASSUME IndInv, NEW w \in Servers, Restart(w) PROVE IndInv'
<1> USE RelayAssumption
<1>0. TypeOK /\ published' = published
  BY DEF IndInv, Restart
<1>1. /\ \A v \in Servers \ {w} :
           /\ asking'[v] = asking[v] /\ known'[v] = known[v] /\ callbacks'[v] = callbacks[v]
           /\ failed'[v] = failed[v] /\ inbox'[v] = inbox[v] /\ resumes'[v] = resumes[v]
           /\ cluster'[v] = cluster[v]
      /\ asking'[w] = {} /\ known'[w] = {} /\ callbacks'[w] = [b \in Branches |-> 0]
      /\ failed'[w] = [b \in Branches |-> 0]
      /\ inbox'[w] = <<>> /\ resumes'[w] = <<>> /\ cluster'[w] = <<>>
  BY <1>0 DEF TypeOK, Restart
<1>2. ASSUME NEW s \in Sockets
      PROVE  \/ at'[s] = None /\ heard'[s] = <<>>
             \/ at[s] # w /\ at'[s] = at[s] /\ heard'[s] = heard[s]
  BY <1>0 DEF TypeOK, Restart
<1>3. TypeOK'
  <2>1. /\ [b \in Branches |-> 0] \in [Branches -> Nat]
        /\ <<>> \in Seq(Nat) /\ <<>> \in Seq(Resumes) /\ <<>> \in Seq(Copies)
    OBVIOUS
  <2>2. /\ link' \in [Servers -> {"up", "down"}] /\ subscribed' \in [Servers -> SUBSET Branches]
        /\ asking' \in [Servers -> SUBSET Branches] /\ known' \in [Servers -> SUBSET Branches]
    BY <1>0 DEF TypeOK, Restart
  <2>3. /\ callbacks' \in [Servers -> [Branches -> Nat]] /\ failed' \in [Servers -> [Branches -> Nat]]
    BY <1>0, <2>1 DEF TypeOK, Restart
  <2>4. /\ inbox' \in [Servers -> Seq(Nat)] /\ resumes' \in [Servers -> Seq(Resumes)]
        /\ cluster' \in [Servers -> Seq(Copies)]
    BY <1>0, <2>1 DEF TypeOK, Restart
  <2>5. /\ at' \in [Sockets -> Servers \cup {None}] /\ heard' \in [Sockets -> Seq(Copies)]
    BY <1>0, <2>1 DEF TypeOK, Restart
  <2> QED BY <1>0, <2>2, <2>3, <2>4, <2>5 DEF TypeOK
<1>4. ASSUME NEW v \in Servers
      PROVE  Registered(v)' /\ InboxSound(v)' /\ ResumesSound(v)'
  <2>1. CASE v = w
    BY <1>1, <2>1 DEF Registered, InboxSound, ResumesSound
  <2>2. CASE v # w
    BY <1>0, <1>1, <2>2 DEF IndInv, Registered, InboxSound, ResumesSound
  <2> QED BY <2>1, <2>2
<1>5. ASSUME NEW k \in Copies, CopyPlaced(k) PROVE CopyPlaced(k)'
  <2>1. k.from \in Servers
    BY DEF Copies
  <2> QED BY <1>0, <1>1, <1>5, <2>1 DEF CopyPlaced
<1>6. ASSUME NEW v \in Servers PROVE ClusterSound(v)'
  <2>1. CASE v = w
    BY <1>1, <2>1, EmptyInOrder DEF ClusterSound, IsIn
  <2>2. CASE v # w
    <3>1. ClusterSound(v) /\ cluster'[v] = cluster[v]
      BY <1>1, <2>2 DEF IndInv
    <3> QED BY <1>5, <3>1 DEF ClusterSound
  <2> QED BY <2>1, <2>2
<1>7. ASSUME NEW s \in Sockets PROVE HeardSound(s)'
  <2>1. CASE at'[s] = None /\ heard'[s] = <<>>
    BY <2>1, EmptyInOrder DEF HeardSound, IsIn
  <2>2. CASE at[s] # w /\ at'[s] = at[s] /\ heard'[s] = heard[s]
    <3>1. HeardSound(s) /\ at[s] \in Servers \cup {None}
      BY <1>0 DEF IndInv, TypeOK
    <3>2. at[s] # None => failed'[at[s]] = failed[at[s]] /\ cluster'[at[s]] = cluster[at[s]]
      BY <1>1, <2>2, <3>1
    <3>3. \A k \in Copies : IsIn(k, heard[s]) =>
            /\ CopyPlaced(k)' /\ BranchOf[s] \in Branches
            /\ k.from = at[s] => k.callback <= failed'[at[s]][BranchOf[s]] + 1
      BY <1>5, <3>1, <3>2 DEF HeardSound, Copies
    <3> QED BY <2>2, <3>1, <3>2, <3>3 DEF HeardSound
  <2> QED BY <1>2, <2>1, <2>2
<1> QED BY <1>3, <1>4, <1>6, <1>7 DEF IndInv

(* Every step keeps the invariant. *)
LEMMA NextIndInv == IndInv /\ [Next]_vars => IndInv'
<1> SUFFICES ASSUME IndInv, [Next]_vars PROVE IndInv'
  OBVIOUS
<1>1. ASSUME NEW b \in Branches, NEW kind \in Kinds, Publish(b, kind) PROVE IndInv'
  BY <1>1, PublishStep
<1>2. ASSUME NEW w \in Servers, ServerStep(w) PROVE IndInv'
  <2>1. CASE LinkLost(w) \/ Ready(w)
    BY <2>1, LinkStep
  <2>2. CASE Restart(w)
    BY <2>2, RestartStep
  <2>3. CASE Dispatch(w)
    BY <2>3, DispatchStep
  <2>4. CASE Resume(w)
    BY <2>4, ResumeStep
  <2>5. CASE HandOut(w)
    BY <2>5, HandOutStep
  <2>6. ASSUME NEW b \in Branches, SubscribeAnswered(w, b) \/ SubscribeRefused(w, b) PROVE IndInv'
    BY <2>6, AnswerStep
  <2>7. ASSUME NEW s \in Sockets, HandleConnection(s, w) PROVE IndInv'
    BY <2>7, HandleConnectionStep
  <2> QED BY <1>2, <2>1, <2>2, <2>3, <2>4, <2>5, <2>6, <2>7 DEF ServerStep
<1>3. ASSUME NEW s \in Sockets, Disconnect(s) PROVE IndInv'
  BY <1>3, DisconnectStep
<1>4. CASE UNCHANGED vars
  <2>1. UNCHANGED <<published, link, at, registration, inbox, resumes, cluster, heard>>
    BY <1>4 DEF vars, transport
  <2>2. TypeOK' /\ \A w \in Servers : Registered(w)' /\ (inbox'[w] = inbox[w] \/ inbox'[w] = <<>>)
    BY <2>1 DEF IndInv, TypeOK, Registered, registration
  <2>3. /\ \A w \in Servers, b \in Branches : failed[w][b] <= failed'[w][b]
        /\ \A s \in Sockets : at'[s] = None => heard'[s] = <<>>
        /\ \A s \in Sockets : heard'[s] = heard[s] /\ at'[s] = at[s]
    BY <2>1 DEF IndInv, HeardSound, TypeOK, registration
  <2> QED BY <2>1, <2>2, <2>3, SubscriptionStep
<1> QED BY <1>1, <1>2, <1>3, <1>4 DEF Next

-----------------------------------------------------------------------------
(* Theorems *)

\* Every reachable state satisfies the inductive invariant.
THEOREM Invariance == Spec => []IndInv
BY InitIndInv, NextIndInv, PTL DEF Spec

\* Type correctness of EventBus, ConnectionManager and the sockets.
THEOREM Typing == Spec => []TypeOK
<1>1. IndInv => TypeOK
  BY DEF IndInv
<1> QED BY <1>1, Invariance, PTL

\* A socket hears each callback of each server in the order of publication and
\* no event twice from it, whatever restarts, lost connections and refused
\* subscriptions came before (EventDispatcher.dispatch and the Redis adapter).
THEOREM InOrderHeard == Spec => []HeardInOrder
<1>1. IndInv => HeardInOrder
  BY DEF IndInv, HeardSound, HeardInOrder
<1> QED BY <1>1, Invariance, PTL

\* A copy more than one exists only for a subscription that was refused
\* (ConnectionManager.subscribeToBranchEvents).
THEOREM CopiesBounded == Spec => []CopiesCounted
<1>1. ASSUME IndInv PROVE CopiesCounted
  <2>1. ASSUME NEW s \in Sockets, NEW i \in DOMAIN heard[s], heard[s][i].from = at[s]
        PROVE  heard[s][i].callback <= failed[at[s]][BranchOf[s]] + 1
    <3>1. heard[s] \in Seq(Copies) /\ HeardSound(s)
      BY <1>1 DEF IndInv, TypeOK
    <3>2. heard[s][i] \in Copies /\ IsIn(heard[s][i], heard[s])
      BY <2>1, <3>1 DEF IsIn
    <3> QED BY <2>1, <3>1, <3>2 DEF HeardSound
  <2> QED BY <1>1, <2>1 DEF IndInv, Registered, CopiesCounted
<1> QED BY <1>1, Invariance, PTL
===============================================================================
