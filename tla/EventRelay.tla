------------------------------ MODULE EventRelay ------------------------------
(***************************************************************************)
(* Events on their way from the API server to the sockets of a branch: the *)
(* EventBus of packages/pubsub (RedisPublisher, RedisSubscriber,           *)
(* SubscriptionManager, EventDispatcher) and the ConnectionManager of      *)
(* every ws-server, which share rooms through the Socket.IO Redis adapter. *)
(*                                                                         *)
(* Redis delivers at most once: an event reaches the servers that are      *)
(* connected and subscribed when it is published.  A subscription that the *)
(* client gives up (its connection was down for too many attempts) makes   *)
(* the server forget the branch, but its callback stays registered.        *)
(*                                                                         *)
(* Data: the channel and the room of a branch are the branch, for one      *)
(* tenant; an event is its number in the order of publication.  What is    *)
(* emitted to a socket of the same server is heard at once: a delay on the *)
(* wire looks like a later connection.                                     *)
(***************************************************************************)
EXTENDS Naturals, Sequences

CONSTANTS
  Servers, Sockets, Branches, None,
  BranchOf,      \* BranchOf[s]: the branch in the token of socket s, or None
  MaxEvents,     \* bound: events published
  MaxFailures,   \* bound: MaxFailures[w], refused subscriptions of a server per branch
  Restarting     \* bound: servers that restart

ASSUME RelayAssumption ==
  /\ None \notin Branches /\ None \notin Servers
  /\ BranchOf \in [Sockets -> Branches \cup {None}]
ASSUME BoundAssumption ==
  /\ MaxEvents \in Nat
  /\ MaxFailures \in [Servers -> Nat]
  /\ Restarting \subseteq Servers

VARIABLES
  published,   \* the events, in the order of publication
  link,        \* the subscriber connection of each server: "up" or "down"
  subscribed,  \* branches whose channel Redis sends to the server
  asking,      \* branches whose SUBSCRIBE is not answered yet
  known,       \* branchSubscriptions: branches thought to have their callback
  callbacks,   \* callbacks registered for the channel of a branch
  inbox,       \* events Redis has sent to a server
  resumes,     \* dispatches that have more callbacks to run, oldest first
  cluster,     \* messages of other servers, for the sockets of this one
  at,          \* the server a socket is connected to, or None
  heard,       \* what a connected socket got since it connected
  failed       \* how often a server process had a subscription refused (history)

registration == <<subscribed, asking, known, callbacks, failed>>
transport == <<inbox, resumes, cluster, heard>>
vars == <<published, link, at, registration, transport>>

Status == "OrderStatusUpdated"
Kinds == {Status, "KitchenTicketCreated"}
Events == [branch : Branches, kind : Kinds]
\* A copy of event n, emitted by the c-th callback of a server.
Copies == [from : Servers, callback : Nat, n : Nat]
Resumes == [n : Nat, next : Nat, last : Nat]

Init ==
  /\ published = <<>>
  /\ link = [w \in Servers |-> "down"]
  /\ subscribed = [w \in Servers |-> {}]
  /\ asking = [w \in Servers |-> {}]
  /\ known = [w \in Servers |-> {}]
  /\ callbacks = [w \in Servers |-> [b \in Branches |-> 0]]
  /\ inbox = [w \in Servers |-> <<>>]
  /\ resumes = [w \in Servers |-> <<>>]
  /\ cluster = [w \in Servers |-> <<>>]
  /\ at = [s \in Sockets |-> None]
  /\ heard = [s \in Sockets |-> <<>>]
  /\ failed = [w \in Servers |-> [b \in Branches |-> 0]]

Room(w, b) == {s \in Sockets : at[s] = w /\ BranchOf[s] = b}

\* Every socket of w in the room of the event's branch gets the copy m.
EmitLocally(w, m) ==
  heard' = [s \in Sockets |->
    IF s \in Room(w, published[m.n].branch) THEN Append(heard[s], m) ELSE heard[s]]

-----------------------------------------------------------------------------
(* Faulty variants of definitions below, for the mutants of the runs. *)

\* No look into branchSubscriptions.
SubscribeEverySocket(w, b) ==
  IF b = None THEN UNCHANGED registration ELSE
  /\ known' = [known EXCEPT ![w] = @ \cup {b}]
  /\ callbacks' = [callbacks EXCEPT ![w][b] = @ + 1]
  /\ asking' = [asking EXCEPT ![w] = @ \cup {b}]
  /\ UNCHANGED <<subscribed, failed>>

\* A refused subscription takes its callback away.
RefusedForGood(w, b) ==
  /\ link[w] = "down" /\ b \in asking[w] /\ failed[w][b] < MaxFailures[w]
  /\ asking' = [asking EXCEPT ![w] = @ \ {b}]
  /\ known' = [known EXCEPT ![w] = @ \ {b}]
  /\ callbacks' = [callbacks EXCEPT ![w][b] = 0]
  /\ failed' = [failed EXCEPT ![w][b] = @ + 1]
  /\ UNCHANGED <<published, link, at, subscribed, transport>>

\* The event goes to the other servers only.
RelayElsewhere(w, c, n) ==
  /\ cluster' = [v \in Servers |-> IF v = w \/ published[n].kind # Status THEN cluster[v]
       ELSE Append(cluster[v], [from |-> w, callback |-> c, n |-> n])]
  /\ UNCHANGED heard

-----------------------------------------------------------------------------
(* Publisher and Redis connections *)

\* getActiveChannels: the channels that have a callback.
ActiveChannels(w) == {b \in Branches : callbacks[w][b] > 0}

\* EventBus.publish: every server that is connected and subscribed gets the
\* event, the others never will.
Publish(b, kind) ==
  /\ Len(published) < MaxEvents
  /\ published' = Append(published, [branch |-> b, kind |-> kind])
  /\ inbox' = [w \in Servers |->
       IF link[w] = "up" /\ b \in subscribed[w]
         THEN Append(inbox[w], Len(published) + 1) ELSE inbox[w]]
  /\ UNCHANGED <<link, at, registration, resumes, cluster, heard>>

\* The connection is lost, with what Redis had sent on it.
LinkLost(w) ==
  /\ link[w] = "up"
  /\ link' = [link EXCEPT ![w] = "down"]
  /\ subscribed' = [subscribed EXCEPT ![w] = {}]
  /\ inbox' = [inbox EXCEPT ![w] = <<>>]
  /\ UNCHANGED <<published, at, asking, known, callbacks, failed, resumes, cluster, heard>>

\* 'ready': resubscribeToActiveChannels, one SUBSCRIBE of all channels that
\* have a callback.
Ready(w) ==
  /\ link[w] = "down"
  /\ link' = [link EXCEPT ![w] = "up"]
  /\ subscribed' = [subscribed EXCEPT ![w] = ActiveChannels(w)]
  /\ UNCHANGED <<published, at, asking, known, callbacks, failed, transport>>

\* The SUBSCRIBE of one branch succeeds.
SubscribeAnswered(w, b) ==
  /\ link[w] = "up" /\ b \in asking[w]
  /\ asking' = [asking EXCEPT ![w] = @ \ {b}]
  /\ subscribed' = [subscribed EXCEPT ![w] = @ \cup {b}]
  /\ UNCHANGED <<published, link, at, known, callbacks, failed, transport>>

\* ... or is given up while there is no connection: the branch is forgotten.
SubscribeRefused(w, b) ==
  /\ link[w] = "down" /\ b \in asking[w] /\ failed[w][b] < MaxFailures[w]
  /\ asking' = [asking EXCEPT ![w] = @ \ {b}]
  /\ known' = [known EXCEPT ![w] = @ \ {b}]
  /\ failed' = [failed EXCEPT ![w][b] = @ + 1]
  /\ UNCHANGED <<published, link, at, subscribed, callbacks, transport>>

-----------------------------------------------------------------------------
(* Connections *)

\* subscribeToBranchEvents: one callback per branch, registered before the
\* SUBSCRIBE is sent.
SubscribeToBranch(w, b) ==
  IF b = None \/ b \in known[w] THEN UNCHANGED registration ELSE
  /\ known' = [known EXCEPT ![w] = @ \cup {b}]
  /\ callbacks' = [callbacks EXCEPT ![w][b] = @ + 1]
  /\ asking' = [asking EXCEPT ![w] = @ \cup {b}]
  /\ UNCHANGED <<subscribed, failed>>

HandleConnection(s, w) ==
  /\ at[s] = None
  /\ at' = [at EXCEPT ![s] = w]
  /\ SubscribeToBranch(w, BranchOf[s])
  /\ UNCHANGED <<published, link, transport>>

Disconnect(s) ==
  /\ at[s] # None
  /\ at' = [at EXCEPT ![s] = None]
  /\ heard' = [heard EXCEPT ![s] = <<>>]
  /\ UNCHANGED <<published, link, registration, inbox, resumes, cluster>>

\* A ws-server process ends and another takes its place.
Restart(w) ==
  /\ w \in Restarting
  /\ link' = [link EXCEPT ![w] = "down"]
  /\ at' = [s \in Sockets |-> IF at[s] = w THEN None ELSE at[s]]
  /\ heard' = [s \in Sockets |-> IF at[s] = w THEN <<>> ELSE heard[s]]
  /\ subscribed' = [subscribed EXCEPT ![w] = {}]
  /\ asking' = [asking EXCEPT ![w] = {}]
  /\ known' = [known EXCEPT ![w] = {}]
  /\ callbacks' = [callbacks EXCEPT ![w] = [b \in Branches |-> 0]]
  /\ inbox' = [inbox EXCEPT ![w] = <<>>]
  /\ resumes' = [resumes EXCEPT ![w] = <<>>]
  /\ cluster' = [cluster EXCEPT ![w] = <<>>]
  /\ failed' = [failed EXCEPT ![w] = [b \in Branches |-> 0]]
  /\ UNCHANGED published

-----------------------------------------------------------------------------
(* Dispatch *)

\* The c-th callback of w: only status changes go to the room, of this server
\* and, through the adapter, of the servers that have sockets in it and whose
\* adapter is connected.
Relay(w, c, n) ==
  LET m == [from |-> w, callback |-> c, n |-> n] IN
  IF published[n].kind = Status
    THEN /\ EmitLocally(w, m)
         /\ \E reached \in SUBSET {v \in Servers \ {w} : Room(v, published[n].branch) # {}} :
              cluster' = [v \in Servers |->
                IF v \in reached THEN Append(cluster[v], m) ELSE cluster[v]]
    ELSE UNCHANGED <<heard, cluster>>

\* dispatch: the first callback runs at once, each further one after an await,
\* and the next event may be dispatched in between.  A channel that is subscribed
\* has a callback.
Dispatch(w) ==
  /\ inbox[w] # <<>>
  /\ LET n == Head(inbox[w])
         last == callbacks[w][published[n].branch]
     IN /\ Relay(w, 1, n)
        /\ resumes' = IF last > 1
             THEN [resumes EXCEPT ![w] = Append(@, [n |-> n, next |-> 2, last |-> last])]
             ELSE resumes
  /\ inbox' = [inbox EXCEPT ![w] = Tail(@)]
  /\ UNCHANGED <<published, link, at, registration>>

\* Faulty: the loop runs the callback it has just awaited again.
ResumeSame(w) ==
  /\ resumes[w] # <<>>
  /\ LET r == Head(resumes[w]) IN Relay(w, r.next - 1, r.n)
  /\ resumes' = [resumes EXCEPT ![w] = Tail(@)]
  /\ UNCHANGED <<published, link, at, registration, inbox>>

Resume(w) ==
  /\ resumes[w] # <<>>
  /\ LET r == Head(resumes[w]) IN
     /\ Relay(w, r.next, r.n)
     /\ resumes' = [resumes EXCEPT ![w] =
          IF r.next < r.last THEN Append(Tail(@), [r EXCEPT !.next = @ + 1]) ELSE Tail(@)]
  /\ UNCHANGED <<published, link, at, registration, inbox>>

\* The adapter hands the message of another server to the room's sockets.
HandOut(w) ==
  /\ cluster[w] # <<>>
  /\ EmitLocally(w, Head(cluster[w]))
  /\ cluster' = [cluster EXCEPT ![w] = Tail(@)]
  /\ UNCHANGED <<published, link, at, registration, inbox, resumes>>

-----------------------------------------------------------------------------
ServerStep(w) ==
  \/ LinkLost(w) \/ Ready(w) \/ Restart(w)
  \/ Dispatch(w) \/ Resume(w) \/ HandOut(w)
  \/ \E b \in Branches : SubscribeAnswered(w, b) \/ SubscribeRefused(w, b)
  \/ \E s \in Sockets : HandleConnection(s, w)

Next ==
  \/ \E b \in Branches, kind \in Kinds : Publish(b, kind)
  \/ \E w \in Servers : ServerStep(w)
  \/ \E s \in Sockets : Disconnect(s)

Spec == Init /\ [][Next]_vars

\* ioredis reconnects without end (retryStrategy), Redis answers a SUBSCRIBE,
\* and the event loop gets to every message.
FairSpec ==
  /\ Spec
  /\ \A w \in Servers :
       /\ WF_vars(Ready(w)) /\ WF_vars(Dispatch(w)) /\ WF_vars(Resume(w))
       /\ \A b \in Branches : WF_vars(SubscribeAnswered(w, b))

-----------------------------------------------------------------------------
(* Properties *)

\* The types of the variables of EventBus and ConnectionManager.
TypeOK ==
  /\ published \in Seq(Events)
  /\ link \in [Servers -> {"up", "down"}]
  /\ subscribed \in [Servers -> SUBSET Branches]
  /\ asking \in [Servers -> SUBSET Branches]
  /\ known \in [Servers -> SUBSET Branches]
  /\ callbacks \in [Servers -> [Branches -> Nat]]
  /\ inbox \in [Servers -> Seq(Nat)]
  /\ resumes \in [Servers -> Seq(Resumes)]
  /\ cluster \in [Servers -> Seq(Copies)]
  /\ at \in [Sockets -> Servers \cup {None}]
  /\ heard \in [Sockets -> Seq(Copies)]
  /\ failed \in [Servers -> [Branches -> Nat]]

SameCallback(k, m) == k.from = m.from /\ k.callback = m.callback
InOrder(copies) ==
  \A i, j \in DOMAIN copies :
    i < j /\ SameCallback(copies[i], copies[j]) => copies[i].n < copies[j].n

\* What a socket hears from one callback of one server comes in the order of
\* publication and never twice, through the local room or the adapter, and
\* although further callbacks run after an await (EventDispatcher.dispatch).
HeardInOrder == \A s \in Sockets : InOrder(heard[s])

\* A server has one callback per branch and one more for every subscription
\* that was refused; a socket hears no copy of its server beyond these
\* (ConnectionManager.subscribeToBranchEvents).
CopiesCounted ==
  /\ \A w \in Servers, b \in Branches : callbacks[w][b] <= failed[w][b] + 1
  /\ \A s \in Sockets : \A i \in DOMAIN heard[s] :
       heard[s][i].from = at[s] => heard[s][i].callback <= failed[at[s]][BranchOf[s]] + 1

\* A server has at most one callback per branch (the comment above
\* branchSubscriptions in connection.manager.ts).
OneCallbackPerBranch ==
  \A w \in Servers, b \in Branches : callbacks[w][b] <= 1

\* The server of a connected socket is sooner or later subscribed to the branch
\* of the socket, even if its subscription was refused: the callback is still
\* there when the connection is ready again.
BranchIsHeard ==
  \A s \in Sockets, w \in Servers :
    BranchOf[s] # None /\ at[s] = w ~> BranchOf[s] \in subscribed[w] \/ at[s] # w

\* A status change that Redis has sent to a server is heard by every socket of
\* its branch there, unless the socket or the server's connection goes first.
SentIsHeard ==
  \A s \in Sockets, w \in Servers, n \in 1..MaxEvents :
    (/\ at[s] = w
     /\ \E i \in DOMAIN inbox[w] : inbox[w][i] = n
     /\ published[n] = [branch |-> BranchOf[s], kind |-> Status])
      ~> (\/ at[s] # w
          \/ link[w] = "down"
          \/ \E i \in DOMAIN heard[s] : heard[s][i].n = n)
===============================================================================
