---------------------------- MODULE LiveFeed ----------------------------
(* Events for the dashboard: published to whoever is subscribed, and kept  *)
(* in a short backlog that a client is sent when it connects.  Events are  *)
(* numbered as they are published.                                         *)
EXTENDS Integers, Sequences, SequencesExt, FiniteSets

CONSTANTS
    Clients,        \* dashboards
    BacklogLimit,   \* events_recent_limit
    ReplayLimit     \* how many events of the backlog a client is sent

ASSUME FeedAssumption ==
    {BacklogLimit, ReplayLimit} \subseteq Nat \ {0} /\ ReplayLimit <= BacklogLimit

VARIABLES
    published,   \* events published
    backlog,     \* the latest of them, newest first
    client       \* what each client is doing and what it was sent

feedVars == <<published, backlog, client>>

(* got: events sent, in order; inbox: those its subscription has taken and *)
(* not sent yet; seen: events published when the backlog was read.         *)
(* gap: history, the events published while it was not subscribed or lost  *)
(* with its subscription.  A client "cut" has a socket and no subscription.*)
Off == [pc |-> "off", got |-> <<>>, inbox |-> <<>>, seen |-> 0, gap |-> {}]

FeedInit ==
    /\ published = 0
    /\ backlog = <<>>
    /\ client = [c \in Clients |-> Off]

Newest(s, n) == SubSeq(s, 1, Min({n, Len(s)}))

(* One transaction: publish, push, trim.                                   *)
Publish ==
    LET event == published + 1 IN
    /\ published' = event
    /\ backlog' = Newest(<<event>> \o backlog, BacklogLimit)
    /\ client' = [c \in Clients |->
           CASE client[c].pc = "live" -> [client[c] EXCEPT !.inbox = Append(@, event)]
             [] client[c].pc \in {"replayed", "cut"} -> [client[c] EXCEPT !.gap = @ \cup {event}]
             [] OTHER -> client[c]]

(* Publishing is best effort: Redis may be down.                           *)
PublishOrNot == Publish \/ UNCHANGED feedVars

(* Mutant: the backlog is sent as it lies in Redis.                        *)
ReplayBackwards(c) ==
    /\ client[c].pc = "off"
    /\ client' = [client EXCEPT ![c].pc = "replayed", ![c].seen = published,
                                ![c].got = Newest(backlog, ReplayLimit)]
    /\ UNCHANGED <<published, backlog>>

Replay(c) ==
    /\ client[c].pc = "off"
    /\ client' = [client EXCEPT ![c].pc = "replayed", ![c].seen = published,
                                ![c].got = Reverse(Newest(backlog, ReplayLimit))]
    /\ UNCHANGED <<published, backlog>>

(* The backlog cannot be read: the client is subscribed all the same.      *)
ReplayFails(c) ==
    /\ client[c].pc = "off"
    /\ client' = [client EXCEPT ![c].pc = "replayed", ![c].gap = 1 .. published]
    /\ UNCHANGED <<published, backlog>>

(* At first, or again when the connection to Redis was lost.               *)
Subscribe(c) ==
    /\ client[c].pc \in {"replayed", "cut"}
    /\ client' = [client EXCEPT ![c].pc = "live"]
    /\ UNCHANGED <<published, backlog>>

(* The pump sends the next event on.                                       *)
Pump(c) ==
    /\ client[c].pc = "live" /\ client[c].inbox # <<>>
    /\ client' = [client EXCEPT ![c].got = Append(@, Head(client[c].inbox)),
                                ![c].inbox = Tail(@)]
    /\ UNCHANGED <<published, backlog>>

(* The subscription is lost.  The pump subscribes again or ends for good;  *)
(* the socket stays open and the client is told nothing.                   *)
Cut(c) ==
    /\ client[c].pc = "live"
    /\ client' = [client EXCEPT ![c].pc = "cut", ![c].inbox = <<>>,
                                ![c].gap = @ \cup ToSet(client[c].inbox)]
    /\ UNCHANGED <<published, backlog>>

Disconnect(c) ==
    /\ client[c].pc # "off"
    /\ client' = [client EXCEPT ![c] = Off]
    /\ UNCHANGED <<published, backlog>>

Open(c) == Replay(c) \/ ReplayFails(c)
Follow(c) == Subscribe(c) \/ Pump(c) \/ Cut(c) \/ Disconnect(c)

(* The backlog is the latest events.  A client is sent events in the order *)
(* they were published, none twice.  What it was not sent is on its way,   *)
(* is older than the backlog it got, or was published while it had no      *)
(* subscription or lost with one: nothing else goes missing.               *)
FeedExplained ==
    /\ backlog = [i \in 1 .. Min({published, BacklogLimit}) |-> published + 1 - i]
    /\ \A c \in Clients :
        LET due == client[c].got \o client[c].inbox IN
        /\ \A i, j \in DOMAIN due : i < j => due[i] < due[j]
        /\ client[c].pc # "off" =>
               \A event \in 1 .. published :
                   \/ event \in ToSet(due) \cup client[c].gap
                   \/ event <= client[c].seen - ReplayLimit
=============================================================================
