------------------------------- MODULE Notify -------------------------------
(***************************************************************************)
(* The WebSocket fan-out of one API process (internal/http/notify): the    *)
(* hub's client set, one handler per connection, and the notifier, which   *)
(* fetches an event, writes it to every client of a snapshot of the hub    *)
(* with no lock held and no deadline set, and commits.                     *)
(*                                                                         *)
(* The events are those of the partitions that the consumer group gives to *)
(* this process.                                                           *)
(***************************************************************************)
EXTENDS Integers, Sequences

CONSTANTS
    Clients,    \* browsers
    NumEvents,  \* events in the log
    Poison,     \* events that cannot be decoded
    MaxFaults   \* bound on failed commits and restarts

ASSUME NotifyAssumption ==
    /\ NumEvents \in Nat
    /\ Poison \subseteq 1..NumEvents
    /\ MaxFaults \in Nat

VARIABLES
    conn,       \* per client: how far its handler is
    socket,     \* per client: "ok", "full" (the peer does not read) or "broken"
    hub,        \* Hub.clients
    at,         \* what the notifier does next
    batch,      \* clients the current broadcast has still to write to
    position,   \* events fetched
    committed,  \* events committed for the group
    got,        \* per connection: the events that reached the peer
    faults

vars == <<conn, socket, hub, at, batch, position, committed, got, faults>>
connVars == <<conn, socket, got>>
notifierVars == <<at, batch, position, committed>>

Init ==
    /\ conn = [c \in Clients |-> "new"]
    /\ socket = [c \in Clients |-> "ok"]
    /\ hub = {}
    /\ at = "fetch"
    /\ batch = {}
    /\ position = 0
    /\ committed = 0
    /\ got = [c \in Clients |-> << >>]
    /\ faults = 0

-----------------------------------------------------------------------------
(* Handler.products, one per connection. *)

\* authenticate accepts the token, and the connection is upgraded.
Upgrade(c) ==
    /\ conn[c] = "new"
    /\ conn' = [conn EXCEPT ![c] = "upgraded"]
    /\ UNCHANGED <<socket, hub, notifierVars, got, faults>>

\* hub.Add; from here on the handler sits in its read loop.
Add(c) ==
    /\ conn[c] = "upgraded"
    /\ conn' = [conn EXCEPT ![c] = "reading"]
    /\ hub' = hub \cup {c}
    /\ UNCHANGED <<socket, notifierVars, got, faults>>

\* ReadMessage fails on a broken socket: the loop ends.
ReadFails(c) ==
    /\ conn[c] = "reading"
    /\ socket[c] = "broken"
    /\ conn' = [conn EXCEPT ![c] = "leaving"]
    /\ UNCHANGED <<socket, hub, notifierVars, got, faults>>

\* A plausible slip: Broadcast holds the lock while it writes.
RemoveWaitsForWrites(c) ==
    /\ conn[c] = "leaving"
    /\ at # "write"
    /\ conn' = [conn EXCEPT ![c] = "closed"]
    /\ hub' = hub \ {c}
    /\ UNCHANGED <<socket, notifierVars, got, faults>>

\* The deferred hub.Remove and Close.
Remove(c) ==
    /\ conn[c] = "leaving"
    /\ conn' = [conn EXCEPT ![c] = "closed"]
    /\ hub' = hub \ {c}
    /\ UNCHANGED <<socket, notifierVars, got, faults>>

-----------------------------------------------------------------------------
(* The peers. *)

Peer(c, before, after) ==
    /\ conn[c] # "new"
    /\ socket[c] = before
    /\ socket' = [socket EXCEPT ![c] = after]
    /\ UNCHANGED <<conn, hub, notifierVars, got, faults>>

PeerStalls(c) == Peer(c, "ok", "full")
PeerResumes(c) == Peer(c, "full", "ok")
PeerLeaves(c) == Peer(c, "ok", "broken") \/ Peer(c, "full", "broken")

-----------------------------------------------------------------------------
(* Notifier.Run and Hub.Broadcast. *)

\* The next message; an undecodable one is only committed.
Fetch ==
    /\ at = "fetch"
    /\ position < NumEvents
    /\ position' = position + 1
    /\ at' = IF position + 1 \in Poison THEN "commit" ELSE "snapshot"
    /\ UNCHANGED <<connVars, hub, batch, committed, faults>>

\* The clients are copied under the read lock.
Snapshot ==
    /\ at = "snapshot"
    /\ at' = "write"
    /\ batch' = hub
    /\ UNCHANGED <<connVars, hub, position, committed, faults>>

\* A plausible slip: a client that is not ready misses the event.
WriteOrSkip(c) ==
    /\ at = "write"
    /\ c \in batch
    /\ socket[c] # "broken"
    /\ got' = [got EXCEPT ![c] = IF socket[c] = "ok" THEN Append(@, position) ELSE @]
    /\ batch' = batch \ {c}
    /\ UNCHANGED <<conn, socket, hub, at, position, committed, faults>>

\* WriteMessage; on a full socket it blocks, and the whole notifier with it.
Write(c) ==
    /\ at = "write"
    /\ c \in batch
    /\ socket[c] = "ok"
    /\ got' = [got EXCEPT ![c] = Append(@, position)]
    /\ batch' = batch \ {c}
    /\ UNCHANGED <<conn, socket, hub, at, position, committed, faults>>

\* WriteMessage on a broken socket: the client is dropped, or the kernel has
\* not noticed yet and takes the bytes.
WriteBroken(c) ==
    /\ at = "write"
    /\ c \in batch
    /\ socket[c] = "broken"
    /\ hub' \in {hub, hub \ {c}}
    /\ batch' = batch \ {c}
    /\ UNCHANGED <<connVars, at, position, committed, faults>>

BroadcastDone ==
    /\ at = "write"
    /\ batch = {}
    /\ at' = "commit"
    /\ UNCHANGED <<connVars, hub, batch, position, committed, faults>>

Commit ==
    /\ at = "commit"
    /\ committed' = position
    /\ at' = "fetch"
    /\ UNCHANGED <<connVars, hub, batch, position, faults>>

Fault == faults < MaxFaults /\ faults' = faults + 1

\* A plausible slip: a failed commit ends the loop.
CommitFailsStops ==
    /\ at = "commit"
    /\ Fault
    /\ at' = "stopped"
    /\ UNCHANGED <<connVars, hub, batch, position, committed>>

\* The commit fails: logged, and the next commit covers it.
CommitFails ==
    /\ at = "commit"
    /\ Fault
    /\ at' = "fetch"
    /\ UNCHANGED <<connVars, hub, batch, position, committed>>

\* The process restarts: connections are gone, peers connect again, and the
\* group goes on after its last commit.
Restart ==
    /\ Fault
    /\ conn' = [c \in Clients |-> "new"]
    /\ socket' = [c \in Clients |-> "ok"]
    /\ got' = [c \in Clients |-> << >>]
    /\ hub' = {}
    /\ at' = "fetch"
    /\ batch' = {}
    /\ position' = committed
    /\ UNCHANGED committed

-----------------------------------------------------------------------------
Next ==
    \/ \E c \in Clients :
         \/ Upgrade(c) \/ Add(c) \/ ReadFails(c) \/ Remove(c)
         \/ PeerStalls(c) \/ PeerResumes(c) \/ PeerLeaves(c)
         \/ Write(c) \/ WriteBroken(c)
    \/ Fetch \/ Snapshot \/ BroadcastDone \/ Commit \/ CommitFails \/ Restart

Spec == Init /\ [][Next]_vars

\* Handlers and notifier run on; a blocked write gets through when the peer
\* reads again and again.  Peers owe nothing.
Fairness ==
    /\ \A c \in Clients : WF_vars(Add(c)) /\ WF_vars(ReadFails(c)) /\ WF_vars(Remove(c))
    /\ \A c \in Clients : SF_vars(Write(c)) /\ WF_vars(WriteBroken(c))
    /\ WF_vars(Fetch) /\ WF_vars(Snapshot) /\ WF_vars(BroadcastDone)
    /\ WF_vars(Commit \/ CommitFails)

FairSpec == Spec /\ Fairness

-----------------------------------------------------------------------------
(* Correctness. *)

\* Connections, hub and offsets stay within their domains.
TypeOK ==
    /\ conn \in [Clients -> {"new", "upgraded", "reading", "leaving", "closed"}]
    /\ socket \in [Clients -> {"ok", "full", "broken"}]
    /\ hub \subseteq Clients
    /\ at \in {"fetch", "snapshot", "write", "commit"}
    /\ batch \subseteq Clients
    /\ committed \in 0..NumEvents
    /\ position \in committed..NumEvents
    /\ got \in [Clients -> Seq(1..NumEvents)]
    /\ faults \in 0..MaxFaults

\* The events of the log between two, both left out, that must be sent.
Between(i, j) == {e \in (i + 1)..(j - 1) : e \notin Poison}

\* What this process has broadcast to the end.
Done == IF at \in {"snapshot", "write"} THEN position - 1 ELSE position

\* A connection sees the log as it is: no event twice, none out of order, none
\* missing between two that it got, and as long as it is in the hub and intact
\* nothing is missing at the end either.  A slow peer delays the notifier, it
\* never loses an event.
StreamHasNoGaps ==
    \A c \in Clients :
        /\ \A i \in 1..(Len(got[c]) - 1) :
              /\ got[c][i] < got[c][i + 1]
              /\ Between(got[c][i], got[c][i + 1]) = {}
        /\ got[c] # << >> /\ c \in hub /\ socket[c] # "broken" =>
              Between(got[c][Len(got[c])], Done + 1) = {}

\* A peer that is gone leaves the hub, even while the notifier hangs on
\* another peer's full socket.
GoneLeavesHub ==
    \A c \in Clients : c \in hub /\ socket[c] = "broken" ~> c \notin hub

\* If no peer stalls for ever, every event is broadcast, failed commits and
\* restarts included.
EveryEventGoesOut ==
    (\A c \in Clients : []<>(socket[c] # "full")) => <>(Done = NumEvents)
=============================================================================
