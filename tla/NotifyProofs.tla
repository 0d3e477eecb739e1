---------------------------- MODULE NotifyProofs ----------------------------
(***************************************************************************)
(* StreamHasNoGaps for any number of peers and events, with an inductive   *)
(* invariant that says how far down the log each connection has been       *)
(* served, in the middle of a broadcast too.                               *)
(***************************************************************************)
EXTENDS Notify, SequenceTheorems, TLAPS

-----------------------------------------------------------------------------
(* The inductive invariant. *)

\* The last event that a connection got.
LastOf(s) == s[Len(s)]

\* A stream in the order of the log, nothing left out in between.
Orderly(s) ==
    \A i \in 1..(Len(s) - 1) :
        s[i] < s[i + 1] /\ Between(s[i], s[i + 1]) = {}

\* The event up to which the notifier has served client c.
ServedTo(c) ==
    IF at = "snapshot" \/ (at = "write" /\ c \in batch) THEN position - 1 ELSE position

\* Streams are orderly and end where the notifier is, or before that; they end
\* no earlier if the peer is still being served.
Served ==
    \A c \in Clients :
        /\ Orderly(got[c])
        /\ got[c] # << >> => LastOf(got[c]) <= ServedTo(c)
        /\ got[c] # << >> /\ c \in hub \cup batch /\ socket[c] # "broken" =>
              Between(LastOf(got[c]), ServedTo(c) + 1) = {}

\* Nothing is sent to a connection before hub.Add, and only a broken socket
\* ends the read loop.
HubIsReading ==
    \A c \in Clients :
        /\ conn[c] \in {"new", "upgraded"} => got[c] = << >> /\ c \notin hub \cup batch
        /\ conn[c] \in {"leaving", "closed"} => socket[c] = "broken"

\* Only a broadcast has clients to write to, and it sends a decoded event.
BroadcastIsGood ==
    /\ at # "write" => batch = {}
    /\ at \in {"snapshot", "write"} => position >= 1 /\ position \notin Poison
    /\ \A c \in batch : socket[c] # "broken" => c \in hub

NInv ==
    /\ TypeOK
    /\ Served
    /\ HubIsReading
    /\ BroadcastIsGood

-----------------------------------------------------------------------------
(* Facts about streams. *)

\* Appending the next event that must be sent keeps a stream orderly.
LEMMA AppendIsOrderly ==
    ASSUME NEW s \in Seq(1..NumEvents), NEW e \in 1..NumEvents, Orderly(s),
           s # << >> => LastOf(s) < e /\ Between(LastOf(s), e) = {}
    PROVE  /\ Append(s, e) \in Seq(1..NumEvents)
           /\ Orderly(Append(s, e))
           /\ Append(s, e) # << >>
           /\ LastOf(Append(s, e)) = e
<1> DEFINE t == Append(s, e)
<1>1. t \in Seq(1..NumEvents) /\ Len(t) = Len(s) + 1 /\ Len(s) \in Nat /\ t # << >>
  OBVIOUS
<1>2. t[Len(s) + 1] = e /\ \A i \in 1..Len(s) : t[i] = s[i]
  OBVIOUS
<1>3. Orderly(t)
  <2> SUFFICES ASSUME NEW i \in 1..(Len(t) - 1)
               PROVE  t[i] < t[i + 1] /\ Between(t[i], t[i + 1]) = {}
    BY DEF Orderly
  <2>1. CASE i < Len(s)
    <3>1. t[i] = s[i] /\ t[i + 1] = s[i + 1] /\ i \in 1..(Len(s) - 1)
      BY <1>1, <1>2, <2>1
    <3> QED
      BY <3>1 DEF Orderly
  <2>2. CASE i = Len(s)
    <3>1. t[i] = LastOf(s) /\ t[i + 1] = e /\ s # << >>
      BY <1>1, <1>2, <2>2 DEF LastOf
    <3> QED
      BY <3>1
  <2>3. i < Len(s) \/ i = Len(s)
    BY <1>1
  <2> QED
    BY <2>1, <2>2, <2>3
<1> QED
  BY <1>1, <1>2, <1>3 DEF LastOf

\* The last event of a stream is an event of the log.
LEMMA LastIsEvent ==
    ASSUME NEW s \in Seq(1..NumEvents), s # << >>
    PROVE  LastOf(s) \in 1..NumEvents
<1>1. Len(s) \in Nat /\ Len(s) # 0
  BY EmptySeq, LenProperties
<1>2. Len(s) \in 1..Len(s)
  BY <1>1
<1> QED
  BY <1>2, ElementOfSeq DEF LastOf

\* Nothing lies between an event and the next, and a gap without events stays
\* one when an undecodable event is added to it.
LEMMA Gaps ==
    ASSUME NotifyAssumption, NEW i \in Int, NEW j \in Int
    PROVE  /\ j <= i + 1 => Between(i, j) = {}
           /\ Between(i, j) = {} /\ j \in Poison => Between(i, j + 1) = {}
BY DEF Between, NotifyAssumption

-----------------------------------------------------------------------------
(* The invariant is inductive. *)

LEMMA NotifyStarts ==
    ASSUME NotifyAssumption, Init
    PROVE  NInv
<1>1. TypeOK
  BY DEF NotifyAssumption, Init, TypeOK
<1>2. \A c \in Clients : got[c] = << >>
  BY DEF Init
<1>3. Orderly(<< >>)
  BY EmptySeq DEF Orderly
<1>4. Served
  BY <1>2, <1>3 DEF Served
<1> QED
  BY <1>1, <1>2, <1>4 DEF NInv, Init, HubIsReading, BroadcastIsGood

\* A step of a connection: the notifier's place and the streams stay, and no
\* peer that was not being served comes to be.
LEMMA ConnectionStep ==
    ASSUME NInv, NEW c \in Clients, UNCHANGED <<notifierVars, got, faults>>,
           \A d \in Clients \ {c} :
              conn'[d] = conn[d] /\ socket'[d] = socket[d] /\ (d \in hub' <=> d \in hub),
           conn' \in [Clients -> {"new", "upgraded", "reading", "leaving", "closed"}],
           socket' \in [Clients -> {"ok", "full", "broken"}],
           hub' \subseteq Clients,
           got[c] # << >> /\ c \in hub' \cup batch /\ socket'[c] # "broken" =>
              c \in hub \cup batch /\ socket[c] # "broken",
           conn'[c] \in {"new", "upgraded"} => got[c] = << >> /\ c \notin hub' \cup batch,
           conn'[c] \in {"leaving", "closed"} => socket'[c] = "broken",
           c \in batch /\ socket'[c] # "broken" => c \in hub'
    PROVE  NInv'
<1>1. TypeOK'
  BY DEF NInv, TypeOK, notifierVars
<1>2. Served'
  <2> SUFFICES ASSUME NEW d \in Clients
               PROVE  /\ Orderly(got[d])
                      /\ got[d] # << >> => LastOf(got[d]) <= ServedTo(d)
                      /\ got[d] # << >> /\ d \in hub' \cup batch /\ socket'[d] # "broken" =>
                            Between(LastOf(got[d]), ServedTo(d) + 1) = {}
    BY DEF Served, notifierVars, ServedTo
  <2> QED
    BY DEF NInv, Served
<1>3. HubIsReading'
  BY DEF NInv, HubIsReading, notifierVars
<1>4. BroadcastIsGood'
  BY DEF NInv, BroadcastIsGood, notifierVars, TypeOK
<1> QED
  BY <1>1, <1>2, <1>3, <1>4 DEF NInv

\* A step of the notifier that sends nothing: hub, connections and streams
\* stay, and what a served peer has not got is not owed to it either.
LEMMA NotifierStep ==
    ASSUME NotifyAssumption, NInv, UNCHANGED <<connVars, hub>>, TypeOK',
           BroadcastIsGood', batch' \subseteq hub,
           \A d \in Clients : ServedTo(d) <= ServedTo(d)',
           \A d \in hub : \A i \in 1..NumEvents :
              Between(i, ServedTo(d) + 1) = {} => Between(i, ServedTo(d)' + 1) = {}
    PROVE  NInv'
<1> USE DEF connVars
<1>1. \A d \in Clients : ServedTo(d) \in Int /\ ServedTo(d)' \in Int
  BY DEF NInv, TypeOK, ServedTo, NotifyAssumption
<1>2. Served'
  <2> SUFFICES ASSUME NEW d \in Clients
               PROVE  /\ Orderly(got[d])
                      /\ got[d] # << >> => LastOf(got[d]) <= ServedTo(d)'
                      /\ got[d] # << >> /\ d \in hub \cup batch' /\ socket[d] # "broken" =>
                            Between(LastOf(got[d]), ServedTo(d)' + 1) = {}
    BY DEF Served
  <2>1. got[d] # << >> => LastOf(got[d]) \in 1..NumEvents
    BY LastIsEvent DEF NInv, TypeOK
  <2>2. got[d] # << >> => LastOf(got[d]) <= ServedTo(d)'
    BY <1>1, <2>1 DEF NInv, Served
  <2>3. ASSUME got[d] # << >>, d \in hub \cup batch', socket[d] # "broken"
        PROVE  Between(LastOf(got[d]), ServedTo(d)' + 1) = {}
    <3>1. d \in hub /\ Between(LastOf(got[d]), ServedTo(d) + 1) = {}
      BY <2>3 DEF NInv, Served
    <3> QED
      BY <3>1, <2>1, <2>3
  <2> QED
    BY <2>2, <2>3 DEF NInv, Served
<1>3. HubIsReading'
  BY DEF NInv, HubIsReading
<1> QED
  BY <1>2, <1>3 DEF NInv

\* Every step keeps the invariant.
LEMMA NotifyStep ==
    ASSUME NotifyAssumption, NInv, [Next]_vars
    PROVE  NInv'
<1> USE DEF notifierVars, connVars
<1>1. ASSUME NEW c \in Clients, Upgrade(c)
      PROVE  NInv'
  BY <1>1, ConnectionStep DEF Upgrade, NInv, TypeOK, HubIsReading, BroadcastIsGood
<1>2. ASSUME NEW c \in Clients, Add(c)
      PROVE  NInv'
  BY <1>2, ConnectionStep DEF Add, NInv, TypeOK, HubIsReading, BroadcastIsGood
<1>3. ASSUME NEW c \in Clients, ReadFails(c)
      PROVE  NInv'
  BY <1>3, ConnectionStep DEF ReadFails, NInv, TypeOK, HubIsReading, BroadcastIsGood
<1>4. ASSUME NEW c \in Clients, Remove(c)
      PROVE  NInv'
  BY <1>4, ConnectionStep DEF Remove, NInv, TypeOK, HubIsReading, BroadcastIsGood
<1>5. ASSUME NEW c \in Clients, NEW before, NEW after \in {"ok", "full", "broken"},
             before # "broken", Peer(c, before, after)
      PROVE  NInv'
  BY <1>5, ConnectionStep DEF Peer, NInv, TypeOK, HubIsReading, BroadcastIsGood
<1>6. ASSUME NEW c \in Clients, PeerStalls(c) \/ PeerResumes(c) \/ PeerLeaves(c)
      PROVE  NInv'
  BY <1>5, <1>6 DEF PeerStalls, PeerResumes, PeerLeaves
<1>7. ASSUME NEW c \in Clients, Write(c)
      PROVE  NInv'
  <2> DEFINE s == got[c]
             t == Append(s, position)
  <2>0. /\ at = "write" /\ at' = at /\ c \in batch /\ socket[c] # "broken"
        /\ position' = position /\ batch' = batch \ {c} /\ c \in hub
        /\ conn' = conn /\ socket' = socket /\ hub' = hub
        /\ committed' = committed /\ faults' = faults
    BY <1>7 DEF Write, NInv, BroadcastIsGood
  <2>1. position \in 1..NumEvents /\ s \in Seq(1..NumEvents) /\ Orderly(s)
    BY <2>0 DEF NInv, TypeOK, BroadcastIsGood, Served, NotifyAssumption
  <2>2. s # << >> => LastOf(s) < position /\ Between(LastOf(s), position) = {}
    <3>1. ServedTo(c) = position - 1 /\ ServedTo(c) + 1 = position
      BY <2>0, <2>1 DEF ServedTo
    <3>2. s # << >> => LastOf(s) \in 1..NumEvents
      BY <2>1, LastIsEvent
    <3>3. s # << >> => /\ LastOf(s) <= ServedTo(c)
                       /\ Between(LastOf(s), ServedTo(c) + 1) = {}
      BY <2>0 DEF NInv, Served
    <3> HIDE DEF s
    <3> QED
      BY <2>1, <3>1, <3>2, <3>3
  <2> HIDE DEF s
  <2>3. /\ t \in Seq(1..NumEvents) /\ Orderly(t) /\ t # << >> /\ LastOf(t) = position
    BY <2>1, <2>2, AppendIsOrderly
  <2> HIDE DEF t
  <2>4. /\ got' \in [Clients -> Seq(1..NumEvents)]
        /\ got'[c] = t
        /\ \A d \in Clients \ {c} : got'[d] = got[d]
    <3>1. got \in [Clients -> Seq(1..NumEvents)] /\ got' = [got EXCEPT ![c] = t]
      BY <1>7 DEF Write, NInv, TypeOK, s, t
    <3>2. c \in Clients /\ t \in Seq(1..NumEvents)
      BY <2>3
    <3> QED
      BY <3>1, <3>2
  <2>5. TypeOK'
    BY <2>0, <2>4 DEF NInv, TypeOK
  <2>6. Served'
    <3> SUFFICES ASSUME NEW d \in Clients
                 PROVE  /\ Orderly(got'[d])
                        /\ got'[d] # << >> => LastOf(got'[d]) <= ServedTo(d)'
                        /\ got'[d] # << >> /\ d \in hub' \cup batch' /\ socket'[d] # "broken" =>
                              Between(LastOf(got'[d]), ServedTo(d)' + 1) = {}
      BY DEF Served
    <3>1. CASE d = c
      <4>1. ServedTo(d)' = position
        BY <2>0, <3>1 DEF ServedTo
      <4>2. Between(position, position + 1) = {}
        BY <2>1, Gaps
      <4> QED
        BY <2>1, <2>3, <2>4, <3>1, <4>1, <4>2
    <3>2. CASE d # c
      <4>1. ServedTo(d)' = ServedTo(d) /\ got'[d] = got[d] /\ (d \in batch' <=> d \in batch)
        BY <2>0, <2>4, <3>2 DEF ServedTo
      <4> QED
        BY <2>0, <4>1 DEF NInv, Served
    <3> QED
      BY <3>1, <3>2
  <2>7. HubIsReading'
    BY <2>0, <2>4 DEF NInv, HubIsReading
  <2>8. BroadcastIsGood'
    BY <2>0 DEF NInv, BroadcastIsGood
  <2> QED
    BY <2>5, <2>6, <2>7, <2>8 DEF NInv
<1>8. ASSUME NEW c \in Clients, WriteBroken(c)
      PROVE  NInv'
  <2>0. /\ at = "write" /\ at' = at /\ c \in batch /\ socket[c] = "broken"
        /\ position' = position /\ batch' = batch \ {c} /\ hub' \subseteq hub
        /\ conn' = conn /\ socket' = socket /\ got' = got
        /\ committed' = committed /\ faults' = faults
        /\ \A d \in Clients \ {c} : d \in hub' <=> d \in hub
    BY <1>8 DEF WriteBroken
  <2>1. TypeOK'
    BY <2>0 DEF NInv, TypeOK
  <2>2. Served'
    <3> SUFFICES ASSUME NEW d \in Clients
                 PROVE  /\ Orderly(got[d])
                        /\ got[d] # << >> => LastOf(got[d]) <= ServedTo(d)'
                        /\ got[d] # << >> /\ d \in hub' \cup batch' /\ socket[d] # "broken" =>
                              Between(LastOf(got[d]), ServedTo(d)' + 1) = {}
      BY <2>0 DEF Served
    <3>1. CASE d = c
      <4>1. ServedTo(d) = position - 1 /\ ServedTo(d)' = position /\ position \in Int
        BY <2>0, <3>1 DEF ServedTo, NInv, TypeOK, NotifyAssumption
      <4>2. got[d] # << >> => LastOf(got[d]) \in 1..NumEvents
        BY LastIsEvent DEF NInv, TypeOK
      <4> QED
        BY <2>0, <3>1, <4>1, <4>2 DEF NInv, Served
    <3>2. CASE d # c
      <4>1. ServedTo(d)' = ServedTo(d) /\ (d \in batch' <=> d \in batch)
        BY <2>0, <3>2 DEF ServedTo
      <4> QED
        BY <2>0, <3>2, <4>1 DEF NInv, Served
    <3> QED
      BY <3>1, <3>2
  <2>3. HubIsReading'
    BY <2>0 DEF NInv, HubIsReading
  <2>4. BroadcastIsGood'
    BY <2>0 DEF NInv, TypeOK, BroadcastIsGood
  <2> QED
    BY <2>1, <2>2, <2>3, <2>4 DEF NInv
<1>9. CASE Fetch
  <2>0. /\ batch = {} /\ batch' = {} /\ at = "fetch" /\ position' = position + 1
        /\ position \in Int
        /\ position + 1 \in Poison => at' = "commit"
        /\ position + 1 \notin Poison => at' = "snapshot"
    BY <1>9 DEF Fetch, NInv, TypeOK, BroadcastIsGood, NotifyAssumption
  <2>1. TypeOK'
    BY <1>9 DEF Fetch, NInv, TypeOK, NotifyAssumption
  <2>2. BroadcastIsGood'
    BY <2>0, <1>9 DEF Fetch, NInv, TypeOK, BroadcastIsGood, NotifyAssumption
  <2>3. \A d \in Clients : ServedTo(d) = position
                            /\ ServedTo(d)' = IF position + 1 \in Poison THEN position + 1 ELSE position
    BY <2>0 DEF ServedTo
  <2>4. \A i \in 1..NumEvents : Between(i, position + 1) = {} /\ position + 1 \in Poison
                                  => Between(i, position + 1 + 1) = {}
    BY <2>0, Gaps
  <2>5. \A d \in hub : \A i \in 1..NumEvents :
          Between(i, ServedTo(d) + 1) = {} => Between(i, ServedTo(d)' + 1) = {}
    BY <2>3, <2>4 DEF NInv, TypeOK
  <2>6. \A d \in Clients : ServedTo(d) <= ServedTo(d)'
    BY <2>0, <2>3
  <2> QED
    BY <2>0, <2>1, <2>2, <2>5, <2>6, <1>9, NotifierStep DEF Fetch
<1>10. CASE Snapshot
  <2>0. /\ at = "snapshot" /\ at' = "write" /\ batch' = hub /\ position' = position
        /\ position \in Int /\ UNCHANGED <<connVars, hub, committed, faults>>
    BY <1>10 DEF Snapshot, NInv, TypeOK, NotifyAssumption
  <2>1. TypeOK'
    BY <2>0 DEF NInv, TypeOK, connVars
  <2>2. BroadcastIsGood'
    BY <2>0 DEF NInv, BroadcastIsGood, connVars
  <2>3. /\ \A d \in Clients : ServedTo(d) <= ServedTo(d)'
        /\ \A d \in hub : ServedTo(d)' = ServedTo(d)
    BY <2>0 DEF ServedTo
  <2> QED
    BY <2>0, <2>1, <2>2, <2>3, NotifierStep
<1>11. CASE BroadcastDone \/ Commit \/ CommitFails
  <2>0. /\ batch = {} /\ batch' = {} /\ at \in {"write", "commit"} /\ at' \in {"commit", "fetch"}
        /\ position' = position /\ position \in Int
    BY <1>11 DEF BroadcastDone, Commit, CommitFails, NInv, BroadcastIsGood, TypeOK, NotifyAssumption
  <2>1. TypeOK'
    BY <1>11 DEF BroadcastDone, Commit, CommitFails, Fault, NInv, TypeOK, NotifyAssumption
  <2>2. BroadcastIsGood'
    BY <2>0 DEF BroadcastIsGood
  <2>3. \A d \in Clients : ServedTo(d) = position /\ ServedTo(d)' = position
    BY <2>0 DEF ServedTo
  <2>4. UNCHANGED <<connVars, hub>>
    BY <1>11 DEF BroadcastDone, Commit, CommitFails
  <2>5. hub \subseteq Clients
    BY DEF NInv, TypeOK
  <2> QED
    BY <2>0, <2>1, <2>2, <2>3, <2>4, <2>5, NotifierStep
<1>12. CASE Restart
  <2>1. TypeOK'
    BY <1>12 DEF Restart, Fault, NInv, TypeOK, NotifyAssumption
  <2>2. \A c \in Clients : got'[c] = << >>
    BY <1>12 DEF Restart
  <2>3. Orderly(<< >>)
    BY EmptySeq DEF Orderly
  <2>4. Served'
    BY <2>2, <2>3 DEF Served
  <2> QED
    BY <1>12, <2>1, <2>2, <2>4 DEF Restart, NInv, HubIsReading, BroadcastIsGood
<1>13. CASE UNCHANGED vars
  BY <1>13 DEF vars, NInv, TypeOK, Served, ServedTo, HubIsReading, BroadcastIsGood
<1> QED
  BY <1>1, <1>2, <1>3, <1>4, <1>6, <1>7, <1>8, <1>9, <1>10, <1>11, <1>12, <1>13 DEF Next

-----------------------------------------------------------------------------
(* The theorems. *)

\* The notifier, the hub and the connections keep the invariant, whatever the
\* peers do and however often a commit fails or the process restarts.
THEOREM NotifyInvariant == Spec => []NInv
<1>1. Init => NInv
  BY NotifyStarts, NotifyAssumption
<1>2. NInv /\ [Next]_vars => NInv'
  BY NotifyStep, NotifyAssumption
<1> QED
  BY <1>1, <1>2, PTL DEF Spec

\* A browser sees the log as it is (Notifier.Run, Hub.Broadcast): in order,
\* nothing twice, nothing left out between the first event it got and the last
\* that was broadcast while it was connected.
THEOREM StreamsAreWhole == Spec => []StreamHasNoGaps
<1>1. NInv => StreamHasNoGaps
  <2> SUFFICES ASSUME NInv, NEW c \in Clients
               PROVE  /\ \A i \in 1..(Len(got[c]) - 1) :
                            /\ got[c][i] < got[c][i + 1]
                            /\ Between(got[c][i], got[c][i + 1]) = {}
                      /\ got[c] # << >> /\ c \in hub /\ socket[c] # "broken" =>
                            Between(got[c][Len(got[c])], Done + 1) = {}
    BY DEF StreamHasNoGaps
  <2>1. \A i \in 1..(Len(got[c]) - 1) :
          /\ got[c][i] < got[c][i + 1]
          /\ Between(got[c][i], got[c][i + 1]) = {}
    BY DEF NInv, Served, Orderly
  <2>2. ASSUME got[c] # << >>, c \in hub, socket[c] # "broken"
        PROVE  Between(LastOf(got[c]), Done + 1) = {}
    <3>1. Between(LastOf(got[c]), ServedTo(c) + 1) = {}
      BY <2>2 DEF NInv, Served
    <3>2. Done \in Int /\ ServedTo(c) \in Int /\ Done <= ServedTo(c)
      BY NotifyAssumption DEF Done, ServedTo, NInv, TypeOK, NotifyAssumption
    <3> QED
      BY <3>1, <3>2 DEF Between
  <2> QED
    BY <2>1, <2>2 DEF LastOf
<1> QED
  BY <1>1, NotifyInvariant, PTL
=============================================================================
