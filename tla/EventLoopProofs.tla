-------------------------- MODULE EventLoopProofs --------------------------
(* For any number of clients and descriptors, any scripts and any sizes of   *)
(* buffers and batches: an event means the connection it was raised for when *)
(* its turn comes, a descriptor belongs to one open connection, only         *)
(* departed clients lose theirs, and no wakeup is lost.                      *)
EXTENDS EventLoop, TLAPS, WellFoundedInduction

Working == {"read", "parse", "reply", "reply arm", "write", "write arm", "finish"}
Idle == {"wait", "loop", "accept"}
Departed(c) == fin[c] \/ rst[c]
Gone == {"HUP", "RDHUP"}
OpenClients == {c \in Clients : status[c] = "open"}

CoreTypes ==
  /\ status \in [Clients -> {"new", "queued", "open", "closed"}]
  /\ fin \in [Clients -> BOOLEAN] /\ rst \in [Clients -> BOOLEAN]
  /\ backlog \in Seq(Clients) /\ ready \subseteq Clients \cup {Listener}
  /\ DOMAIN conns \subseteq Fds /\ conns \in [DOMAIN conns -> Clients]

(* Connections wait for accept4() once each. *)
BacklogWaits ==
  \A i, j \in 1..Len(backlog) :
    /\ status[backlog[i]] = "queued"
    /\ backlog[i] = backlog[j] => i = j

(* The thread handles a connection's event, or none. *)
EventInHand ==
  /\ pc \in Working => ev.who # Listener
  /\ pc \notin Working => pc \in Idle /\ ev = NoEvent

(* No two events that remain are for the same descriptor: handling one may   *)
(* close it.                                                                 *)
EventsDiffer ==
  /\ \A e, f \in batch : e.who # Listener /\ f.who # Listener /\ e.fd = f.fd => e = f
  /\ \A e \in batch : e.who # Listener /\ ev.who # Listener => e.fd # ev.fd

(* An event says that a client has gone only if it has.                      *)
HangupsAreTrue ==
  \A e \in batch \cup {ev} : e.who # Listener /\ e.mask \cap Gone # {} => Departed(e.who)

IInv ==
  /\ CoreTypes /\ OneDescriptorEach /\ EventsAreCurrent
  /\ BacklogWaits /\ EventInHand /\ EventsDiffer /\ HangupsAreTrue

USE ListenerAssumption

-----------------------------------------------------------------------------
LEMMA InitIInv == Init => IInv
<1> SUFFICES ASSUME Init PROVE IInv
  OBVIOUS
<1> USE DEF Init, NoEvent
<1>1. CoreTypes
  BY DEF CoreTypes
<1>2. OneDescriptorEach /\ EventsAreCurrent
  BY DEF OneDescriptorEach, EventsAreCurrent
<1>3. BacklogWaits /\ EventInHand /\ EventsDiffer /\ HangupsAreTrue
  BY DEF BacklogWaits, EventInHand, EventsDiffer, HangupsAreTrue, Working, Idle
<1> QED  BY <1>1, <1>2, <1>3 DEF IInv

(* The connection in hand is open. *)
LEMMA InHand ==
  ASSUME IInv, ev.who # Listener
  PROVE  /\ ev.fd \in DOMAIN conns /\ Here = ev.who /\ Here \in Clients
         /\ status[Here] = "open"
BY DEF IInv, CoreTypes, OneDescriptorEach, EventsAreCurrent, Here

(* A step that neither opens nor closes a connection, nor handles an event.  *)
LEMMA QuietKeeps ==
  ASSUME IInv, UNCHANGED <<status, backlog, conns, batch, ev>>,
         fin' \in [Clients -> BOOLEAN], rst' \in [Clients -> BOOLEAN],
         \A c \in Clients : Departed(c) => Departed(c)',
         ready' \subseteq ready \cup OpenClients,
         pc' = pc \/ (pc \in Working /\ pc' \in Working)
  PROVE  IInv'
<1> USE DEF IInv
<1>1. CoreTypes'
  BY DEF CoreTypes, OpenClients
<1>2. OneDescriptorEach'
  BY DEF OneDescriptorEach, OpenClients
<1>3. EventsAreCurrent' /\ BacklogWaits' /\ EventsDiffer'
  BY DEF EventsAreCurrent, BacklogWaits, EventsDiffer
<1>4. EventInHand'
  BY DEF EventInHand, Working, Idle, NoEvent
<1>5. HangupsAreTrue'
  BY DEF HangupsAreTrue, EventsAreCurrent, CoreTypes
<1> QED  BY <1>1, <1>2, <1>3, <1>4, <1>5

LEMMA ConnectKeeps == ASSUME IInv, NEW c \in Clients, Connect(c) PROVE IInv'
<1> USE DEF IInv, Connect, connVars
<1>1. CoreTypes'
  BY DEF CoreTypes
<1>2. OneDescriptorEach'
  <2>1. {x \in Clients : status'[x] = "open"} = {x \in Clients : status[x] = "open"}
    BY DEF CoreTypes
  <2>2. ready' \cap {x \in Clients : status'[x] # "open"} = {}
    BY DEF CoreTypes, OneDescriptorEach
  <2> QED  BY <2>1, <2>2 DEF OneDescriptorEach
<1>3. BacklogWaits'
  <2>1. \A i \in 1..Len(backlog) : backlog[i] # c /\ status'[backlog[i]] = "queued"
    BY DEF BacklogWaits, CoreTypes
  <2>2. Len(backlog') = Len(backlog) + 1 /\ backlog'[Len(backlog) + 1] = c
    BY DEF CoreTypes
  <2>3. \A i \in 1..Len(backlog) : backlog'[i] = backlog[i]
    BY DEF CoreTypes
  <2>4. status'[c] = "queued" /\ Len(backlog) \in Nat
    BY DEF CoreTypes
  <2>5. \A i \in 1..Len(backlog') : i \in 1..Len(backlog) \/ i = Len(backlog) + 1
    BY <2>2, <2>4
  <2> QED  BY <2>1, <2>2, <2>3, <2>4, <2>5 DEF BacklogWaits
<1>4. EventsAreCurrent' /\ EventInHand' /\ EventsDiffer'
  BY DEF EventsAreCurrent, EventInHand, EventsDiffer, NoEvent
<1>5. HangupsAreTrue'
  BY DEF HangupsAreTrue, Departed
<1> QED  BY <1>1, <1>2, <1>3, <1>4, <1>5

-----------------------------------------------------------------------------
(* Events *)
LEMMA EpollWaitKeeps == ASSUME IInv, EpollWait PROVE IInv'
<1> USE DEF IInv
<1>1. PICK S \in SUBSET ready :
        batch' = {[who |-> Listener, fd |-> 0, mask |-> {"IN"}] : l \in S \cap {Listener}}
                 \cup {[who |-> conns[fd], fd |-> fd, mask |-> Reported(conns[fd])] :
                         fd \in {fd \in DOMAIN conns : conns[fd] \in S /\ Reported(conns[fd]) # {}}}
  BY DEF EpollWait
<1>2. ready' \subseteq ready /\ pc = "wait" /\ pc' = "loop" /\ UNCHANGED <<socketVars, connVars, ev>>
  BY DEF EpollWait
<1>3. ev = NoEvent
  BY <1>2 DEF EventInHand, Working
<1>4. \A e \in batch' : e.who # Listener =>
        e.fd \in DOMAIN conns /\ e = [who |-> conns[e.fd], fd |-> e.fd, mask |-> Reported(conns[e.fd])]
  BY <1>1
<1>5. CoreTypes' /\ OneDescriptorEach'
  BY <1>2 DEF CoreTypes, OneDescriptorEach, socketVars, connVars
<1>6. EventsAreCurrent' /\ EventsDiffer'
  BY <1>2, <1>3, <1>4 DEF EventsAreCurrent, EventsDiffer, NoEvent, connVars
<1>7. BacklogWaits' /\ EventInHand'
  BY <1>2, <1>3 DEF BacklogWaits, EventInHand, socketVars, Working, Idle, NoEvent
<1>8. HangupsAreTrue'
  <2>1. SUFFICES ASSUME NEW e \in batch', e.who # Listener, e.mask \cap Gone # {}
                 PROVE  Departed(e.who)'
    BY <1>2, <1>3 DEF HangupsAreTrue, NoEvent
  <2>2. e.who \in Clients /\ e.mask = Reported(e.who)
    BY <1>4, <2>1 DEF CoreTypes
  <2>3. "HUP" \in e.mask \/ "RDHUP" \in e.mask
    BY <2>1 DEF Gone
  <2>4. Departed(e.who)
    BY <2>2, <2>3 DEF Reported, Level, Departed
  <2> QED  BY <1>2, <2>4 DEF Departed, socketVars
<1> QED  BY <1>5, <1>6, <1>7, <1>8

LEMMA DispatchKeeps == ASSUME IInv, Dispatch PROVE IInv'
<1> USE DEF IInv
<1>1. pc = "loop" /\ ev = NoEvent /\ UNCHANGED <<socketVars, ready, connVars>>
  BY DEF Dispatch, EventInHand, Working
<1>2. CoreTypes' /\ OneDescriptorEach' /\ BacklogWaits'
  BY <1>1 DEF CoreTypes, OneDescriptorEach, BacklogWaits, socketVars, connVars
<1>3. \A c : Departed(c)' <=> Departed(c)
  BY <1>1 DEF Departed, socketVars
<1>4. CASE ev' = ev /\ batch' \subseteq batch /\ pc' \in Idle
  <2>1. EventsAreCurrent' /\ EventsDiffer'
    BY <1>1, <1>4 DEF EventsAreCurrent, EventsDiffer, connVars
  <2>2. EventInHand'
    BY <1>1, <1>4 DEF EventInHand, Idle, Working, NoEvent
  <2>3. HangupsAreTrue'
    BY <1>3, <1>4 DEF HangupsAreTrue
  <2> QED  BY <1>2, <2>1, <2>2, <2>3
<1>5. ASSUME NEW e \in batch, e.who # Listener, ev' = e, batch' = batch \ {e}, pc' \in Working
      PROVE  IInv'
  <2>1. EventsAreCurrent' /\ EventsDiffer'
    BY <1>1, <1>5 DEF EventsAreCurrent, EventsDiffer, connVars
  <2>2. EventInHand'
    BY <1>5 DEF EventInHand
  <2>3. HangupsAreTrue'
    BY <1>3, <1>5 DEF HangupsAreTrue
  <2> QED  BY <1>2, <2>1, <2>2, <2>3
<1>6. \/ ev' = ev /\ batch' \subseteq batch /\ pc' \in Idle
      \/ \E e \in batch : e.who # Listener /\ ev' = e /\ batch' = batch \ {e} /\ pc' \in Working
  BY DEF Dispatch, AfterRead, Idle, Working
<1> QED  BY <1>4, <1>5, <1>6

LEMMA RemoveKeeps == ASSUME IInv, ev.who # Listener, RemoveConnection PROVE IInv'
<1> USE DEF IInv
<1> DEFINE gone == ev.fd
<1>1. gone \in DOMAIN conns /\ Here = conns[gone] /\ Here \in Clients /\ ev.who = Here
  BY InHand DEF Here
<1>2. /\ DOMAIN conns' = DOMAIN conns \ {gone}
      /\ \A fd \in DOMAIN conns \ {gone} : conns'[fd] = conns[fd]
      /\ conns' = [fd \in DOMAIN conns \ {gone} |-> conns[fd]]
  BY DEF RemoveConnection, Restrict
<1>3. /\ ready' = ready \ {Here} /\ ev' = NoEvent /\ batch' = batch /\ pc' \in Idle
      /\ status' = [status EXCEPT ![Here] = "closed"]
      /\ UNCHANGED <<fin, rst, backlog>>
  BY DEF RemoveConnection, NextEvent, Idle
<1>4. status'[Here] = "closed" /\ \A c \in Clients \ {Here} : status'[c] = status[c]
  BY <1>1, <1>3 DEF CoreTypes
<1>5. CoreTypes'
  BY <1>1, <1>2, <1>3 DEF CoreTypes
<1>6. OneDescriptorEach'
  <2>1. \A f, g \in DOMAIN conns' : conns'[f] = conns'[g] => f = g
    BY <1>2 DEF OneDescriptorEach
  <2>2. \A c \in Clients : status'[c] = "open" <=> \E fd \in DOMAIN conns' : conns'[fd] = c
    <3>1. \A c \in Clients : status[c] = "open" <=> \E fd \in DOMAIN conns : conns[fd] = c
      BY DEF OneDescriptorEach
    <3>2. \A fd \in DOMAIN conns : conns[fd] = Here => fd = gone
      BY <1>1 DEF OneDescriptorEach
    <3> QED  BY <1>1, <1>2, <1>4, <3>1, <3>2
  <2>3. {c \in Clients : status'[c] = "open"} = {conns'[fd] : fd \in DOMAIN conns'}
    <3>1. \A fd \in DOMAIN conns' : conns'[fd] \in Clients
      BY <1>5 DEF CoreTypes
    <3> QED  BY <2>2, <3>1
  <2>4. ready' \cap {c \in Clients : status'[c] # "open"} = {}
    BY <1>3, <1>4 DEF OneDescriptorEach
  <2> QED  BY <2>1, <2>3, <2>4 DEF OneDescriptorEach
<1>7. EventsAreCurrent' /\ EventsDiffer'
  <2>1. \A e \in batch : e.who # Listener => e.fd # gone
    BY DEF EventsDiffer
  <2> QED  BY <2>1, <1>2, <1>3 DEF EventsAreCurrent, EventsDiffer, NoEvent
<1>8. BacklogWaits'
  <2>1. \A i \in 1..Len(backlog) : backlog[i] \in Clients /\ backlog[i] # Here
    BY InHand DEF BacklogWaits, CoreTypes
  <2> QED  BY <2>1, <1>3, <1>4 DEF BacklogWaits
<1>9. EventInHand'
  BY <1>3 DEF EventInHand, NoEvent, Idle, Working
<1>10. HangupsAreTrue'
  BY <1>3 DEF HangupsAreTrue, Departed, NoEvent
<1> QED  BY <1>5, <1>6, <1>7, <1>8, <1>9, <1>10

LEMMA FinishKeeps == ASSUME IInv, Finish PROVE IInv'
<1>1. pc \in Working /\ ev.who # Listener
  BY DEF IInv, EventInHand, Finish, Working
<1>2. CASE RemoveConnection
  BY <1>1, <1>2, RemoveKeeps
<1>3. CASE pc' = NextEvent /\ ev' = NoEvent /\ UNCHANGED <<socketVars, ready, connVars, batch>>
  <2> USE <1>3 DEF IInv
  <2>1. CoreTypes' /\ OneDescriptorEach' /\ BacklogWaits'
    BY DEF CoreTypes, OneDescriptorEach, BacklogWaits, socketVars, connVars
  <2>2. EventsAreCurrent' /\ EventsDiffer'
    BY DEF EventsAreCurrent, EventsDiffer, NoEvent, connVars
  <2>3. EventInHand'
    BY DEF EventInHand, NoEvent, NextEvent, Idle, Working
  <2>4. HangupsAreTrue'
    BY DEF HangupsAreTrue, Departed, NoEvent, socketVars
  <2> QED  BY <2>1, <2>2, <2>3, <2>4
<1> QED  BY <1>2, <1>3 DEF Finish

-----------------------------------------------------------------------------
(* The lowest free descriptor exists: the natural numbers are well-founded.  *)
LEMMA LowestFree ==
  ASSUME FreeFds # {}
  PROVE  LET fd == CHOOSE fd \in FreeFds : \A x \in FreeFds : fd <= x IN fd \in FreeFds
<1>1. FreeFds \subseteq Nat
  BY DEF FreeFds
<1>2. PICK fd \in FreeFds : \A x \in FreeFds : ~(<<x, fd>> \in OpToRel(<, Nat))
  BY <1>1, NatLessThanWellFounded, WFMin
<1>3. \A x \in Nat : x < fd => <<x, fd>> \in OpToRel(<, Nat)
  BY <1>1 DEF OpToRel
<1>4. \A x \in FreeFds : ~(x < fd)
  BY <1>1, <1>2, <1>3, Zenon
<1>5. \A x \in FreeFds : fd <= x
  BY <1>1, <1>4
<1> QED  BY <1>5

LEMMA AcceptKeeps == ASSUME IInv, Accept PROVE IInv'
<1> USE DEF IInv
<1> DEFINE c == Head(backlog)
           new == CHOOSE fd \in FreeFds : \A x \in FreeFds : fd <= x
<1>1. new \in Fds /\ new \notin DOMAIN conns
  BY LowestFree DEF Accept, FreeFds
<1> HIDE DEF new
<1>2. c \in Clients /\ c = backlog[1] /\ 1 \in 1..Len(backlog) /\ status[c] = "queued"
  BY DEF Accept, CoreTypes, BacklogWaits
<1>3. /\ conns' = [x \in DOMAIN conns \cup {new} |-> IF x = new THEN c ELSE conns[x]]
      /\ status' = [status EXCEPT ![c] = "open"]
      /\ Rearm(c, FALSE) /\ backlog' = Tail(backlog)
      /\ pc = "accept" /\ UNCHANGED <<fin, rst, pc, batch, ev>>
  BY DEF Accept, new
<1>4. status'[c] = "open" /\ \A x \in Clients \ {c} : status'[x] = status[x]
  BY <1>2, <1>3 DEF CoreTypes
<1>5. /\ DOMAIN conns' = DOMAIN conns \cup {new} /\ conns'[new] = c
      /\ \A fd \in DOMAIN conns : conns'[fd] = conns[fd]
  BY <1>1, <1>3
<1>6. ready' \subseteq ready \cup {c}
  BY <1>3 DEF Rearm
<1> HIDE DEF c
<1>7. CoreTypes'
  <2>1. backlog' \in Seq(Clients)
    BY <1>2, <1>3 DEF CoreTypes
  <2>2. status' \in [Clients -> {"new", "queued", "open", "closed"}]
    BY <1>2, <1>3 DEF CoreTypes
  <2>3. conns' \in [DOMAIN conns' -> Clients] /\ DOMAIN conns' \subseteq Fds
    BY <1>1, <1>2, <1>3 DEF CoreTypes
  <2> QED  BY <1>2, <1>3, <1>6, <2>1, <2>2, <2>3 DEF CoreTypes
<1>8. OneDescriptorEach'
  <2>1. \A fd \in DOMAIN conns : conns[fd] \in Clients /\ status[conns[fd]] = "open" /\ conns[fd] # c
    BY <1>2 DEF OneDescriptorEach, CoreTypes
  <2>2. \A f, g \in DOMAIN conns' : conns'[f] = conns'[g] => f = g
    BY <1>5, <2>1 DEF OneDescriptorEach
  <2>3. \A x \in Clients : status'[x] = "open" <=> \E fd \in DOMAIN conns' : conns'[fd] = x
    <3>1. \A x \in Clients : status[x] = "open" <=> \E fd \in DOMAIN conns : conns[fd] = x
      BY DEF OneDescriptorEach
    <3> QED  BY <1>2, <1>4, <1>5, <2>1, <3>1
  <2>4. {x \in Clients : status'[x] = "open"} = {conns'[fd] : fd \in DOMAIN conns'}
    <3>1. \A fd \in DOMAIN conns' : conns'[fd] \in Clients
      BY <1>7 DEF CoreTypes
    <3> QED  BY <2>3, <3>1
  <2>5. ready' \cap {x \in Clients : status'[x] # "open"} = {}
    BY <1>4, <1>6 DEF OneDescriptorEach
  <2> QED  BY <2>2, <2>4, <2>5 DEF OneDescriptorEach
<1>9. EventsAreCurrent' /\ EventsDiffer'
  BY <1>3, <1>5 DEF EventsAreCurrent, EventsDiffer
<1>10. BacklogWaits'
  <2>1. /\ Len(backlog') = Len(backlog) - 1 /\ Len(backlog) \in Nat
        /\ \A i \in 1..Len(backlog') : backlog'[i] = backlog[i + 1]
    BY <1>2, <1>3 DEF CoreTypes
  <2>2. \A i \in 1..Len(backlog') : i + 1 \in 1..Len(backlog) /\ i + 1 # 1
    BY <2>1
  <2>3. \A i \in 1..Len(backlog') : backlog'[i] \in Clients /\ backlog'[i] # c
    BY <1>2, <2>1, <2>2 DEF BacklogWaits, CoreTypes
  <2>4. \A i \in 1..Len(backlog') : status'[backlog'[i]] = "queued"
    BY <1>4, <2>1, <2>2, <2>3 DEF BacklogWaits
  <2>5. \A i, j \in 1..Len(backlog') : backlog'[i] = backlog'[j] => i = j
    BY <2>1, <2>2 DEF BacklogWaits
  <2> QED  BY <2>4, <2>5 DEF BacklogWaits
<1>11. EventInHand' /\ HangupsAreTrue'
  BY <1>3 DEF EventInHand, HangupsAreTrue, Departed, NoEvent
<1> QED  BY <1>7, <1>8, <1>9, <1>10, <1>11

-----------------------------------------------------------------------------
(* The steps that only move bytes and arm or disarm EPOLLOUT.                *)
LEMMA ClientsKeep ==
  ASSUME IInv, NEW c \in Clients, Send(c) \/ Shutdown(c) \/ Reset(c) \/ Receive(c)
  PROVE  IInv'
<1>1. UNCHANGED <<status, backlog, conns, batch, ev, pc>>
  BY DEF Send, Shutdown, Reset, Receive, connVars
<1>2. ready' \subseteq ready \cup OpenClients
  BY DEF Send, Shutdown, Reset, Receive, Wake, OpenClients
<1>3. /\ fin' \in [Clients -> BOOLEAN] /\ rst' \in [Clients -> BOOLEAN]
      /\ \A x \in Clients : (fin[x] => fin'[x]) /\ (rst[x] => rst'[x])
  BY DEF IInv, CoreTypes, Send, Shutdown, Reset, Receive
<1> QED  BY <1>1, <1>2, <1>3, QuietKeeps DEF Departed

Transfer ==
  \/ AcceptFails \/ ReadSome \/ ReadAgain \/ Execute \/ AwaitMore \/ Resynchronise
  \/ WriteSome \/ WriteAgain \/ Arm \/ WriteDone

LEMMA TransfersKeep == ASSUME IInv, Transfer PROVE IInv'
<1> USE DEF Transfer
<1>1. UNCHANGED <<status, fin, rst, backlog, conns, batch, ev>>
  BY DEF AcceptFails, ReadSome, ReadAgain, Execute, AwaitMore, Resynchronise, WriteSome, WriteAgain, Arm, WriteDone,
         vars, socketVars, connVars
<1>2. pc' = pc \/ (pc \in Working /\ pc' \in Working)
  BY DEF AcceptFails, ReadSome, ReadAgain, Execute, AwaitMore, Resynchronise, WriteSome, WriteAgain, Arm, WriteDone,
         vars, WriteReturns, AfterRead, AfterParsing, Writing, Working
<1>3. ready' \subseteq ready \cup OpenClients
  <2>1. ready' = ready \/ (pc \in Working /\ ready' \subseteq ready \cup {Here})
    BY DEF AcceptFails, ReadSome, ReadAgain, Execute, AwaitMore, Resynchronise, WriteSome, WriteAgain, Arm, WriteDone,
           vars, Rearm, Writing, Working
  <2>2. pc \in Working => Here \in OpenClients
    BY InHand DEF IInv, EventInHand, OpenClients
  <2> QED  BY <2>1, <2>2
<1> QED  BY <1>1, <1>2, <1>3, QuietKeeps DEF IInv, CoreTypes, Departed

LEMMA AcceptAgainKeeps == ASSUME IInv, AcceptAgain PROVE IInv'
<1> USE DEF IInv, AcceptAgain
<1>1. CoreTypes' /\ OneDescriptorEach' /\ BacklogWaits'
  BY DEF CoreTypes, OneDescriptorEach, BacklogWaits, socketVars, connVars
<1>2. EventsAreCurrent' /\ EventsDiffer'
  BY DEF EventsAreCurrent, EventsDiffer, connVars
<1>3. EventInHand'
  BY DEF EventInHand, NextEvent, Idle, Working
<1>4. HangupsAreTrue'
  BY DEF HangupsAreTrue, Departed, socketVars
<1> QED  BY <1>1, <1>2, <1>3, <1>4

(* A handler closes a connection only while it handles its event.            *)
LEMMA ReadEndsOrWriteFails ==
  ASSUME IInv, ReadEnds \/ WriteFails
  PROVE  RemoveConnection /\ ev.who # Listener /\ Departed(Here)
BY DEF IInv, EventInHand, ReadEnds, WriteFails, Writing, Working, Departed

LEMMA NextKeepsIInv == IInv /\ [Next]_vars => IInv'
<1> SUFFICES ASSUME IInv, [Next]_vars PROVE IInv'
  OBVIOUS
<1>1. CASE EpollWait  BY <1>1, EpollWaitKeeps
<1>2. CASE Dispatch   BY <1>2, DispatchKeeps
<1>3. CASE Finish     BY <1>3, FinishKeeps
<1>4. CASE Accept     BY <1>4, AcceptKeeps
<1>5. CASE AcceptAgain  BY <1>5, AcceptAgainKeeps
<1>6. CASE ReadEnds \/ WriteFails  BY <1>6, ReadEndsOrWriteFails, RemoveKeeps
<1>7. CASE Transfer
  BY <1>7, TransfersKeep
<1>8. CASE ClientStep
  <2>1. PICK c \in Clients : Connect(c) \/ Send(c) \/ Shutdown(c) \/ Reset(c) \/ Receive(c)
    BY <1>8 DEF ClientStep
  <2> QED  BY <2>1, ConnectKeeps, ClientsKeep
<1>9. CASE UNCHANGED vars
  BY <1>9, QuietKeeps DEF vars, socketVars, connVars, IInv, CoreTypes, Departed
<1> QED  BY <1>1, <1>2, <1>3, <1>4, <1>5, <1>6, <1>7, <1>8, <1>9
  DEF Next, ServerStep, Transfer

LEMMA IInvAlways == Spec => []IInv
BY InitIInv, NextKeepsIInv, PTL DEF Spec

(* Every open connection has one descriptor of its own, and no event of a    *)
(* batch is handled for a connection other than the one it was raised for,   *)
(* however many connections the batch closes and opens meanwhile.            *)
THEOREM EventsMeetTheirConnections == Spec => [](OneDescriptorEach /\ EventsAreCurrent)
<1>1. IInv => OneDescriptorEach /\ EventsAreCurrent
  BY DEF IInv
<1> QED  BY <1>1, IInvAlways, PTL

(* A connection is closed by removeConnection only, and that is reached by a *)
(* hangup that was reported, by end of stream, or by an error.               *)
LEMMA OnlyRemoveCloses ==
  ASSUME IInv, [Next]_vars, NEW c \in Clients, status[c] = "open", status'[c] = "closed"
  PROVE  fin[c] \/ rst[c]
<1>1. ASSUME RemoveConnection, ev.who # Listener PROVE c = Here
  BY <1>1, InHand DEF RemoveConnection, IInv, CoreTypes
<1>2. CASE Finish
  <2>1. ev.who # Listener
    BY <1>2 DEF Finish, IInv, EventInHand, Working
  <2>2. CASE ev.mask \cap Gone # {} /\ RemoveConnection
    <3>1. c = ev.who
      BY <1>1, <2>1, <2>2, InHand
    <3> QED  BY <2>1, <2>2, <3>1 DEF IInv, HangupsAreTrue, Departed
  <2>3. CASE UNCHANGED socketVars
    BY <2>3 DEF socketVars
  <2> QED  BY <1>2, <2>2, <2>3 DEF Finish, Gone
<1>3. CASE ReadEnds \/ WriteFails
  BY <1>1, <1>3, ReadEndsOrWriteFails DEF Departed
<1>4. CASE Accept
  <2>1. Head(backlog) \in Clients /\ status'[Head(backlog)] = "open"
    BY <1>4 DEF Accept, IInv, CoreTypes
  <2>2. c # Head(backlog) => status'[c] = status[c]
    BY <1>4 DEF Accept, IInv, CoreTypes
  <2> QED  BY <2>1, <2>2
<1>5. CASE ClientStep
  <2>1. \A x \in Clients : Connect(x) => status'[c] # "closed"
    BY DEF Connect, IInv, CoreTypes
  <2>2. \A x \in Clients : Send(x) \/ Shutdown(x) \/ Reset(x) \/ Receive(x) => status' = status
    BY DEF Send, Shutdown, Reset, Receive
  <2> QED  BY <1>5, <2>1, <2>2 DEF ClientStep
<1>6. CASE EpollWait \/ Dispatch \/ AcceptAgain \/ Transfer \/ UNCHANGED vars
  <2>1. status' = status
    BY <1>6 DEF EpollWait, Dispatch, AcceptAgain, Transfer, AcceptFails, ReadSome, ReadAgain,
                Execute, AwaitMore, Resynchronise, WriteSome, WriteAgain, Arm, WriteDone, vars, socketVars
  <2> QED  BY <2>1
<1> QED  BY <1>2, <1>3, <1>4, <1>5, <1>6 DEF Next, ServerStep, Transfer

(* run() closes no connection whose client has neither shut down nor been    *)
(* reset, although it decides by events that may be old when their turn      *)
(* comes.                                                                    *)
THEOREM HealthyConnectionsAreKept == Spec => KeepsHealthyConnections
<1>1. IInv /\ [Next]_vars =>
        [\A c \in Clients : status[c] = "open" /\ status'[c] = "closed" => fin[c] \/ rst[c]]_vars
  BY OnlyRemoveCloses
<1> QED  BY <1>1, IInvAlways, PTL DEF Spec, KeepsHealthyConnections

-----------------------------------------------------------------------------
(* Wakeups.  Between two events of a connection its buffers are at rest, and *)
(* what epoll would report of it is on the ready list or in the batch; while *)
(* its event is handled the rest of the handler is still to come, and what   *)
(* that will not look at again is at rest already.                           *)
Balanced(c) == writeBuf[c] = <<>> <=> ~armed[c]
Heard(c) == c \in ready \/ (inq[c] = <<>> /\ ~fin[c] /\ ~rst[c])
Pending(c) == UNION {e.mask : e \in {e \in batch : e.who = c}}

Waiting(c) == Incomplete(readBuf[c]) /\ Balanced(c) /\ (c \in ready \/ Reported(c) \subseteq Pending(c))

Handled(c) ==
  /\ pc = "read" => Balanced(c)
  /\ pc = "parse" => Heard(c) /\ (writeBuf[c] = <<>> => ~armed[c])
  /\ pc \in Working \ {"read", "parse"} => Incomplete(readBuf[c]) /\ Heard(c)
  /\ pc \in {"reply arm", "write arm"} => writeBuf[c] # <<>>
  /\ pc = "finish" => Balanced(c) /\ (c \in ready \/ Reported(c) = {})

Attended(c) == (ev.who # c => Waiting(c)) /\ (ev.who = c => Handled(c))

Fresh(c) == readBuf[c] = <<>> /\ writeBuf[c] = <<>> /\ ~armed[c]

BufferTypes ==
  /\ armed \in [Clients -> BOOLEAN]
  /\ DOMAIN inq = Clients /\ DOMAIN outq = Clients
  /\ DOMAIN readBuf = Clients /\ DOMAIN writeBuf = Clients

BacklogAnnounced ==
  backlog # <<>> => Listener \in ready \/ pc = "accept" \/ \E e \in batch : e.who = Listener

NothingForgotten ==
  /\ BufferTypes /\ BacklogAnnounced
  /\ pc = "wait" => batch = {}
  /\ \A c \in Clients : IF status[c] = "open" THEN Attended(c) ELSE Fresh(c)

Local(c) == <<inq[c], fin[c], rst[c], outq[c], readBuf[c], writeBuf[c], armed[c]>>

LEMMA InitNothingForgotten == Init => NothingForgotten
BY DEF Init, NothingForgotten, BufferTypes, BacklogAnnounced, Fresh

LEMMA WakeupIsKept == IInv /\ NothingForgotten => NoLostWakeup
<1> SUFFICES ASSUME IInv, NothingForgotten, pc = "wait"
             PROVE  /\ backlog # <<>> => Listener \in ready
                    /\ \A c \in Clients : status[c] = "open" => c \in ready \/ Silent(c)
  BY DEF NoLostWakeup
<1>1. batch = {} /\ ev = NoEvent
  BY DEF NothingForgotten, IInv, EventInHand, Working
<1>2. backlog # <<>> => Listener \in ready
  BY <1>1 DEF NothingForgotten, BacklogAnnounced
<1>3. ASSUME NEW c \in Clients, status[c] = "open", c \notin ready
      PROVE  Silent(c)
  <2>1. Waiting(c)
    BY <1>1, <1>3 DEF NothingForgotten, Attended, NoEvent
  <2>2. Pending(c) = {}
    BY <1>1 DEF Pending
  <2>3. Incomplete(readBuf[c]) /\ Balanced(c) /\ Reported(c) = {}
    BY <1>3, <2>1, <2>2 DEF Waiting
  <2>4. inq[c] = <<>> /\ ~fin[c] /\ ~rst[c]
    BY <2>3 DEF Reported, Level, Interest
  <2>5. armed[c] => Full(c)
    <3>1. CASE armed[c] /\ ~Full(c)
      <4>1. "OUT" \in Level(c) /\ "OUT" \in Interest(armed[c])
        BY <3>1 DEF Level, Interest
      <4> QED  BY <4>1, <2>3 DEF Reported
    <3> QED  BY <3>1
  <2> QED  BY <2>3, <2>4, <2>5 DEF Silent, Balanced
<1> QED  BY <1>2, <1>3

(* A connection that the step does not touch.                                *)
LEMMA OthersAttended ==
  ASSUME NEW c \in Clients, Attended(c), ev.who # c, ev'.who # c,
         UNCHANGED Local(c), c \in ready => c \in ready',
         \A e \in batch : e.who = c => e \in batch'
  PROVE  Attended(c)'
<1>1. Waiting(c) /\ Incomplete(readBuf'[c]) /\ Balanced(c)' /\ Reported(c)' = Reported(c)
  BY DEF Attended, Waiting, Incomplete, Balanced, Reported, Level, Full, Local
<1>2. Pending(c) \subseteq Pending(c)'
  BY DEF Pending
<1> QED  BY <1>1, <1>2 DEF Waiting, Attended

(* Clients and kernel move one socket while the thread stands still.         *)
LEMMA StillAttended ==
  ASSUME NEW c \in Clients, Attended(c),
         UNCHANGED <<readBuf[c], writeBuf[c], armed[c], pc, ev, batch>>,
         c \in ready => c \in ready',
         \/ c \in ready'
         \/ Reported(c)' \subseteq Reported(c) /\ UNCHANGED <<inq[c], fin[c], rst[c]>>
  PROVE  Attended(c)'
<1>1. (Incomplete(readBuf[c]) => Incomplete(readBuf'[c])) /\ (Balanced(c) => Balanced(c)') /\ (Heard(c) => Heard(c)')
  BY DEF Incomplete, Balanced, Heard
<1>2. Pending(c)' = Pending(c)
  BY DEF Pending
<1>3. Waiting(c) => Waiting(c)'
  BY <1>1, <1>2 DEF Waiting
<1>4. Handled(c) => Handled(c)'
  BY <1>1 DEF Handled
<1> QED  BY <1>3, <1>4 DEF Attended

-----------------------------------------------------------------------------
LEMMA ClientsForgetNothing ==
  ASSUME NothingForgotten, IInv, NEW c \in Clients,
         Send(c) \/ Shutdown(c) \/ Reset(c) \/ Receive(c)
  PROVE  NothingForgotten'
<1>1. UNCHANGED <<status, backlog, connVars, batch, ev, pc>> /\ ready \subseteq ready'
  BY DEF Send, Shutdown, Reset, Receive, Wake
<1>2. BufferTypes'
  BY <1>1 DEF Send, Shutdown, Reset, Receive, NothingForgotten, BufferTypes, connVars
<1>3. BacklogAnnounced' /\ (pc' = "wait" => batch' = {})
  BY <1>1 DEF NothingForgotten, BacklogAnnounced
<1>4. \A x \in Clients \ {c} : UNCHANGED Local(x)
  BY <1>1 DEF Send, Shutdown, Reset, Receive, NothingForgotten, BufferTypes, IInv, CoreTypes,
              Local, connVars
<1>5. ASSUME NEW x \in Clients, status[x] = "open" PROVE Attended(x)'
  <2>1. Attended(x)
    BY <1>5 DEF NothingForgotten
  <2>2. CASE x # c
    <3>1. Reported(x)' = Reported(x) /\ UNCHANGED <<inq[x], fin[x], rst[x], readBuf[x], writeBuf[x], armed[x]>>
      BY <2>2, <1>4 DEF Local, Reported, Level, Full
    <3> QED  BY <3>1, <2>1, <1>1, StillAttended
  <2>3. CASE x = c /\ (Send(c) \/ Shutdown(c) \/ Reset(c))
    <3>1. x \in ready'
      BY <1>5, <2>3 DEF Send, Shutdown, Reset, Wake
    <3> QED  BY <3>1, <2>1, <1>1, StillAttended DEF connVars
  <2>4. CASE x = c /\ Receive(c)
    <3>1. UNCHANGED <<inq, fin, rst>>
      BY <2>4 DEF Receive
    <3>2. x \in ready' \/ ~armed[x] \/ ~Full(x)
      BY <1>5, <2>4 DEF Receive, Wake
    <3>3. ~armed[x] \/ ~Full(x) => Reported(x)' \subseteq Reported(x)
      BY <1>1, <3>1 DEF Reported, Level, Interest, connVars
    <3> QED  BY <3>1, <3>2, <3>3, <2>1, <1>1, StillAttended DEF connVars
  <2> QED  BY <2>2, <2>3, <2>4
<1>6. \A x \in Clients : Fresh(x) => Fresh(x)'
  BY <1>1 DEF Fresh, connVars
<1> QED  BY <1>1, <1>2, <1>3, <1>5, <1>6 DEF NothingForgotten

LEMMA ConnectForgetsNothing ==
  ASSUME NothingForgotten, IInv, NEW c \in Clients, Connect(c)
  PROVE  NothingForgotten'
<1>1. UNCHANGED <<inq, fin, rst, outq, connVars, batch, ev, pc>> /\ ready' = ready \cup {Listener}
  BY DEF Connect
<1>2. BufferTypes' /\ BacklogAnnounced' /\ (pc' = "wait" => batch' = {})
  BY <1>1 DEF NothingForgotten, BufferTypes, BacklogAnnounced, connVars
<1>3. \A x \in Clients : status'[x] = "open" <=> status[x] = "open"
  BY DEF Connect, IInv, CoreTypes
<1>4. ASSUME NEW x \in Clients, Attended(x) PROVE Attended(x)'
  <2>1. Reported(x)' = Reported(x)
    BY <1>1 DEF Reported, Level, Full, connVars
  <2> QED  BY <2>1, <1>1, <1>4, StillAttended DEF connVars
<1>5. \A x \in Clients : Fresh(x) => Fresh(x)'
  BY <1>1 DEF Fresh, connVars
<1> QED  BY <1>2, <1>3, <1>4, <1>5 DEF NothingForgotten

LEMMA EpollWaitForgetsNothing ==
  ASSUME NothingForgotten, IInv, EpollWait
  PROVE  NothingForgotten'
<1>1. PICK S \in SUBSET ready :
        /\ ready' = ready \ S
        /\ batch' = {[who |-> Listener, fd |-> 0, mask |-> {"IN"}] : l \in S \cap {Listener}}
                    \cup {[who |-> conns[fd], fd |-> fd, mask |-> Reported(conns[fd])] :
                            fd \in {fd \in DOMAIN conns : conns[fd] \in S /\ Reported(conns[fd]) # {}}}
  BY DEF EpollWait
<1>2. UNCHANGED <<socketVars, connVars, ev>> /\ pc = "wait" /\ pc' = "loop" /\ ev = NoEvent /\ batch = {}
  BY DEF EpollWait, IInv, EventInHand, Working, NothingForgotten
<1>3. BufferTypes'
  BY <1>2 DEF NothingForgotten, BufferTypes, socketVars, connVars
<1>4. BacklogAnnounced'
  <2>1. backlog' # <<>> => Listener \in ready
    BY <1>2 DEF NothingForgotten, BacklogAnnounced, socketVars
  <2>2. Listener \in S => [who |-> Listener, fd |-> 0, mask |-> {"IN"}] \in batch'
    BY <1>1
  <2>3. Listener \in S => \E e \in batch' : e.who = Listener
    BY <2>2
  <2> QED  BY <1>1, <2>1, <2>3 DEF BacklogAnnounced
<1>5. ASSUME NEW c \in Clients, status[c] = "open" PROVE Attended(c)'
  <2>1. Waiting(c) /\ Pending(c) = {}
    BY <1>2, <1>5 DEF NothingForgotten, Attended, NoEvent, Pending
  <2>2. Incomplete(readBuf'[c]) /\ Balanced(c)' /\ Reported(c)' = Reported(c)
    BY <1>2, <2>1 DEF Waiting, Incomplete, Balanced, Reported, Level, Full, socketVars, connVars
  <2>3. CASE c \notin S
    BY <1>1, <1>2, <2>1, <2>2, <2>3 DEF Waiting, Attended, NoEvent
  <2>4. CASE c \in S /\ Reported(c) = {}
    BY <1>2, <2>2, <2>4 DEF Waiting, Attended, NoEvent
  <2>5. CASE c \in S /\ Reported(c) # {}
    <3>1. PICK fd \in DOMAIN conns : conns[fd] = c
      BY <1>5 DEF IInv, OneDescriptorEach
    <3> DEFINE e == [who |-> conns[fd], fd |-> fd, mask |-> Reported(conns[fd])]
    <3>2. e \in batch'
      BY <1>1, <2>5, <3>1
    <3>3. e.who = c /\ e.mask = Reported(c)
      BY <3>1
    <3> HIDE DEF e
    <3>4. Reported(c) \subseteq Pending(c)'
      BY <3>2, <3>3 DEF Pending
    <3> QED  BY <1>2, <2>2, <3>4 DEF Waiting, Attended, NoEvent
  <2> QED  BY <2>3, <2>4, <2>5
<1>6. \A c \in Clients : Fresh(c) => Fresh(c)'
  BY <1>2 DEF Fresh, connVars
<1> QED  BY <1>2, <1>3, <1>4, <1>5, <1>6 DEF NothingForgotten, socketVars

LEMMA DispatchForgetsNothing ==
  ASSUME NothingForgotten, IInv, Dispatch
  PROVE  NothingForgotten'
<1>1. UNCHANGED <<socketVars, ready, connVars>> /\ pc = "loop" /\ ev = NoEvent
  BY DEF Dispatch, IInv, EventInHand, Working
<1>2. BufferTypes'
  BY <1>1 DEF NothingForgotten, BufferTypes, socketVars, connVars
<1>3. \A c \in Clients : (Fresh(c) => Fresh(c)') /\ UNCHANGED Local(c)
  BY <1>1 DEF Fresh, Local, socketVars, connVars
<1>4. \A c \in Clients : status[c] = "open" => Attended(c) /\ Waiting(c)
  BY <1>1 DEF NothingForgotten, Attended, NoEvent
<1>5. CASE batch = {} /\ pc' = "wait" /\ UNCHANGED <<batch, ev>>
  <2>1. \A c \in Clients : status[c] = "open" => Attended(c)'
    BY <1>1, <1>3, <1>4, <1>5, OthersAttended DEF NoEvent
  <2>2. BacklogAnnounced'
    BY <1>1, <1>5 DEF NothingForgotten, BacklogAnnounced, socketVars
  <2> QED  BY <1>1, <1>2, <1>3, <1>5, <2>1, <2>2 DEF NothingForgotten, socketVars
<1>6. ASSUME NEW e \in batch, batch' = batch \ {e}, e.who = Listener, pc' = "accept", UNCHANGED ev
      PROVE  NothingForgotten'
  <2>1. \A c \in Clients : status[c] = "open" => Attended(c)'
    BY <1>1, <1>3, <1>4, <1>6, OthersAttended DEF NoEvent
  <2>2. BacklogAnnounced'
    BY <1>6 DEF BacklogAnnounced
  <2> QED  BY <1>1, <1>2, <1>3, <1>6, <2>1, <2>2 DEF NothingForgotten, socketVars
<1>7. ASSUME NEW e \in batch, batch' = batch \ {e}, e.who # Listener, ev' = e,
             pc' = IF "IN" \in e.mask THEN "read" ELSE AfterRead(e)
      PROVE  NothingForgotten'
  <2>1. e.fd \in DOMAIN conns /\ conns[e.fd] = e.who /\ e.who \in Clients
    BY <1>7 DEF IInv, EventsAreCurrent, CoreTypes
  <2>2. \A f \in batch : f.who = e.who => f = e
    BY <1>7, <2>1 DEF IInv, EventsAreCurrent, OneDescriptorEach, EventsDiffer
  <2>3. \A c \in Clients \ {e.who} : status[c] = "open" => Attended(c)'
    BY <1>1, <1>3, <1>4, <1>7, OthersAttended DEF NoEvent
  <2>4. ASSUME status[e.who] = "open" PROVE Attended(e.who)'
    <3> DEFINE c == e.who
    <3>1. Waiting(c) /\ Pending(c) \subseteq e.mask
      BY <1>4, <2>1, <2>2, <2>4 DEF Pending
    <3>2. Incomplete(readBuf'[c]) /\ Balanced(c)' /\ Reported(c)' = Reported(c)
      BY <1>1, <3>1 DEF Waiting, Incomplete, Balanced, Reported, Level, Full, socketVars, connVars
    <3>3. c \in ready' \/ Reported(c)' \subseteq e.mask
      BY <1>1, <3>1, <3>2 DEF Waiting
    <3>4. "IN" \notin e.mask => Heard(c)'
      BY <3>3 DEF Heard, Reported, Level, Interest
    <3>5. "IN" \notin e.mask /\ "OUT" \notin e.mask => c \in ready' \/ Reported(c)' = {}
      BY <3>3 DEF Reported, Level, Interest
    <3> QED  BY <1>7, <3>2, <3>4, <3>5 DEF Attended, Handled, AfterRead, Working
  <2>5. BacklogAnnounced'
    BY <1>1, <1>7 DEF NothingForgotten, BacklogAnnounced, socketVars
  <2>6. pc' # "wait"
    BY <1>7 DEF AfterRead
  <2> QED  BY <1>1, <1>2, <1>3, <2>3, <2>4, <2>5, <2>6 DEF NothingForgotten, socketVars
<1>8. \/ batch = {} /\ pc' = "wait" /\ UNCHANGED <<batch, ev>>
      \/ \E e \in batch :
           /\ batch' = batch \ {e}
           /\ \/ e.who = Listener /\ pc' = "accept" /\ UNCHANGED ev
              \/ /\ e.who # Listener /\ ev' = e
                 /\ pc' = IF "IN" \in e.mask THEN "read" ELSE AfterRead(e)
  BY DEF Dispatch, IInv, EventsAreCurrent
<1> QED  BY <1>5, <1>6, <1>7, <1>8

(* The thread leaves the connection in hand, removed or at rest.             *)
LEMMA LeavingForgetsNothing ==
  ASSUME NothingForgotten, IInv, NEW h \in Clients, ev.who = h,
         ev' = NoEvent, pc' = NextEvent, UNCHANGED <<backlog, batch>>,
         \A c \in Clients \ {h} : status'[c] = status[c] /\ UNCHANGED Local(c),
         \A c \in (Clients \cup {Listener}) \ {h} : c \in ready => c \in ready',
         BufferTypes',
         IF status'[h] = "open" THEN Waiting(h)' ELSE Fresh(h)'
  PROVE  NothingForgotten'
<1>1. pc \in Working
  BY DEF IInv, EventInHand, NoEvent
<1>2. BacklogAnnounced' /\ (pc' = "wait" => batch' = {})
  BY <1>1 DEF NothingForgotten, BacklogAnnounced, NextEvent, Working
<1>3. \A c \in Clients \ {h} : status[c] = "open" => Attended(c)'
  BY OthersAttended DEF NothingForgotten, NoEvent
<1>4. \A c \in Clients \ {h} : Fresh(c) => Fresh(c)'
  BY DEF Fresh, Local
<1>5. status'[h] = "open" => Attended(h)'
  BY DEF Attended, NoEvent
<1> QED  BY <1>2, <1>3, <1>4, <1>5 DEF NothingForgotten

LEMMA RemoveForgetsNothing ==
  ASSUME NothingForgotten, IInv, RemoveConnection, ev.who # Listener
  PROVE  NothingForgotten'
<1>1. PICK h \in Clients : h = Here /\ ev.who = h
  BY InHand
<1>2. /\ UNCHANGED <<inq, outq, fin, rst, backlog, batch>> /\ ev' = NoEvent /\ pc' = NextEvent
      /\ status' = [status EXCEPT ![h] = "closed"] /\ ready' = ready \ {h}
      /\ readBuf' = [readBuf EXCEPT ![h] = <<>>] /\ writeBuf' = [writeBuf EXCEPT ![h] = <<>>]
      /\ armed' = [armed EXCEPT ![h] = FALSE]
  BY <1>1 DEF RemoveConnection
<1>3. BufferTypes'
  BY <1>2 DEF NothingForgotten, BufferTypes
<1>4. Fresh(h)' /\ status'[h] = "closed"
  BY <1>2 DEF Fresh, NothingForgotten, BufferTypes, IInv, CoreTypes
<1>5. \A c \in Clients \ {h} : status'[c] = status[c] /\ UNCHANGED Local(c)
  BY <1>2 DEF Local, NothingForgotten, BufferTypes, IInv, CoreTypes
<1> QED  BY <1>1, <1>2, <1>3, <1>4, <1>5, LeavingForgetsNothing

LEMMA FinishForgetsNothing ==
  ASSUME NothingForgotten, IInv, Finish
  PROVE  NothingForgotten'
<1>1. ev.who # Listener /\ pc = "finish"
  BY DEF Finish, IInv, EventInHand, Working
<1>2. CASE RemoveConnection
  BY <1>1, <1>2, RemoveForgetsNothing
<1>3. CASE pc' = NextEvent /\ ev' = NoEvent /\ UNCHANGED <<socketVars, ready, connVars, batch>>
  <2>1. PICK h \in Clients : h = ev.who /\ status[h] = "open"
    BY <1>1, InHand
  <2>2. Handled(h)
    BY <2>1 DEF NothingForgotten, Attended
  <2>3. Incomplete(readBuf[h]) /\ Balanced(h) /\ (h \in ready \/ Reported(h) = {})
    BY <1>1, <2>2 DEF Handled, Working
  <2>4. Waiting(h)'
    BY <1>3, <2>3 DEF Waiting, Incomplete, Balanced, Reported, Level, Full, socketVars, connVars
  <2>5. BufferTypes' /\ \A c \in Clients : UNCHANGED Local(c)
    BY <1>3 DEF NothingForgotten, BufferTypes, Local, socketVars, connVars
  <2> QED  BY <1>3, <2>1, <2>4, <2>5, LeavingForgetsNothing DEF socketVars
<1> QED  BY <1>2, <1>3 DEF Finish

-----------------------------------------------------------------------------
LEMMA AcceptForgetsNothing ==
  ASSUME NothingForgotten, IInv, Accept
  PROVE  NothingForgotten'
<1>1. PICK h \in Clients : h = Head(backlog) /\ status[h] = "queued"
  BY DEF Accept, IInv, CoreTypes, BacklogWaits
<1>2. /\ UNCHANGED <<inq, outq, fin, rst, batch, ev, pc, readBuf, writeBuf, armed>> /\ pc = "accept"
      /\ ev = NoEvent /\ status' = [status EXCEPT ![h] = "open"] /\ Rearm(h, FALSE)
  BY <1>1 DEF Accept, IInv, EventInHand, Working
<1>3. BufferTypes' /\ BacklogAnnounced' /\ pc' # "wait"
  BY <1>2 DEF NothingForgotten, BufferTypes, BacklogAnnounced
<1>4. Fresh(h)
  BY <1>1 DEF NothingForgotten
<1>5. Attended(h)'
  <2>1. Incomplete(readBuf'[h]) /\ Balanced(h)' /\ Reported(h)' = Level(h) \cap Interest(FALSE)
    BY <1>2, <1>4 DEF Fresh, Incomplete, Balanced, Reported, Level, Full, NothingForgotten, BufferTypes
  <2>2. h \in ready' \/ Reported(h)' = {}
    BY <1>2, <2>1 DEF Rearm
  <2> QED  BY <1>2, <2>1, <2>2 DEF Attended, Waiting, NoEvent
<1>6. \A c \in Clients : UNCHANGED Local(c) /\ (Fresh(c) => Fresh(c)')
  BY <1>2 DEF Local, Fresh
<1>7. \A c \in Clients \ {h} : status[c] = "open" => Attended(c)'
  <2>1. ready \subseteq ready'
    BY <1>2 DEF Rearm
  <2> QED  BY <1>2, <1>6, <2>1, OthersAttended DEF NothingForgotten, NoEvent
<1>8. status'[h] = "open" /\ \A c \in Clients \ {h} : status'[c] = status[c]
  BY <1>2 DEF IInv, CoreTypes
<1> QED  BY <1>3, <1>5, <1>6, <1>7, <1>8 DEF NothingForgotten

LEMMA AcceptAgainForgetsNothing ==
  ASSUME NothingForgotten, IInv, AcceptAgain
  PROVE  NothingForgotten'
<1>1. UNCHANGED <<socketVars, ready, connVars, batch, ev>> /\ ev = NoEvent /\ backlog = <<>> /\ pc' = NextEvent
  BY DEF AcceptAgain, IInv, EventInHand, Working
<1>2. BufferTypes' /\ BacklogAnnounced' /\ (pc' = "wait" => batch' = {})
  BY <1>1 DEF NothingForgotten, BufferTypes, BacklogAnnounced, NextEvent, socketVars, connVars
<1>3. \A c \in Clients : UNCHANGED Local(c) /\ (Fresh(c) => Fresh(c)')
  BY <1>1 DEF Local, Fresh, socketVars, connVars
<1>4. \A c \in Clients : status[c] = "open" => Attended(c)'
  BY <1>1, <1>3, OthersAttended DEF NothingForgotten, NoEvent
<1> QED  BY <1>1, <1>2, <1>3, <1>4 DEF NothingForgotten, socketVars

-----------------------------------------------------------------------------
(* The steps of the two handlers, each on the connection in hand.            *)
LEMMA HandlingForgetsNothing ==
  ASSUME NothingForgotten, IInv, NEW h \in Clients, ev.who = h, pc' # "wait",
         UNCHANGED <<status, backlog, batch, ev>>,
         \A c \in Clients \ {h} : UNCHANGED Local(c),
         ready \subseteq ready', BufferTypes', Handled(h)'
  PROVE  NothingForgotten'
<1>1. status[h] = "open" /\ pc \in Working
  BY InHand DEF IInv, EventInHand, NoEvent
<1>2. BacklogAnnounced'
  BY <1>1 DEF NothingForgotten, BacklogAnnounced, Working
<1>3. \A c \in Clients \ {h} : status[c] = "open" => Attended(c)'
  BY OthersAttended DEF NothingForgotten
<1>4. \A c \in Clients \ {h} : Fresh(c) => Fresh(c)'
  BY DEF Fresh, Local
<1>5. Attended(h)'
  BY DEF Attended
<1> QED  BY <1>1, <1>2, <1>3, <1>4, <1>5 DEF NothingForgotten

LEMMA HandledNow ==
  ASSUME NothingForgotten, IInv, pc \in Working
  PROVE  \E h \in Clients : h = Here /\ ev.who = h /\ Handled(h)
BY InHand DEF NothingForgotten, Attended, IInv, EventInHand

LEMMA ReadSomeForgetsNothing ==
  ASSUME NothingForgotten, IInv, ReadSome
  PROVE  NothingForgotten'
<1>1. PICK h \in Clients : h = Here /\ ev.who = h /\ Handled(h)
  BY HandledNow DEF ReadSome, Working
<1>2. UNCHANGED <<status, fin, rst, outq, backlog, ready, writeBuf, armed, pc, batch, ev>> /\ pc = "read"
  BY DEF ReadSome
<1>3. \E x, y : readBuf' = [readBuf EXCEPT ![h] = x] /\ inq' = [inq EXCEPT ![h] = y]
  BY <1>1 DEF ReadSome
<1>4. BufferTypes' /\ \A c \in Clients \ {h} : UNCHANGED Local(c)
  BY <1>2, <1>3 DEF NothingForgotten, BufferTypes, Local
<1>5. Handled(h)'
  BY <1>1, <1>2 DEF Handled, Balanced
<1> QED  BY <1>1, <1>2, <1>4, <1>5, HandlingForgetsNothing

LEMMA ReadAgainForgetsNothing ==
  ASSUME NothingForgotten, IInv, ReadAgain
  PROVE  NothingForgotten'
<1>1. PICK h \in Clients : h = Here /\ ev.who = h /\ Handled(h)
  BY HandledNow DEF ReadAgain, Working
<1>2. /\ UNCHANGED <<socketVars, ready, connVars, batch, ev>> /\ pc = "read" /\ pc' = "parse"
      /\ inq[h] = <<>> /\ ~fin[h] /\ ~rst[h]
  BY <1>1 DEF ReadAgain
<1>3. BufferTypes' /\ \A c \in Clients : UNCHANGED Local(c)
  BY <1>2 DEF NothingForgotten, BufferTypes, Local, socketVars, connVars
<1>4. Handled(h)'
  BY <1>1, <1>2 DEF Handled, Heard, Balanced, socketVars, connVars
<1> QED  BY <1>1, <1>2, <1>3, <1>4, HandlingForgetsNothing DEF socketVars

(* A turn of the loop of processCommands that answers.                       *)
LEMMA AnswerForgetsNothing ==
  ASSUME NothingForgotten, IInv, Execute \/ Resynchronise
  PROVE  NothingForgotten'
<1>1. PICK h \in Clients : h = Here /\ ev.who = h /\ Handled(h)
  BY HandledNow DEF Execute, Resynchronise, Working
<1>2. /\ UNCHANGED <<socketVars, ready, armed, batch, ev>> /\ pc = "parse" /\ pc' \in {"parse", "reply"}
      /\ \E x : readBuf' = [readBuf EXCEPT ![h] = x]
      /\ \E n : writeBuf' = [writeBuf EXCEPT ![h] = Append(@, n)]
      /\ pc' = "reply" => readBuf' = [readBuf EXCEPT ![h] = <<>>]
  BY <1>1 DEF Execute, Resynchronise
<1>3. BufferTypes' /\ \A c \in Clients \ {h} : UNCHANGED Local(c)
  BY <1>2 DEF NothingForgotten, BufferTypes, Local, socketVars
<1>4. writeBuf'[h] # <<>>
  BY <1>2 DEF NothingForgotten, BufferTypes
<1>5. Heard(h)' /\ (pc' = "reply" => Incomplete(readBuf'[h]))
  BY <1>1, <1>2 DEF Handled, Heard, Incomplete, NothingForgotten, BufferTypes, socketVars
<1>6. Handled(h)'
  BY <1>2, <1>4, <1>5 DEF Handled, Working
<1> QED  BY <1>1, <1>2, <1>3, <1>6, HandlingForgetsNothing DEF socketVars

LEMMA AwaitMoreForgetsNothing ==
  ASSUME NothingForgotten, IInv, AwaitMore
  PROVE  NothingForgotten'
<1>1. PICK h \in Clients : h = Here /\ ev.who = h /\ Handled(h)
  BY HandledNow DEF AwaitMore, Working
<1>2. /\ UNCHANGED <<socketVars, ready, connVars, batch, ev>> /\ pc = "parse"
      /\ Incomplete(readBuf[h]) /\ pc' = AfterParsing(writeBuf[h])
  BY <1>1 DEF AwaitMore
<1>3. BufferTypes' /\ \A c \in Clients : UNCHANGED Local(c)
  BY <1>2 DEF NothingForgotten, BufferTypes, Local, socketVars, connVars
<1>4. Heard(h)' /\ Incomplete(readBuf'[h])
  BY <1>1, <1>2 DEF Handled, Heard, socketVars, connVars
<1>5. CASE writeBuf[h] # <<>>
  <2>1. Handled(h)' /\ pc' = "reply"
    BY <1>2, <1>4, <1>5 DEF Handled, AfterParsing, Working
  <2> QED  BY <1>1, <1>2, <1>3, <2>1, HandlingForgetsNothing DEF socketVars
<1>6. CASE writeBuf[h] = <<>>
  <2>1. Balanced(h)' /\ ~armed'[h]
    BY <1>1, <1>2, <1>6 DEF Handled, Balanced, connVars
  <2>2. h \in ready' \/ Reported(h)' = {}
    BY <1>4, <2>1 DEF Heard, Reported, Level, Interest
  <2>3. Handled(h)'
    BY <1>2, <1>4, <1>6, <2>1, <2>2 DEF Handled, AfterParsing, AfterRead, Working
  <2>4. pc' # "wait"
    BY <1>2 DEF AfterParsing, AfterRead
  <2> QED  BY <1>1, <1>2, <1>3, <2>3, <2>4, HandlingForgetsNothing DEF socketVars
<1> QED  BY <1>5, <1>6

LEMMA WriteSomeForgetsNothing ==
  ASSUME NothingForgotten, IInv, WriteSome
  PROVE  NothingForgotten'
<1>1. PICK h \in Clients : h = Here /\ ev.who = h /\ Handled(h)
  BY HandledNow DEF WriteSome, Writing, Working
<1>2. /\ UNCHANGED <<status, inq, fin, rst, backlog, ready, readBuf, armed, pc, batch, ev>>
      /\ pc \in {"reply", "write"}
  BY DEF WriteSome, Writing
<1>3. \E x, y : outq' = [outq EXCEPT ![h] = x] /\ writeBuf' = [writeBuf EXCEPT ![h] = y]
  BY <1>1 DEF WriteSome
<1>4. BufferTypes' /\ \A c \in Clients \ {h} : UNCHANGED Local(c)
  BY <1>2, <1>3 DEF NothingForgotten, BufferTypes, Local
<1>5. Handled(h)'
  BY <1>1, <1>2 DEF Handled, Incomplete, Heard, Working
<1> QED  BY <1>1, <1>2, <1>4, <1>5, HandlingForgetsNothing

(* EAGAIN with EPOLLOUT armed already: the socket was full a moment ago, and *)
(* nothing else has happened, or the kernel has said so.                     *)
LEMMA WriteAgainForgetsNothing ==
  ASSUME NothingForgotten, IInv, WriteAgain
  PROVE  NothingForgotten'
<1>1. PICK h \in Clients : h = Here /\ ev.who = h /\ Handled(h)
  BY HandledNow DEF WriteAgain, Writing, Working
<1>2. /\ UNCHANGED <<socketVars, ready, connVars, batch, ev>> /\ pc \in {"reply", "write"}
      /\ writeBuf[h] # <<>> /\ ~rst[h] /\ Full(h)
      /\ pc' = IF armed[h] THEN WriteReturns ELSE IF pc = "reply" THEN "reply arm" ELSE "write arm"
  BY <1>1 DEF WriteAgain, Writing
<1>3. BufferTypes' /\ \A c \in Clients : UNCHANGED Local(c)
  BY <1>2 DEF NothingForgotten, BufferTypes, Local, socketVars, connVars
<1>4. Incomplete(readBuf'[h]) /\ Heard(h)' /\ writeBuf'[h] # <<>> /\ armed'[h] = armed[h]
  BY <1>1, <1>2 DEF Handled, Incomplete, Heard, Working, socketVars, connVars
<1>5. h \in ready' \/ Reported(h)' = {}
  BY <1>2, <1>4 DEF Heard, Reported, Level, Interest, Full, socketVars, connVars
<1>6. Handled(h)'
  BY <1>2, <1>4, <1>5 DEF Handled, Balanced, WriteReturns, AfterRead, Working
<1>7. pc' # "wait"
  BY <1>2 DEF WriteReturns, AfterRead
<1> QED  BY <1>1, <1>2, <1>3, <1>6, <1>7, HandlingForgetsNothing DEF socketVars

LEMMA ArmForgetsNothing ==
  ASSUME NothingForgotten, IInv, Arm
  PROVE  NothingForgotten'
<1>1. PICK h \in Clients : h = Here /\ ev.who = h /\ Handled(h)
  BY HandledNow DEF Arm, Working
<1>2. /\ UNCHANGED <<socketVars, conns, readBuf, writeBuf, batch, ev>> /\ pc \in {"reply arm", "write arm"}
      /\ armed' = [armed EXCEPT ![h] = TRUE] /\ Rearm(h, TRUE) /\ pc' = WriteReturns
  BY <1>1 DEF Arm
<1>3. BufferTypes' /\ (\A c \in Clients \ {h} : UNCHANGED Local(c)) /\ armed'[h]
  BY <1>2 DEF NothingForgotten, BufferTypes, Local, socketVars
<1>4. ready \subseteq ready' /\ (h \in ready' \/ Reported(h)' = {})
  BY <1>2, <1>3 DEF Rearm, Reported, Level, Full, socketVars
<1>5. Incomplete(readBuf'[h]) /\ Heard(h)' /\ Balanced(h)'
  BY <1>1, <1>2, <1>3, <1>4 DEF Handled, Incomplete, Heard, Balanced, Working, socketVars
<1>6. Handled(h)'
  BY <1>2, <1>4, <1>5 DEF Handled, WriteReturns, AfterRead, Working
<1>7. pc' # "wait"
  BY <1>2 DEF WriteReturns, AfterRead
<1> QED  BY <1>1, <1>2, <1>3, <1>4, <1>6, <1>7, HandlingForgetsNothing DEF socketVars

LEMMA WriteDoneForgetsNothing ==
  ASSUME NothingForgotten, IInv, WriteDone
  PROVE  NothingForgotten'
<1>1. PICK h \in Clients : h = Here /\ ev.who = h /\ Handled(h)
  BY HandledNow DEF WriteDone, Writing, Working
<1>2. /\ UNCHANGED <<socketVars, conns, readBuf, writeBuf, batch, ev>> /\ pc \in {"reply", "write"}
      /\ armed' = [armed EXCEPT ![h] = FALSE] /\ writeBuf[h] = <<>> /\ pc' = WriteReturns
      /\ ready \subseteq ready'
  BY <1>1 DEF WriteDone, Writing, Rearm
<1>3. BufferTypes' /\ (\A c \in Clients \ {h} : UNCHANGED Local(c)) /\ ~armed'[h]
  BY <1>2 DEF NothingForgotten, BufferTypes, Local, socketVars
<1>4. Incomplete(readBuf'[h]) /\ Heard(h)' /\ Balanced(h)'
  BY <1>1, <1>2, <1>3 DEF Handled, Incomplete, Heard, Balanced, Working, socketVars
<1>5. h \in ready' \/ Reported(h)' = {}
  BY <1>3, <1>4 DEF Heard, Reported, Level, Interest
<1>6. Handled(h)'
  BY <1>2, <1>4, <1>5 DEF Handled, WriteReturns, AfterRead, Working
<1>7. pc' # "wait"
  BY <1>2 DEF WriteReturns, AfterRead
<1> QED  BY <1>1, <1>2, <1>3, <1>6, <1>7, HandlingForgetsNothing DEF socketVars

-----------------------------------------------------------------------------
LEMMA NextForgetsNothing == NothingForgotten /\ IInv /\ [Next]_vars => NothingForgotten'
<1> SUFFICES ASSUME NothingForgotten, IInv, [Next]_vars PROVE NothingForgotten'
  OBVIOUS
<1>1. CASE EpollWait    BY <1>1, EpollWaitForgetsNothing
<1>2. CASE Dispatch     BY <1>2, DispatchForgetsNothing
<1>3. CASE Finish       BY <1>3, FinishForgetsNothing
<1>4. CASE Accept       BY <1>4, AcceptForgetsNothing
<1>5. CASE AcceptAgain  BY <1>5, AcceptAgainForgetsNothing
<1>6. CASE ReadSome     BY <1>6, ReadSomeForgetsNothing
<1>7. CASE ReadEnds \/ WriteFails  BY <1>7, ReadEndsOrWriteFails, RemoveForgetsNothing
<1>8. CASE ReadAgain    BY <1>8, ReadAgainForgetsNothing
<1>9. CASE Execute \/ Resynchronise  BY <1>9, AnswerForgetsNothing
<1>10. CASE AwaitMore   BY <1>10, AwaitMoreForgetsNothing
<1>11. CASE WriteSome   BY <1>11, WriteSomeForgetsNothing
<1>12. CASE WriteAgain  BY <1>12, WriteAgainForgetsNothing
<1>13. CASE Arm         BY <1>13, ArmForgetsNothing
<1>14. CASE WriteDone   BY <1>14, WriteDoneForgetsNothing
<1>15. CASE ClientStep
  <2>1. PICK c \in Clients : Connect(c) \/ Send(c) \/ Shutdown(c) \/ Reset(c) \/ Receive(c)
    BY <1>15 DEF ClientStep
  <2> QED  BY <2>1, ConnectForgetsNothing, ClientsForgetNothing
<1>16. CASE UNCHANGED vars
  <2>1. UNCHANGED <<socketVars, ready, connVars, pc, batch, ev>>
    BY <1>16 DEF vars
  <2>2. BufferTypes' /\ BacklogAnnounced' /\ (pc' = "wait" => batch' = {})
    BY <2>1 DEF NothingForgotten, BufferTypes, BacklogAnnounced, socketVars, connVars
  <2>3. \A c \in Clients : (Fresh(c) => Fresh(c)') /\ (Attended(c) => Attended(c)')
    <3>1. \A c \in Clients : Reported(c)' = Reported(c)
      BY <2>1 DEF Reported, Level, Full, socketVars, connVars
    <3> QED  BY <2>1, <3>1, StillAttended DEF Fresh, socketVars, connVars
  <2> QED  BY <2>1, <2>2, <2>3 DEF NothingForgotten, socketVars
<1>17. CASE AcceptFails  BY <1>16, <1>17 DEF AcceptFails
<1> QED
  BY <1>1, <1>2, <1>3, <1>4, <1>5, <1>6, <1>7, <1>8, <1>9, <1>10, <1>11, <1>12, <1>13, <1>14, <1>15,
     <1>16, <1>17
  DEF Next, ServerStep

(* Whenever the thread goes to sleep, every connection with unread input, an *)
(* unanswered request, unsent replies and room for them, or a departed       *)
(* client is on the ready list, and so is a backlog that is not empty, for   *)
(* any number of clients and any sizes of batches and socket buffers.        *)
THEOREM NoWakeupIsLost == Spec => []NoLostWakeup
<1>1. Init => NothingForgotten
  BY InitNothingForgotten
<1>2. IInv /\ NothingForgotten /\ [Next]_vars => NothingForgotten'
  BY NextForgetsNothing
<1> QED  BY <1>1, <1>2, IInvAlways, WakeupIsKept, PTL DEF Spec
=============================================================================
