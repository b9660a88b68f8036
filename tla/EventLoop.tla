----------------------------- MODULE EventLoop -----------------------------
(* The network side of the server (src/net/Server.cpp, Connection.cpp): one  *)
(* thread, one edge-triggered epoll instance, one Connection per descriptor. *)
(* The server takes one step per system call; clients and the kernel move    *)
(* in between.  Parsing and running a command is a step of its own.          *)
(*                                                                           *)
(* Bytes are abstracted to units: a request arrives as one unit or as two    *)
(* halves, a reply is one unit.  A client stands for one TCP connection;     *)
(* descriptors are reused by later clients.                                  *)
EXTENDS Naturals, Sequences, FiniteSets, Functions

CONSTANTS Clients,    \* TCP connections
          Fds,        \* descriptors the process may open for them, numbers
          Script,     \* [Clients -> Seq(Unit)]: what each client sends
          ReadMax,    \* units one readv() returns at most
          SendMax,    \* units the kernel holds towards one client
          MaxEvents,  \* MAX_EVENTS, 64 in the code
          Listener    \* listenFd_ as an epoll item

Parts == {"whole", "first", "last", "bad"}
Unit == [req : Nat, part : Parts]

(* Requests are numbered in the order in which they are sent. *)
ASSUME ScriptAssumption ==
  /\ Script \in [Clients -> Seq(Unit)]
  /\ \A c \in Clients : \A i, j \in DOMAIN Script[c] :
       i < j /\ {Script[c][i].part, Script[c][j].part} \subseteq {"whole", "first"}
         => Script[c][i].req < Script[c][j].req
ASSUME BoundsAssumption == {ReadMax, SendMax, MaxEvents} \subseteq Nat \ {0}
ASSUME ListenerAssumption == Listener \notin Clients /\ Fds \subseteq Nat

VARIABLES
  \* the clients and their sockets, kernel side
  status,     \* "new", "queued" in the backlog, "open", or "closed" by the server
  sent,       \* how many units of its script a client has sent
  inq,        \* receive queue of the server's socket
  fin,        \* the client has shut down its sending side
  rst,        \* the connection is reset
  outq,       \* replies the kernel holds towards the client
  got,        \* replies the client has read
  backlog,    \* established connections not accepted yet
  \* epoll
  ready,      \* items on the ready list
  \* the server
  conns,      \* Server::connections_, a function from open descriptors to clients
  readBuf, writeBuf,  \* Connection::readBuf_, writeBuf_
  armed,      \* Connection::listeningEpollOut_, and EPOLLOUT in the interest
  pc,         \* where the thread is
  batch,      \* events of the last epoll_wait not handled yet
  ev          \* the event being handled

socketVars == <<status, sent, inq, fin, rst, outq, got, backlog>>
connVars == <<conns, readBuf, writeBuf, armed>>
vars == <<socketVars, ready, connVars, pc, batch, ev>>

NoEvent == [who |-> Listener, fd |-> 0, mask |-> {}]

Init ==
  /\ status = [c \in Clients |-> "new"]
  /\ sent = [c \in Clients |-> 0]
  /\ inq = [c \in Clients |-> <<>>]
  /\ fin = [c \in Clients |-> FALSE]
  /\ rst = [c \in Clients |-> FALSE]
  /\ outq = [c \in Clients |-> <<>>]
  /\ got = [c \in Clients |-> <<>>]
  /\ backlog = <<>>
  /\ ready = {}
  /\ conns = [fd \in {} |-> Listener]
  /\ readBuf = [c \in Clients |-> <<>>]
  /\ writeBuf = [c \in Clients |-> <<>>]
  /\ armed = [c \in Clients |-> FALSE]
  /\ pc = "wait"
  /\ batch = {}
  /\ ev = NoEvent

-----------------------------------------------------------------------------
(* epoll(7), external.  An item joins the ready list when something happens  *)
(* that its interest covers, and when EPOLL_CTL_ADD or MOD finds it ready.   *)
(* epoll_wait takes items off the list and reports what is true of them at   *)
(* that moment; edge-triggered items do not go back.                         *)

Full(c) == Len(outq[c]) = SendMax

Level(c) == (IF inq[c] # <<>> \/ fin[c] \/ rst[c] THEN {"IN"} ELSE {})
            \cup (IF fin[c] \/ rst[c] THEN {"RDHUP"} ELSE {})
            \cup (IF rst[c] THEN {"HUP"} ELSE {})
            \cup (IF ~Full(c) \/ rst[c] THEN {"OUT"} ELSE {})

Interest(out) == {"IN", "RDHUP", "HUP"} \cup (IF out THEN {"OUT"} ELSE {})

Reported(c) == Level(c) \cap Interest(armed[c])

(* The item is registered: an event on its socket puts it on the list. *)
Wake(c) == ready' = IF status[c] = "open" THEN ready \cup {c} ELSE ready

(* epoll_ctl(MOD), or ADD, with or without EPOLLOUT looks at once. *)
Rearm(c, out) == ready' = IF Level(c) \cap Interest(out) # {} THEN ready \cup {c} ELSE ready

-----------------------------------------------------------------------------
(* The clients, external. *)

Connect(c) ==
  /\ status[c] = "new"
  /\ status' = [status EXCEPT ![c] = "queued"]
  /\ backlog' = Append(backlog, c)
  /\ ready' = ready \cup {Listener}
  /\ UNCHANGED <<sent, inq, fin, rst, outq, got, connVars, pc, batch, ev>>

Talks(c) == status[c] \in {"queued", "open"} /\ ~fin[c] /\ ~rst[c]

Send(c) ==
  /\ Talks(c) /\ sent[c] < Len(Script[c])
  /\ sent' = [sent EXCEPT ![c] = @ + 1]
  /\ inq' = [inq EXCEPT ![c] = Append(@, Script[c][sent[c] + 1])]
  /\ Wake(c)
  /\ UNCHANGED <<status, fin, rst, outq, got, backlog, connVars, pc, batch, ev>>

(* The client closes its sending side and may go on reading. *)
Shutdown(c) ==
  /\ Talks(c)
  /\ fin' = [fin EXCEPT ![c] = TRUE]
  /\ Wake(c)
  /\ UNCHANGED <<status, sent, inq, rst, outq, got, backlog, connVars, pc, batch, ev>>

(* The connection breaks; what the kernel held towards the client is gone. *)
Reset(c) ==
  /\ status[c] \in {"queued", "open"} /\ ~rst[c]
  /\ rst' = [rst EXCEPT ![c] = TRUE]
  /\ outq' = [outq EXCEPT ![c] = <<>>]
  /\ Wake(c)
  /\ UNCHANGED <<status, sent, inq, fin, got, backlog, connVars, pc, batch, ev>>

(* Reading frees room; only the step from full to not full is an edge. *)
Receive(c) ==
  /\ outq[c] # <<>>
  /\ got' = [got EXCEPT ![c] = Append(@, Head(outq[c]))]
  /\ outq' = [outq EXCEPT ![c] = Tail(@)]
  /\ IF armed[c] /\ Full(c) THEN Wake(c) ELSE UNCHANGED ready
  /\ UNCHANGED <<status, sent, inq, fin, rst, backlog, connVars, pc, batch, ev>>

-----------------------------------------------------------------------------
(* Server::run *)

NextEvent == IF batch = {} THEN "wait" ELSE "loop"

(* epoll_wait returns up to MaxEvents items. *)
EpollWait ==
  /\ pc = "wait" /\ ready # {}
  /\ \E S \in SUBSET ready :
       /\ Cardinality(S) <= MaxEvents
       /\ S = ready \/ Cardinality(S) = MaxEvents
       /\ ready' = ready \ S
       /\ batch' = {[who |-> Listener, fd |-> 0, mask |-> {"IN"}] : l \in S \cap {Listener}}
                   \cup {[who |-> conns[fd], fd |-> fd, mask |-> Reported(conns[fd])] :
                           fd \in {fd \in DOMAIN conns : conns[fd] \in S /\ Reported(conns[fd]) # {}}}
  /\ pc' = "loop"
  /\ UNCHANGED <<socketVars, connVars, ev>>

(* Where handling an event goes after handleRead returned true. *)
AfterRead(e) == IF "OUT" \in e.mask THEN "write" ELSE "finish"

Dispatch ==
  /\ pc = "loop"
  /\ \/ /\ batch = {} /\ pc' = "wait"
        /\ UNCHANGED <<batch, ev>>
     \/ \E e \in batch :
          /\ batch' = batch \ {e}
          /\ \/ /\ e.who = Listener
                /\ pc' = "accept" /\ UNCHANGED ev
             \/ /\ e.who # Listener
                /\ IF e.fd \in DOMAIN conns
                   THEN /\ ev' = e
                        /\ pc' = IF "IN" \in e.mask THEN "read" ELSE AfterRead(e)
                   ELSE pc' = "loop" /\ UNCHANGED ev
  /\ UNCHANGED <<socketVars, ready, connVars>>

(* The connection on the descriptor of the current event. *)
Here == conns[ev.fd]

(* Mutants of removeConnection: the entry of the map is emptied, not erased; *)
(* it stays as it is; the caller goes on with the event.                     *)
RemoveNullsEntry ==
  /\ conns' = [conns EXCEPT ![ev.fd] = Listener]
  /\ status' = [status EXCEPT ![Here] = "closed"]
  /\ ready' = ready \ {Here}
  /\ pc' = NextEvent
  /\ ev' = NoEvent
  /\ UNCHANGED <<sent, inq, fin, rst, outq, got, backlog, readBuf, writeBuf, armed, batch>>

RemoveLeavesEntry ==
  /\ status' = [status EXCEPT ![Here] = "closed"]
  /\ ready' = ready \ {Here}
  /\ pc' = NextEvent
  /\ ev' = NoEvent
  /\ UNCHANGED <<sent, inq, fin, rst, outq, got, backlog, connVars, batch>>

RemoveWithoutContinue ==
  /\ conns' = Restrict(conns, DOMAIN conns \ {ev.fd})
  /\ status' = [status EXCEPT ![Here] = "closed"]
  /\ ready' = ready \ {Here}
  /\ pc' = "finish"
  /\ UNCHANGED <<sent, inq, fin, rst, outq, got, backlog, readBuf, writeBuf, armed, batch, ev>>

(* removeConnection: EPOLL_CTL_DEL, erase, and the destructor's close(fd).   *)
RemoveConnection ==
  /\ conns' = Restrict(conns, DOMAIN conns \ {ev.fd})
  /\ status' = [status EXCEPT ![Here] = "closed"]
  /\ ready' = ready \ {Here}
  /\ readBuf' = [readBuf EXCEPT ![Here] = <<>>]
  /\ writeBuf' = [writeBuf EXCEPT ![Here] = <<>>]
  /\ armed' = [armed EXCEPT ![Here] = FALSE]
  /\ pc' = NextEvent
  /\ ev' = NoEvent
  /\ UNCHANGED <<sent, inq, fin, rst, outq, got, backlog, batch>>

(* The last test of the loop body: ERR, HUP and RDHUP remove the connection. *)
Finish ==
  /\ pc = "finish"
  /\ \/ ev.mask \cap {"HUP", "RDHUP"} # {} /\ RemoveConnection
     \/ /\ ev.mask \cap {"HUP", "RDHUP"} = {}
        /\ pc' = NextEvent /\ ev' = NoEvent
        /\ UNCHANGED <<socketVars, ready, connVars, batch>>

-----------------------------------------------------------------------------
(* Server::acceptConnection, one step per accept4().                         *)

FreeFds == Fds \ DOMAIN conns

(* The kernel hands out the lowest free descriptor; ADD sees what has        *)
(* already arrived.                                                          *)
Accept ==
  /\ pc = "accept" /\ FreeFds # {} /\ backlog # <<>>
  /\ LET c == Head(backlog)
         fd == CHOOSE fd \in FreeFds : \A x \in FreeFds : fd <= x
     IN  /\ conns' = [x \in DOMAIN conns \cup {fd} |-> IF x = fd THEN c ELSE conns[x]]
         /\ status' = [status EXCEPT ![c] = "open"]
         /\ Rearm(c, FALSE)
  /\ backlog' = Tail(backlog)
  /\ UNCHANGED <<sent, inq, fin, rst, outq, got, readBuf, writeBuf, armed, pc, batch, ev>>

AcceptAgain ==
  /\ pc = "accept" /\ FreeFds # {} /\ backlog = <<>>
  /\ pc' = NextEvent
  /\ UNCHANGED <<socketVars, ready, connVars, batch, ev>>

(* Any other error is logged and the loop goes on: EMFILE, which the kernel  *)
(* finds before it looks at the queue, comes back at once.                   *)
AcceptFails ==
  /\ pc = "accept" /\ FreeFds = {}
  /\ UNCHANGED vars

-----------------------------------------------------------------------------
(* Connection::handleRead, one step per readv().                             *)

ReadSome ==
  /\ pc = "read" /\ inq[Here] # <<>>
  /\ LET n == IF Len(inq[Here]) < ReadMax THEN Len(inq[Here]) ELSE ReadMax
     IN  /\ readBuf' = [readBuf EXCEPT ![Here] = @ \o SubSeq(inq[Here], 1, n)]
         /\ inq' = [inq EXCEPT ![Here] = SubSeq(@, n + 1, Len(@))]
  /\ UNCHANGED <<status, sent, fin, rst, outq, got, backlog, ready, conns, writeBuf, armed, pc, batch, ev>>

(* Mutant: EAGAIN is taken for an error. *)
ReadEndsOnAgain ==
  /\ pc = "read" /\ inq[Here] = <<>>
  /\ RemoveConnection

(* End of stream or an error: false, whatever the read buffer holds.         *)
ReadEnds ==
  /\ pc = "read" /\ inq[Here] = <<>> /\ (fin[Here] \/ rst[Here])
  /\ RemoveConnection

(* Mutant: one readv() per event. *)
ReadOnce ==
  /\ pc = "read" /\ readBuf[Here] # <<>> /\ ~fin[Here] /\ ~rst[Here]
  /\ pc' = "parse"
  /\ UNCHANGED <<socketVars, ready, connVars, batch, ev>>

(* EAGAIN: what is there goes to processCommands.                            *)
ReadAgain ==
  /\ pc = "read" /\ inq[Here] = <<>> /\ ~fin[Here] /\ ~rst[Here]
  /\ pc' = "parse"
  /\ UNCHANGED <<socketVars, ready, connVars, batch, ev>>

-----------------------------------------------------------------------------
(* Connection::processCommands, one step per turn of its loop: the request   *)
(* at the front of the buffer is run, or a half request waits for its other  *)
(* half, or it is an error (reply 0), which empties the buffer.              *)
Complete(b) ==
  /\ b # <<>>
  /\ b[1].part = "whole" \/ (b[1].part = "first" /\ Len(b) > 1 /\ b[2].part = "last")
Incomplete(b) == b = <<>> \/ (Len(b) = 1 /\ b[1].part = "first")

AfterParsing(replies) == IF replies # <<>> THEN "reply" ELSE AfterRead(ev)

Execute ==
  /\ pc = "parse" /\ Complete(readBuf[Here])
  /\ LET request == readBuf[Here][1]
     IN  /\ readBuf' = [readBuf EXCEPT ![Here] = IF request.part = "whole" THEN Tail(@) ELSE Tail(Tail(@))]
         /\ writeBuf' = [writeBuf EXCEPT ![Here] = Append(@, request.req)]
  /\ UNCHANGED <<socketVars, ready, conns, armed, pc, batch, ev>>

AwaitMore ==
  /\ pc = "parse" /\ Incomplete(readBuf[Here])
  /\ pc' = AfterParsing(writeBuf[Here])
  /\ UNCHANGED <<socketVars, ready, connVars, batch, ev>>

(* Mutant: the replies still to be sent go with the input. *)
ResynchroniseForgets ==
  /\ pc = "parse" /\ ~Complete(readBuf[Here]) /\ ~Incomplete(readBuf[Here])
  /\ readBuf' = [readBuf EXCEPT ![Here] = <<>>]
  /\ writeBuf' = [writeBuf EXCEPT ![Here] = <<0>>]
  /\ pc' = "reply"
  /\ UNCHANGED <<socketVars, ready, conns, armed, batch, ev>>

(* Mutant: a protocol error costs the connection. *)
ResynchroniseCloses ==
  /\ pc = "parse" /\ ~Complete(readBuf[Here]) /\ ~Incomplete(readBuf[Here])
  /\ RemoveConnection

(* Mutant: the error is left for the next reply to take along. *)
ResynchroniseSilently ==
  /\ pc = "parse" /\ ~Complete(readBuf[Here]) /\ ~Incomplete(readBuf[Here])
  /\ readBuf' = [readBuf EXCEPT ![Here] = <<>>]
  /\ writeBuf' = [writeBuf EXCEPT ![Here] = Append(@, 0)]
  /\ pc' = AfterRead(ev)
  /\ UNCHANGED <<socketVars, ready, conns, armed, batch, ev>>

Resynchronise ==
  /\ pc = "parse" /\ ~Complete(readBuf[Here]) /\ ~Incomplete(readBuf[Here])
  /\ readBuf' = [readBuf EXCEPT ![Here] = <<>>]
  /\ writeBuf' = [writeBuf EXCEPT ![Here] = Append(@, 0)]
  /\ pc' = "reply"
  /\ UNCHANGED <<socketVars, ready, conns, armed, batch, ev>>

-----------------------------------------------------------------------------
(* Connection::handleWrite, one step per write(): called by processCommands  *)
(* ("reply") and for EPOLLOUT ("write").                                     *)

Writing == pc \in {"reply", "write"}
WriteReturns == IF pc \in {"reply", "reply arm"} THEN AfterRead(ev) ELSE "finish"

(* Mutant: what has been written is not retrieved. *)
WriteKeeps ==
  /\ Writing /\ writeBuf[Here] # <<>> /\ ~rst[Here] /\ ~Full(Here)
  /\ outq' = [outq EXCEPT ![Here] = Append(@, Head(writeBuf[Here]))]
  /\ UNCHANGED <<status, sent, inq, fin, rst, got, backlog, ready, connVars, pc, batch, ev>>

WriteSome ==
  /\ Writing /\ writeBuf[Here] # <<>> /\ ~rst[Here] /\ ~Full(Here)
  /\ LET room == SendMax - Len(outq[Here])
         n == IF Len(writeBuf[Here]) < room THEN Len(writeBuf[Here]) ELSE room
     IN  /\ outq' = [outq EXCEPT ![Here] = @ \o SubSeq(writeBuf[Here], 1, n)]
         /\ writeBuf' = [writeBuf EXCEPT ![Here] = SubSeq(@, n + 1, Len(@))]
  /\ UNCHANGED <<status, sent, inq, fin, rst, got, backlog, ready, conns, readBuf, armed, pc, batch, ev>>

(* Mutant: every error but EAGAIN is retried. *)
WriteRetries ==
  /\ Writing /\ writeBuf[Here] # <<>> /\ rst[Here]
  /\ UNCHANGED vars

WriteFails ==
  /\ Writing /\ writeBuf[Here] # <<>> /\ rst[Here]
  /\ RemoveConnection

(* Mutant: nobody asks for EPOLLOUT. *)
WriteGivesUp ==
  /\ Writing /\ writeBuf[Here] # <<>> /\ ~rst[Here] /\ Full(Here)
  /\ pc' = WriteReturns
  /\ UNCHANGED <<socketVars, ready, connVars, batch, ev>>

(* EAGAIN: EPOLLOUT is asked for unless it already is.  The client may read  *)
(* between the failed write() and epoll_ctl(MOD).                            *)
WriteAgain ==
  /\ Writing /\ writeBuf[Here] # <<>> /\ ~rst[Here] /\ Full(Here)
  /\ pc' = IF armed[Here] THEN WriteReturns ELSE IF pc = "reply" THEN "reply arm" ELSE "write arm"
  /\ UNCHANGED <<socketVars, ready, connVars, batch, ev>>

Arm ==
  /\ pc \in {"reply arm", "write arm"}
  /\ armed' = [armed EXCEPT ![Here] = TRUE]
  /\ Rearm(Here, TRUE)
  /\ pc' = WriteReturns
  /\ UNCHANGED <<socketVars, conns, readBuf, writeBuf, batch, ev>>

WriteDone ==
  /\ Writing /\ writeBuf[Here] = <<>>
  /\ armed' = [armed EXCEPT ![Here] = FALSE]
  /\ IF armed[Here] THEN Rearm(Here, FALSE) ELSE UNCHANGED ready
  /\ pc' = WriteReturns
  /\ UNCHANGED <<socketVars, conns, readBuf, writeBuf, batch, ev>>

-----------------------------------------------------------------------------
ServerStep ==
  \/ EpollWait \/ Dispatch \/ Finish
  \/ Accept \/ AcceptAgain \/ AcceptFails
  \/ ReadSome \/ ReadEnds \/ ReadAgain
  \/ Execute \/ AwaitMore \/ Resynchronise
  \/ WriteSome \/ WriteFails \/ WriteAgain \/ Arm \/ WriteDone

ClientStep ==
  \E c \in Clients : Connect(c) \/ Send(c) \/ Shutdown(c) \/ Reset(c) \/ Receive(c)

Next == ServerStep \/ ClientStep

Spec == Init /\ [][Next]_vars

(* The thread runs whenever it can, and clients read what was sent to them.  *)
Fairness == WF_vars(ServerStep) /\ \A c \in Clients : WF_vars(Receive(c))

FairSpec == Spec /\ Fairness

-----------------------------------------------------------------------------
TypeOK ==
  /\ status \in [Clients -> {"new", "queued", "open", "closed"}]
  /\ \A c \in Clients : sent[c] \in 0..Len(Script[c])
  /\ inq \in [Clients -> Seq(Unit)] /\ readBuf \in [Clients -> Seq(Unit)]
  /\ outq \in [Clients -> Seq(Nat)] /\ got \in [Clients -> Seq(Nat)]
  /\ writeBuf \in [Clients -> Seq(Nat)]
  /\ fin \in [Clients -> BOOLEAN] /\ rst \in [Clients -> BOOLEAN] /\ armed \in [Clients -> BOOLEAN]
  /\ backlog \in Seq(Clients) /\ ready \subseteq Clients \cup {Listener}
  /\ DOMAIN conns \subseteq Fds /\ conns \in [DOMAIN conns -> Clients]
  /\ pc \in {"wait", "loop", "accept", "read", "parse", "reply", "reply arm", "write", "write arm", "finish"}

(* Every open connection sits on exactly one descriptor and no closed or     *)
(* waiting one on any: a descriptor is neither leaked nor shared, although   *)
(* the kernel hands it out again as soon as a handler has closed it.         *)
OneDescriptorEach ==
  /\ \A f, g \in DOMAIN conns : conns[f] = conns[g] => f = g
  /\ {c \in Clients : status[c] = "open"} = {conns[fd] : fd \in DOMAIN conns}
  /\ ready \cap {c \in Clients : status[c] # "open"} = {}

(* Events harvested in one epoll_wait still mean the connection they were    *)
(* raised for when their turn comes, although other events of the batch      *)
(* close connections and accept new ones on the freed descriptors.           *)
EventsAreCurrent ==
  \A e \in batch \cup {ev} :
    e.who # Listener => e.fd \in DOMAIN conns /\ conns[e.fd] = e.who

(* When the thread is about to sleep, whatever it must not forget is on the  *)
(* ready list: under edge triggering nothing else would wake it.  A silent   *)
(* connection has no unread input, no complete request in its buffer, and    *)
(* unsent replies only behind a full socket with EPOLLOUT armed.             *)
Silent(c) ==
  /\ inq[c] = <<>> /\ ~fin[c] /\ ~rst[c]
  /\ Incomplete(readBuf[c])
  /\ IF writeBuf[c] = <<>> THEN ~armed[c] ELSE armed[c] /\ Full(c)

NoLostWakeup ==
  pc = "wait" =>
    /\ backlog # <<>> => Listener \in ready
    /\ \A c \in Clients : status[c] = "open" => c \in ready \/ Silent(c)

(* Replies reach each client in the order of its requests, none twice, none  *)
(* of another client's numbering, through partial writes, EAGAIN and         *)
(* rearming; without protocol errors none is missing in between, and with    *)
(* them the requests before the first malformed one are answered, first of   *)
(* all and without a gap.                                                    *)
WellFormedTo(c, n) ==
  \A i \in 1..n :
    IF i > 1 /\ Script[c][i - 1].part = "first"
    THEN Script[c][i] = [Script[c][i - 1] EXCEPT !.part = "last"]
    ELSE /\ Script[c][i].part \in {"whole", "first"}
         /\ Script[c][i].req = IF i = 1 THEN 1 ELSE Script[c][i - 1].req + 1

WellFormed(c) == WellFormedTo(c, Len(Script[c]))

(* Unit n ends a request, and all is well-formed up to there. *)
IntactTo(c, n) == WellFormedTo(c, n) /\ Script[c][n].part # "first"

Replies(c) == got[c] \o outq[c] \o writeBuf[c]

Ascending(r) == \A i, j \in 1..Len(r) : i < j /\ r[i] # 0 /\ r[j] # 0 => r[i] < r[j]
Counting(r) == \A i \in 1..Len(r) : r[i] = i
FirstAre(r, n) == \A i \in 1..Len(r) : i <= n => r[i] = i

RepliesInOrder ==
  \A c \in Clients : ~rst[c] =>
    /\ Ascending(Replies(c))
    /\ WellFormed(c) => Counting(Replies(c))
    /\ \A n \in 1..Len(Script[c]) : IntactTo(c, n) => FirstAre(Replies(c), Script[c][n].req)

(* The server never closes a connection its client has neither shut down nor *)
(* lost: no stale or misread event costs a healthy client its connection.    *)
KeepsHealthyConnections ==
  [][\A c \in Clients : status[c] = "open" /\ status'[c] = "closed" => fin[c] \/ rst[c]]_vars

(* Whole requests among the first k units. *)
Asked(c, k) == Cardinality({i \in 1..k : Script[c][i].part \in {"whole", "last"}})

(* Every request a client has sent completely is answered in the end, if the *)
(* client stays connected, has sent no malformed request before and reads.   *)
EveryRequestAnswered ==
  \A c \in Clients : \A k \in DOMAIN Script[c] :
    (WellFormedTo(c, k) /\ sent[c] >= k) ~> (Len(got[c]) >= Asked(c, k) \/ fin[c] \/ rst[c])

(* A connection whose client has gone is closed in the end: it does not keep *)
(* its descriptor.                                                           *)
DepartedAreReleased ==
  \A c \in Clients : (status[c] = "open" /\ (fin[c] \/ rst[c])) ~> status[c] = "closed"

-----------------------------------------------------------------------------
(* Claims of comments that the code does not keep.                           *)

(* acceptConnection accepts the pending connections and returns to the loop  *)
(* of run(), whatever accept4() answers.                                     *)
AcceptReturns == pc = "accept" ~> pc # "accept"

(* handleRead reads all that is available and processCommands runs the       *)
(* commands it received: no connection is removed by the read handler with a *)
(* complete request in its buffer that never ran.                            *)
ReceivedAreExecuted ==
  [][ReadEnds /\ ~rst[Here] => ~Complete(readBuf[Here])]_vars
=============================================================================
