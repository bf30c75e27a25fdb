------------------------------ MODULE Network -------------------------------
(***************************************************************************)
(* The way of a message from one host to others: manager::send, the queue  *)
(* sendQue, the one send thread, a TCP connection for every message, the   *)
(* io thread of the host it goes to, its queue recvQue, and the handler    *)
(* threads that pop it.                                                    *)
(*                                                                         *)
(* A message is known by its size, which is what decides on its fate:      *)
(*   small     fits the buffer of the socket, and is written at once;      *)
(*   long      does not; the rest of its body is written later, from       *)
(*             variables of a function that has returned by then;          *)
(*   oversize  has a body of more than MAX_BODY_SIZE bytes.                *)
(***************************************************************************)
EXTENDS MsgQueue

CONSTANTS
  Msg,         \* the messages; each is sent once
  To,          \* To[m]: the host that m is for
  Size,        \* Size[m]
  Host,        \* the hosts that messages go to
  HandlersOf,  \* HandlersOf[h]: the handler threads of h
  Down,        \* the hosts that no connection can be made to
  Source,      \* stands for sendQue; recvQue of a host is named for the host
  Sender,      \* the send thread
  Garbled,     \* a message made of bytes that were not sent
  NoMsg

ASSUME NetworkAssumption ==
  /\ Que = Host \cup {Source} /\ Source \notin Host
  /\ To \in [Msg -> Host] /\ Size \in [Msg -> {"small", "long", "oversize"}]
  /\ Elem = Msg \cup {Garbled} /\ Garbled \notin Msg /\ NoMsg \notin Elem
  /\ HandlersOf \in [Host -> SUBSET Consumer] /\ Sender \in Consumer
  /\ Down \subseteq Host

VARIABLES
  sent,     \* the messages that manager::send was called with
  holding,  \* the message that the send thread has popped
  conns,    \* open connections, with what comes next: header or body
  io,       \* io[h]: whether the io thread of h still runs
  handled,  \* history: the messages that handler threads have popped
  lost      \* history: the messages that were dropped on the way

net == <<holding, conns, io>>
vars == <<sent, queues, net, handled, lost>>

Init ==
  /\ InitQueues
  /\ sent = {} /\ handled = {} /\ lost = {}
  /\ holding = NoMsg /\ conns = {} /\ io = [h \in Host |-> TRUE]

-----------------------------------------------------------------------------
(* The sending host.                                                       *)

send(m) ==
  /\ m \notin sent
  /\ sent' = sent \cup {m}
  /\ Push(Source, m)
  /\ UNCHANGED <<net, handled, lost>>

get_writable_msg ==
  /\ holding = NoMsg
  /\ \/ (Enter(Source, Sender) \/ Wait(Source, Sender)) /\ UNCHANGED holding
     \/ \E m \in Msg : Pop(Source, Sender, m) /\ holding' = m
  /\ UNCHANGED <<sent, conns, io, handled, lost>>

\* Mutant of ConnectFails: the message is tried again.
ConnectAgain ==
  /\ holding # NoMsg /\ To[holding] \in Down
  /\ UNCHANGED vars

\* The connection cannot be made: the message is dropped.
ConnectFails ==
  /\ holding # NoMsg /\ To[holding] \in Down
  /\ holding' = NoMsg
  /\ lost' = lost \cup {holding}
  /\ UNCHANGED <<sent, queues, conns, io, handled>>

\* What is written later may have been overwritten by then.
Write ==
  /\ holding # NoMsg /\ To[holding] \notin Down
  /\ \E intact \in {TRUE, Size[holding] # "long"} :
       conns' = conns \cup {[msg |-> holding, next |-> "header",
                             intact |-> intact]}
  /\ holding' = NoMsg
  /\ UNCHANGED <<sent, queues, io, handled, lost>>

-----------------------------------------------------------------------------
(* The receiving hosts.                                                    *)

\* A body that does not fit is not read, and the connection is dropped.
handle_header(c) ==
  /\ c \in conns /\ c.next = "header" /\ io[To[c.msg]]
  /\ IF Size[c.msg] = "oversize"
     THEN conns' = conns \ {c} /\ lost' = lost \cup {c.msg}
     ELSE conns' = (conns \ {c}) \cup {[c EXCEPT !.next = "body"]} /\ UNCHANGED lost
  /\ UNCHANGED <<sent, queues, holding, io, handled>>

\* Mutant of handle_body: the connection stays open for more.
handle_bodyAgain(c) ==
  /\ c \in conns /\ c.next = "body" /\ io[To[c.msg]] /\ c.intact
  /\ Push(To[c.msg], c.msg)
  /\ UNCHANGED <<sent, net, handled, lost>>

handle_body(c) ==
  /\ c \in conns /\ c.next = "body" /\ io[To[c.msg]] /\ c.intact
  /\ conns' = conns \ {c}
  /\ Push(To[c.msg], c.msg)
  /\ UNCHANGED <<sent, holding, io, handled, lost>>

\* Bytes that were not sent are read as some other message, or the archive
\* throws, and with the exception the io thread leaves run() for good.
handle_garbled(c) ==
  /\ c \in conns /\ c.next = "body" /\ io[To[c.msg]] /\ ~c.intact
  /\ conns' = conns \ {c}
  /\ lost' = lost \cup {c.msg}
  /\ \/ Push(To[c.msg], Garbled) /\ UNCHANGED io
     \/ io' = [io EXCEPT ![To[c.msg]] = FALSE] /\ UNCHANGED queues
  /\ UNCHANGED <<sent, holding, handled>>

\* A handler thread comes back to pop, or takes the next message.
recv(h, t) ==
  /\ \/ (Enter(h, t) \/ Wait(h, t)) /\ UNCHANGED handled
     \/ \E x \in Elem : Pop(h, t, x) /\ handled' = handled \cup ({x} \cap Msg)
  /\ UNCHANGED <<sent, net, lost>>

-----------------------------------------------------------------------------
notify_one(q) == Notify(q) /\ UNCHANGED <<sent, net, handled, lost>>
Spurious(q, t) == Wake(q, t) /\ UNCHANGED <<sent, net, handled, lost>>

Receive(c) == handle_header(c) \/ handle_body(c) \/ handle_garbled(c)

Next ==
  \/ \E m \in Msg : send(m)
  \/ get_writable_msg \/ ConnectFails \/ Write
  \/ \E c \in conns : Receive(c)
  \/ \E h \in Host : \E t \in HandlersOf[h] : recv(h, t)
  \/ \E q \in Que : notify_one(q) \/ \E t \in Consumer : Spurious(q, t)

Spec == Init /\ [][Next]_vars

\* The threads run: those that sleep, the ones that notify, and the io
\* threads, which look after all their connections.
FairSpec ==
  /\ Spec
  /\ WF_vars(get_writable_msg) /\ WF_vars(ConnectFails \/ Write)
  /\ \A m \in Msg : WF_vars(\E c \in conns : c.msg = m /\ Receive(c))
  /\ \A h \in Host : \A t \in HandlersOf[h] : WF_vars(recv(h, t))
  /\ \A q \in Que : WF_vars(notify_one(q))

-----------------------------------------------------------------------------
(* Properties.                                                             *)

InQueues == UNION {{queue[q][n] : n \in DOMAIN queue[q]} : q \in Que}

\* The state is made of the values that the C++ types allow; a message is in
\* one connection at most.
TypeOK ==
  /\ QueuesTypeOK
  /\ sent \subseteq Msg /\ handled \subseteq sent /\ lost \subseteq sent
  /\ holding \in Msg \cup {NoMsg}
  /\ conns \subseteq [msg : sent, next : {"header", "body"}, intact : BOOLEAN]
  /\ \A c, d \in conns : c.msg = d.msg => c = d
  /\ io \in [Host -> BOOLEAN]

\* The network keeps the promise of Channel, on which Driver and Membership
\* are built: no message is handled twice, and none is lost but those to a
\* host that is down, those that are too large and those whose bytes changed.
Promise ==
  INSTANCE Channel WITH
    Lossy <- {m \in Msg : To[m] \in Down \/ Size[m] # "small"},
    onWay <- (InQueues \cup {holding} \cup {c.msg : c \in conns})
               \ {NoMsg, Garbled}

PromiseSpec == Promise!Spec

\* A small message to a host that is up is handled in the end, whatever
\* becomes of other messages; unless the io thread of the host has ended, and
\* then for a long message that came in pieces, not for any other.
SmallArrive ==
  \A m \in Msg : Size[m] = "small" /\ To[m] \notin Down =>
    (m \in sent ~>
       \/ m \in handled
       \/ /\ ~io[To[m]]
          /\ \E l \in lost : To[l] = To[m] /\ Size[l] = "long")
=============================================================================
