------------------------------ MODULE Framing ------------------------------
(***************************************************************************)
(* One TCP connection between the Qt client and the server as both sides   *)
(* cut its bytes into messages: ChatService::sendJson and                  *)
(* ChatClient::sendJson put the length of the body in front of it, in      *)
(* network byte order; ChatServer::onMessage and ChatClient::onReadyRead   *)
(* collect what arrives and take out every complete message.               *)
(*                                                                         *)
(* TCP keeps the order of the bytes and hands them over in pieces of any   *)
(* size.  One reading action is one callback with its whole loop.  Base    *)
(* stands for 256 and Limit for 1 MiB: like there, Limit is a byte 1 (16)  *)
(* in the second place, and no byte of a JSON text is as small as that.    *)
(***************************************************************************)
EXTENDS Integers, Sequences, SequencesExt

CONSTANTS Base, HeaderSize, Limit,
          Bodies,       \* JSON texts
          MaxSends      \* messages written by each side

ASSUME FramingAssumption ==
    /\ Base \in Nat /\ HeaderSize \in Nat /\ Limit \in Nat
    /\ Base > 1 /\ Limit < Base ^ HeaderSize
    /\ \A b \in Bodies : b \in Seq(1..(Base - 1)) /\ b # <<>>

Sides == {"client", "server"}
Other(s) == IF s = "client" THEN "server" ELSE "client"

VARIABLES
    wire,       \* bytes on their way to each side
    buf,        \* Buffer of the server, m_recvBuf of the client
    written,    \* messages each side has written
    handled,    \* messages each side has taken out
    thrown,     \* whether a side has thrown its buffer away
    open        \* the client's socket is connected

framing == <<wire, buf, written, handled, thrown, open>>

Both(x) == [s \in Sides |-> x]

FramingTypeOK ==
    /\ wire \in [Sides -> Seq(0..(Base - 1))]
    /\ buf \in [Sides -> Seq(0..(Base - 1))]
    /\ written \in [Sides -> Seq(Bodies)]
    /\ handled \in [Sides -> Seq(Seq(0..(Base - 1)))]
    /\ thrown \in [Sides -> BOOLEAN]
    /\ open \in BOOLEAN

FramingInit ==
    /\ wire = Both(<<>>)
    /\ buf = Both(<<>>)
    /\ written = Both(<<>>)
    /\ handled = Both(<<>>)
    /\ thrown = Both(FALSE)
    /\ open = TRUE

----------------------------------------------------------------------------
(* htonl, qToBigEndian of a size cut to the width of the header *)
Header(n) == [k \in 1..HeaderSize |-> (n \div Base ^ (HeaderSize - k)) % Base]

(* ntohl, qFromBigEndian *)
Value(h) ==
    LET v[k \in 0..HeaderSize] == IF k = 0 THEN 0 ELSE Base * v[k - 1] + h[k]
    IN  v[HeaderSize]

Frame(body) == Header(Len(body)) \o body

BadLength(n) == n = 0 \/ n > Limit

(* Mutant: one message per callback *)
DrainOnce(b, out) ==
    LET n == Value(SubSeq(b, 1, HeaderSize))
    IN  IF Len(b) < HeaderSize THEN [rest |-> b, out |-> out, bad |-> FALSE]
        ELSE IF BadLength(n) THEN [rest |-> <<>>, out |-> out, bad |-> TRUE]
        ELSE IF Len(b) < HeaderSize + n THEN [rest |-> b, out |-> out, bad |-> FALSE]
        ELSE [rest |-> SubSeq(b, HeaderSize + n + 1, Len(b)),
              out |-> Append(out, SubSeq(b, HeaderSize + 1, HeaderSize + n)), bad |-> FALSE]

(* The loop of both callbacks: the messages taken out, what is left, and   *)
(* whether it stopped at a length that cannot be                           *)
RECURSIVE Drain(_, _)
Drain(b, out) ==
    LET n == Value(SubSeq(b, 1, HeaderSize))
    IN  IF Len(b) < HeaderSize THEN [rest |-> b, out |-> out, bad |-> FALSE]
        ELSE IF BadLength(n) THEN [rest |-> <<>>, out |-> out, bad |-> TRUE]
        ELSE IF Len(b) < HeaderSize + n THEN [rest |-> b, out |-> out, bad |-> FALSE]
        ELSE Drain(SubSeq(b, HeaderSize + n + 1, Len(b)),
                   Append(out, SubSeq(b, HeaderSize + 1, HeaderSize + n)))

Reads(s, n) ==
    LET d == Drain(buf[s] \o SubSeq(wire[s], 1, n), handled[s])
    IN  /\ wire' = [wire EXCEPT ![s] = SubSeq(@, n + 1, Len(@))]
        /\ buf' = [buf EXCEPT ![s] = d.rest]
        /\ handled' = [handled EXCEPT ![s] = d.out]
        /\ thrown' = [thrown EXCEPT ![s] = @ \/ d.bad]
        /\ UNCHANGED written

----------------------------------------------------------------------------
(* sendJson: the limit is not looked at *)
SendJson(s) ==
    /\ open
    /\ Len(written[s]) < MaxSends
    /\ \E body \in Bodies :
         /\ wire' = [wire EXCEPT ![Other(s)] = @ \o Frame(body)]
         /\ written' = [written EXCEPT ![s] = Append(@, body)]
    /\ UNCHANGED <<buf, handled, thrown, open>>

(* ChatServer::onMessage: a body that does not parse is logged, and the    *)
(* loop goes on; a bad length empties the buffer, the connection stays     *)
OnMessage ==
    /\ \E n \in 1..Len(wire["server"]) : Reads("server", n)
    /\ UNCHANGED open

(* ChatClient::onReadyRead: a bad length also aborts the connection; what  *)
(* was on its way is lost                                                  *)
OnReadyRead ==
    /\ open
    /\ \E n \in 1..Len(wire["client"]) :
         IF Drain(buf["client"] \o SubSeq(wire["client"], 1, n), <<>>).bad
         THEN \E lost \in 0..Len(wire["server"]) :
                /\ handled' = [handled EXCEPT !["client"] =
                                 Drain(buf["client"] \o SubSeq(wire["client"], 1, n), @).out]
                /\ buf' = [buf EXCEPT !["client"] = <<>>]
                /\ wire' = [client |-> <<>>, server |-> SubSeq(wire["server"], 1, lost)]
                /\ thrown' = [thrown EXCEPT !["client"] = TRUE]
                /\ open' = FALSE
                /\ UNCHANGED written
         ELSE Reads("client", n) /\ UNCHANGED open

FramingNext ==
    \/ \E s \in Sides : SendJson(s)
    \/ OnMessage
    \/ OnReadyRead

FramingSpec == FramingInit /\ [][FramingNext]_framing

----------------------------------------------------------------------------
Fits(s) == \A i \in DOMAIN written[s] : Len(written[s][i]) <= Limit

(* A side never keeps a complete message back, nor more than one message's *)
(* worth of bytes: when nothing is on its way, all that was written to it  *)
(* has been handled.                                                       *)
NothingHeldBack ==
    \A s \in Sides :
        /\ Len(buf[s]) < HeaderSize + Limit
        /\ (open /\ wire[s] = <<>> /\ ~thrown[s]) => handled[s] = written[Other(s)]

(* However TCP cuts the bytes, each side takes out the messages that were  *)
(* written to it, in their order and nothing else: the client always, the  *)
(* server as long as no message was over the limit (onMessage goes on      *)
(* reading in the middle of such a message).  A message over the limit is  *)
(* not delivered in part: neither it nor any message behind it reaches the *)
(* client's handleMessage.                                                 *)
FramesExact ==
    /\ FramingTypeOK
    /\ \A s \in Sides : (s = "client" \/ Fits("client")) =>
          IsPrefix(handled[s], written[Other(s)])
    /\ \A i \in DOMAIN written["server"] :
          Len(written["server"][i]) > Limit => Len(handled["client"]) < i
    /\ NothingHeldBack
============================================================================
