-------------------------------- MODULE Wire --------------------------------
(***************************************************************************)
(* The iroh connections under the tunnel (external: polymorph-iroh), as    *)
(* the client and the listener use them, and the frames they carry         *)
(* (tunnel/src/lib.rs).  A connection has one bidirectional stream.  It    *)
(* never reorders or repeats frames, but it may die under either end at    *)
(* any moment: an end that closed, or whose stack gave the connection up,  *)
(* gets an error from every later read and write; the other end may still  *)
(* read what is in flight, or lose it and see the end at once.             *)
(***************************************************************************)
EXTENDS Integers, Sequences

CONSTANTS ACK_EVERY_BYTES,  \* units received between two ACKs
          MaxConns,         \* bound: how many connections are ever dialed
          MaxLosses         \* bound: how often a stack reports a connection lost

ASSUME AckEveryAssumption == ACK_EVERY_BYTES \in Nat \ {0}
ASSUME WireBoundsAssumption == MaxConns \in Nat \ {0} /\ MaxLosses \in Nat

Conns == 1..MaxConns

VARIABLES net,      \* the connections, in the order they are dialed
          losses    \* how many ends have lost theirs, for the bound

\* A frame: its type and the one number a property can tell it by -- the
\* payload of DATA, the count of ACK, Resume.received and HelloReply::Resumed.
Frame(t, n) == [t |-> t, n |-> n]
FrameTypes == {"data", "ack", "hello", "resume", "new", "resumed", "refused"}
Frames == [t : FrameTypes, n : Nat]

NewConn == [dialed |-> FALSE, up |-> <<>>, down |-> <<>>,
            cOpen |-> FALSE, lOpen |-> FALSE, fin |-> FALSE]

ConnType == [dialed : BOOLEAN,
             up     : Seq(Frames),   \* client to listener
             down   : Seq(Frames),   \* listener to client
             cOpen  : BOOLEAN,       \* still open at the client
             lOpen  : BOOLEAN,       \* still open at the listener
             fin    : BOOLEAN]       \* listener finished `down`
NetType == [Conns -> ConnType]

\* Endpoint::connect resolved and the client's first frame is written.
Dialed(n, c, f) ==
  [n EXCEPT ![c] = [NewConn EXCEPT !.dialed = TRUE, !.up = <<f>>,
                                   !.cOpen = TRUE, !.lOpen = TRUE]]

Undialed == {c \in Conns : ~net[c].dialed}
NextConn == CHOOSE c \in Undialed : \A d \in Undialed : c <= d

\* SendStream::write and ::finish; what an end writes to a connection the
\* other end has given up goes nowhere.
CWrite(n, c, fs) == [n EXCEPT ![c].up = IF n[c].cOpen /\ n[c].lOpen
                                        THEN @ \o fs ELSE @]
LWrite(n, c, fs) == [n EXCEPT ![c].down = IF n[c].cOpen /\ n[c].lOpen
                                          THEN @ \o fs ELSE @]
LFinish(n, c) == [n EXCEPT ![c].fin = TRUE]

\* Connection::close, or the connection being lost, at one end.
CClose(n, c) == [n EXCEPT ![c].cOpen = FALSE, ![c].down = <<>>]
LClose(n, c) == [n EXCEPT ![c].lOpen = FALSE, ![c].up = <<>>]

\* RecvStream::read can return frames, or the end of the stream.
CReadable(c) == net[c].cOpen /\ net[c].down # <<>>
LReadable(c) == net[c].lOpen /\ net[c].up # <<>>
CEnd(c) == ~net[c].cOpen \/ ~net[c].lOpen \/ (net[c].fin /\ net[c].down = <<>>)
LEnd(c) == ~net[c].lOpen \/ ~net[c].cOpen

\* SendStream::write can return an error (finishing a direction is no error).
WriteFails(c) == ~net[c].cOpen \/ ~net[c].lOpen

\* The path dies: one end's stack reports the connection lost.
Lose(c) ==
  /\ losses < MaxLosses
  /\ losses' = losses + 1
  /\ \/ net[c].cOpen /\ net' = CClose(net, c)
     \/ net[c].lOpen /\ net' = LClose(net, c)
=============================================================================
