------------------------------- MODULE SipTcp -------------------------------
(***************************************************************************)
(* SIP over TCP (SipTcp.cpp): messages are cut out of the segments of a    *)
(* connection.  Nothing is put in order: a segment either begins with a    *)
(* SIP message, or continues, at exactly the sequence number that is       *)
(* expected next, a stream that has an unfinished message.                 *)
(*                                                                         *)
(* The bytes a connection carries one way are the numbers from 0 on; byte  *)
(* p has sequence number (isn + p) % SeqModulus.  Bodies that contain the  *)
(* beginning of a SIP message at the edge of a segment are left out, and   *)
(* so are connections that follow each other on the same ports, which the  *)
(* code cannot tell apart: it compares addresses and ports, the model the  *)
(* connection.                                                             *)
(***************************************************************************)
EXTENDS Naturals, Sequences, FiniteSets, SequencesExt, FiniteSetsExt

CONSTANTS
  SeqModulus,      \* 2^32
  StreamTimeout    \* 60 seconds, in ticks of the clock

ASSUME SipTcpAssumption == SeqModulus \in Nat \ {0} /\ StreamTimeout \in Nat

\* A connection: its addresses, first sequence number and the lengths of its
\* messages.  Where message i begins and ends:
Begins(conn, i) == FoldSeq(+, 0, SubSeq(conn.messages, 1, i - 1))
Ends(conn, i) == Begins(conn, i + 1)
Numbers(conn) == 1..Len(conn.messages)

\* ntohl(tcpHeader->seq) of a segment.
Seq32(seg) == (seg.conn.isn + seg.from) % SeqModulus

\* The payload begins with a SIP method or response.  Each byte of the model
\* stands for at least as many as that takes.
StartsLikeSip(seg) ==
  seg.len > 0 /\ \E i \in Numbers(seg.conn) : Begins(seg.conn, i) = seg.from

\* ParseSipStream of the bytes from..(to - 1), which begin with a message: the
\* messages that are complete, and how far they reach.
Complete(conn, from, to) ==
  {i \in Numbers(conn) : from <= Begins(conn, i) /\ Ends(conn, i) <= to}
ParseSipStream(conn, from, to) ==
  Max({from} \cup {Ends(conn, i) : i \in Complete(conn, from, to)})

\* A stream with an unfinished message: first, consumed and end delimit its
\* buffer and the part that was parsed.
NewStream(seg, consumed, now) ==
  [conn |-> seg.conn, first |-> seg.from, consumed |-> consumed,
   end |-> seg.from + seg.len,
   lastSeqNo |-> Seq32(seg),
   expectingSeqNo |-> (Seq32(seg) + seg.len) % SeqModulus,   \* a sum of 32 bits
   entryTime |-> now]

\* Slip: what was parsed is found again with every segment.
ContinueFromFirst(stream, seg) ==
  [stream EXCEPT !.end = @ + seg.len,
                 !.consumed = ParseSipStream(seg.conn, stream.first, stream.end + seg.len)]

\* A segment is appended to a stream and its messages are parsed.  The member
\* that is added to has 64 bits: it does not wrap.
Continue(stream, seg) ==
  [stream EXCEPT !.end = @ + seg.len,
                 !.consumed = ParseSipStream(seg.conn, @, stream.end + seg.len),
                 !.expectingSeqNo = @ + seg.len]

\* A stream that is finished with, or too old, is erased.
StaysOn(stream, now) ==
  stream.consumed # stream.end /\ now - stream.entryTime < StreamTimeout

\* TrySipTcp: the streams after the segment, and the messages it reports.  The
\* streams are a set: what is done with one does not depend on the others, and
\* no two of a connection have the same lastSeqNo.
TrySipTcp(streams, seg, now) ==
  LET to == seg.from + seg.len
      consumed == ParseSipStream(seg.conn, seg.from, to)
      awaiting == {stream \in streams : stream.conn = seg.conn
                                        /\ stream.expectingSeqNo = Seq32(seg)}
      continued == {Continue(stream, seg) : stream \in awaiting}
  IN IF \E stream \in streams : stream.conn = seg.conn /\ stream.lastSeqNo >= Seq32(seg)
     THEN [streams |-> streams, reported |-> {}]
     ELSE IF StartsLikeSip(seg)
     THEN [streams |-> IF consumed = to THEN streams
                       ELSE streams \cup {NewStream(seg, consumed, now)},
           reported |-> Complete(seg.conn, seg.from, to)]
     ELSE [streams |-> {stream \in (streams \ awaiting) \cup continued : StaysOn(stream, now)},
           reported |-> UNION {Complete(seg.conn, stream.consumed, stream.end + seg.len) :
                                 stream \in awaiting}]
=============================================================================
