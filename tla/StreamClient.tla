----------------------------- MODULE StreamClient -----------------------------
(***************************************************************************)
(* A stream subscription (gba/sdk/src/stream_client.c): what its calls do   *)
(* to the client's stream and to the MCU's.  The ring between the two roles *)
(* is the queue of ByteFifo, which StreamRing implements; a block of it is  *)
(* the run of the file it was filled with (pos, len) and the offset it is   *)
(* labelled with (label).                                                   *)
(*                                                                          *)
(* A command ends in one of three ways: the MCU does it and says so; it     *)
(* refuses and does nothing; or the client gets no answer it accepts, and   *)
(* the MCU may have done it.                                                *)
(***************************************************************************)
EXTENDS Naturals, Sequences, FiniteSets, Tables

CONSTANTS
  Ids,          \* stream ids of the MCU, without 0
  FileSize,     \* bytes of the file
  Slots, Most,  \* slot_count, slot_size
  StreamWrap          \* rx_offset is modulo 2^32

ASSUME StreamAssumption ==
  /\ Ids \subseteq Nat \ {0} /\ FileSize \in Nat /\ Slots \in Nat \ {0}
  /\ Most \in Nat \ {0} /\ StreamWrap \in Nat \ {0}

VARIABLES
  stream,  \* stream_id, state, rx_offset and the ring of cl_stream_t
  server,  \* the MCU's open streams: id to the position of the next byte
  want,    \* what is left to do of the read or discard in progress
  next,    \* the byte after the last one handed to the application
  flaws    \* what went wrong since the last open or seek

streamVars == <<stream, server, want, next, flaws>>

StreamBlock == [label : 0 .. StreamWrap - 1, pos : 0 .. FileSize, len : 1 .. Most]

StreamTypeOK ==
  /\ stream.id \in Ids \cup {0} /\ stream.state \in {"idle", "open", "closed", "error"}
  /\ stream.rx \in 0 .. StreamWrap - 1
  /\ Len(stream.ring) <= Slots /\ \A i \in 1 .. Len(stream.ring) : stream.ring[i] \in StreamBlock
  /\ DOMAIN server \subseteq Ids /\ \A id \in DOMAIN server : server[id] \in 0 .. FileSize
  /\ want \in 0 .. FileSize + 1 /\ next \in 0 .. FileSize
  /\ flaws \subseteq {"lost", "moved", "trunc", "bypass", "orphan"}

\* cl_stream_reset
Fresh == [id |-> 0, state |-> "idle", rx |-> 0, ring |-> <<>>]

StreamInit ==
  stream = Fresh /\ server = <<>> /\ want = 0 /\ next = 0 /\ flaws = {}

Ring == stream.ring
Idle == want = 0
Open == Idle /\ stream.id # 0

\* A command the MCU refused, or left without an answer.
Failed(s) == [s EXCEPT !.state = "error"]

-----------------------------------------------------------------------------
\* cl_stream_open, cl_stream_subscribe_file.  The id of an answer that is lost or has
\* another length than expected is not known to anybody but the MCU.
OpenOk(id) ==
  /\ Idle /\ stream.id = 0 /\ id \in Ids \ DOMAIN server
  /\ stream' = [Fresh EXCEPT !.id = id, !.state = "open"]
  /\ server' = Put(server, id, 0)
  /\ next' = 0 /\ flaws' = flaws \cap {"orphan"}
  /\ UNCHANGED want

OpenFails(id) ==
  /\ Idle /\ stream.id = 0
  /\ stream' = Failed(Fresh)
  /\ next' = 0
  /\ \/ UNCHANGED server /\ flaws' = flaws \cap {"orphan"}
     \/ /\ id \in Ids \ DOMAIN server
        /\ server' = Put(server, id, 0) /\ flaws' = {"orphan"}
  /\ UNCHANGED want

\* cl_stream_close and cl_stream_pump; the mutant forgets the stream whatever the
\* MCU says.
CloseAlways ==
  /\ Open
  /\ stream' = [stream EXCEPT !.id = 0, !.state = "closed"]
  /\ server' \in {server, Drop(server, stream.id)}
  /\ UNCHANGED <<want, next, flaws>>

Close ==
  /\ Open
  /\ \/ /\ stream.id \in DOMAIN server
        /\ server' = Drop(server, stream.id)
        /\ \/ stream' = [stream EXCEPT !.id = 0, !.state = "closed"] /\ UNCHANGED flaws
           \/ stream' = Failed(stream) /\ flaws' = flaws \cup {"lost"}
     \/ stream' = Failed(stream) /\ UNCHANGED <<server, flaws>>
  /\ UNCHANGED <<want, next>>

\* cl_stream_poll, cl_stream_credit and cl_stream_send change nothing but the state.
Ask ==
  /\ Open
  /\ stream' = Failed(stream)
  /\ UNCHANGED <<server, want, next, flaws>>

\* cl_stream_seek
Seek(offset) ==
  /\ Open
  /\ \/ /\ stream.id \in DOMAIN server
        /\ server' = Put(server, stream.id, offset)
        /\ \/ /\ stream' = [Fresh EXCEPT !.id = stream.id, !.rx = offset % StreamWrap,
                                         !.state = "open"]
              /\ next' = offset /\ flaws' = flaws \cap {"orphan"}
           \/ stream' = Failed(stream) /\ flaws' = flaws \cup {"moved"} /\ UNCHANGED next
     \/ stream' = Failed(stream) /\ UNCHANGED <<server, next, flaws>>
  /\ UNCHANGED want

\* The application may reset the stream itself; the MCU is not told.
StreamReset ==
  /\ Idle
  /\ stream' = Fresh
  /\ flaws' = IF stream.id \in DOMAIN server THEN {"orphan"} ELSE flaws \cap {"orphan"}
  /\ next' = 0
  /\ UNCHANGED <<server, want>>

-----------------------------------------------------------------------------
(* Receiving: into a free slot, on its own or from within a read; or into   *)
(* the caller's memory, past the ring.                                      *)

Receiving == Open \/ (want > 0 /\ Ring = <<>>)
MayReceive == Receiving /\ Len(Ring) < Slots
Here == server[stream.id]

\* cl_stream_recv_slot.  With nothing received a read ends.
RecvSlot(n) ==
  /\ MayReceive /\ stream.id \in DOMAIN server
  /\ n <= FileSize - Here
  /\ IF n = 0 THEN stream' = stream /\ want' = 0
     ELSE /\ stream' = [stream EXCEPT
               !.rx = (@ + n) % StreamWrap,
               !.ring = Append(@, [label |-> stream.rx, pos |-> Here, len |-> n])]
          /\ UNCHANGED want
  /\ server' = Put(server, stream.id, Here + n)
  /\ UNCHANGED <<next, flaws>>

\* cl_stream_recv_into, cl_stream_recv_with_writer; the mutant does not count.
RecvIntoUncounted(n) ==
  /\ Open /\ stream.id \in DOMAIN server /\ n <= FileSize - Here
  /\ server' = Put(server, stream.id, Here + n)
  /\ next' = Here + n
  /\ flaws' = IF n > 0 /\ Ring # <<>> THEN flaws \cup {"bypass"} ELSE flaws
  /\ UNCHANGED <<stream, want>>

RecvInto(n) ==
  /\ Open /\ stream.id \in DOMAIN server /\ n <= FileSize - Here
  /\ stream' = [stream EXCEPT !.rx = (@ + n) % StreamWrap]
  /\ server' = Put(server, stream.id, Here + n)
  /\ next' = IF n > 0 THEN Here + n ELSE next
  /\ flaws' = IF n > 0 /\ Ring # <<>> THEN flaws \cup {"bypass"} ELSE flaws
  /\ UNCHANGED want

\* stream_recv_payload fails: refused, or without an answer, or with one longer than
\* asked for, which is drained and leaves the state as it is.
RecvFails(n) ==
  /\ Receiving
  /\ \/ stream' = Failed(stream) /\ UNCHANGED <<server, flaws>>
     \/ /\ stream.id \in DOMAIN server /\ n \in 1 .. FileSize - Here
        /\ server' = Put(server, stream.id, Here + n)
        /\ \/ stream' = Failed(stream) /\ flaws' = flaws \cup {"lost"}
           \/ UNCHANGED stream /\ flaws' = flaws \cup {"trunc"}
  /\ want' = 0
  /\ UNCHANGED next

-----------------------------------------------------------------------------
(* cl_stream_read, cl_stream_read_exact and cl_stream_discard are loops that*)
(* take from the ring and receive when it is empty; an application that     *)
(* peeks and releases takes from it, too.                                   *)

Read(n) ==
  /\ Open /\ n > 0
  /\ want' = n
  /\ UNCHANGED <<stream, server, next, flaws>>

Take(n) ==
  /\ Ring # <<>> /\ n <= Head(Ring).len
  /\ want > 0 => n = IF want < Head(Ring).len THEN want ELSE Head(Ring).len
  /\ want' = IF want > 0 THEN want - n ELSE 0
  /\ stream' = [stream EXCEPT !.ring =
       IF n = Head(@).len THEN Tail(@)
       ELSE <<[label |-> (Head(@).label + n) % StreamWrap, pos |-> Head(@).pos + n,
               len |-> Head(@).len - n]>> \o Tail(@)]
  /\ next' = Head(Ring).pos + n
  /\ UNCHANGED <<server, flaws>>

StreamNext ==
  \/ \E id \in Ids : OpenOk(id) \/ OpenFails(id)
  \/ Close \/ Ask \/ StreamReset
  \/ \E offset \in 0 .. FileSize : Seek(offset)
  \/ \E n \in 0 .. Most : RecvSlot(n) \/ RecvInto(n) \/ RecvFails(n)
  \/ \E n \in 1 .. FileSize + 1 : Read(n)
  \/ \E n \in 1 .. Most : Take(n)

StreamSpec == StreamInit /\ [][StreamNext]_streamVars

-----------------------------------------------------------------------------
(* Properties.                                                              *)

EndOf(i) == IF i = 0 THEN next ELSE Ring[i].pos + Ring[i].len

\* With no receive that failed and none past the ring, the bytes follow each other.
NoHoles ==
  flaws \subseteq {"orphan"} =>
    /\ \A i \in 1 .. Len(Ring) : Ring[i].pos = EndOf(i - 1)
    /\ Here = EndOf(Len(Ring))

\* With some, there are holes, but nothing comes twice or behind what follows it.
FileOrder ==
  "moved" \notin flaws =>
    /\ \A i \in 1 .. Len(Ring) :
         i > 1 \/ "bypass" \notin flaws => EndOf(i - 1) <= Ring[i].pos
    /\ \A i \in 0 .. Len(Ring) : EndOf(i) <= Here

\* Offsets are those of the file as long as no bytes of it were lost.
Labelled ==
  flaws \subseteq {"bypass", "orphan"} =>
    /\ \A i \in 1 .. Len(Ring) : Ring[i].label = Ring[i].pos % StreamWrap
    /\ stream.rx = Here % StreamWrap

\* The application can see that bytes were lost, or that the MCU may be somewhere else.
LossSeen == flaws \cap {"lost", "moved"} # {} => stream.state = "error"

\* stream_client.c:84-128, 264-387: whatever receive or seek loses its answer, the ring and
\* the application get bytes of the file in their order, without holes where no receive
\* failed, and labelled with their offsets; a receive past the ring leaves the ring and the
\* offsets as they are; a loss shows in the stream's state until the next seek or open.
Consecutive ==
  stream.id # 0 /\ stream.id \in DOMAIN server => NoHoles /\ FileOrder /\ Labelled /\ LossSeen

\* stream_client.c:134, 195-205: the MCU has no stream open but the client's, unless
\* an open was not answered or the application reset the stream.
NoOrphans == "orphan" \notin flaws => DOMAIN server \subseteq {stream.id}
=============================================================================
