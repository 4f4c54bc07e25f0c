------------------------------ MODULE CopyStream ------------------------------
(***************************************************************************)
(* A copy (gba/sdk/src/copy.c) from one open file to another, as            *)
(* cl_file_copy_buffered_progress of file.c sets it up and ends it.  A byte *)
(* is its position in the source.                                           *)
(***************************************************************************)
EXTENDS Integers, Sequences

CONSTANTS
  Sizes,    \* sizes a source may announce, 0 if it does not know
  Limits,   \* preferred and largest blocks of both sides, without 0
  Buffers,  \* buffer_size
  Unit      \* blocks are multiples of 4

ASSUME CopyAssumption ==
  /\ Sizes \subseteq Nat /\ Limits \subseteq Nat \ {0} /\ Buffers \subseteq Nat \ {0}
  /\ Unit \in Nat \ {0}

VARIABLES
  setup,    \* what the source and the sink can do; fixed
  pc,       \* where the copy is
  at,       \* the source's position
  got,      \* bytes of the block at hand
  written,  \* written_total: how many of them the sink took
  window,   \* the block is a window into the source, not yet released
  done,     \* bytes of the blocks before
  sink,     \* what the sink took
  result,   \* ok, or what failed last
  open      \* the files that are open

copyVars == <<setup, pc, at, got, written, window, done, sink, result, open>>
blockVars == <<at, got, written, window, done, sink>>

Least(a, b) == IF a < b THEN a ELSE b

\* choose_block_size
Block(s) == (Least(s.limit, s.buffer) \div Unit) * Unit

\* The source holds real bytes, whatever it announces.
Setups == [size : Sizes, real : Sizes, limit : Limits, buffer : Buffers,
           direct : BOOLEAN, plain : BOOLEAN, directWrite : BOOLEAN]

CopyInit ==
  /\ setup \in Setups
  /\ pc = "start" /\ at = 0 /\ got = 0 /\ written = 0 /\ window = FALSE /\ done = 0
  /\ sink = <<>> /\ result = "ok" /\ open = {}

Return(why) == pc' = "close" /\ result' = why

-----------------------------------------------------------------------------
\* The files are opened, and the copy called with both of them.
OpenFiles ==
  /\ pc = "start"
  /\ \/ open' = {} /\ pc' = "closed" /\ result' = "open"          \* the source
     \/ open' = {"src"} /\ Return("open")                         \* the destination
     \/ open' = {"src", "dst"} /\ Return("truncate")
     \/ /\ open' = {"src", "dst"}
        /\ IF (setup.direct \/ setup.plain) /\ Block(setup) >= Unit
           THEN pc' = "fetch" /\ UNCHANGED result ELSE Return("setup")
  /\ UNCHANGED <<setup, blockVars>>

\* cl_file_close of the destination, then of the source; the first error counts.
CloseBoth == open' = {}

CloseFiles ==
  /\ pc = "close"
  /\ CloseBoth
  /\ pc' = "closed"
  /\ result' \in {result, IF result = "ok" THEN "close" ELSE result}
  /\ UNCHANGED <<setup, blockVars>>

-----------------------------------------------------------------------------
More == setup.size = 0 \/ done < setup.size
Want == IF setup.size # 0 THEN Least(Block(setup), setup.size - done) ELSE Block(setup)
Left == setup.real - at

Fetched(n, direct) ==
  at' = at + n /\ got' = n /\ written' = 0 /\ window' = direct /\ pc' = "write"

\* A block through a window into the source.
FetchDirect(n) ==
  /\ pc = "fetch" /\ More /\ setup.direct
  /\ n \in 1 .. Least(Want, Left)
  /\ Fetched(n, TRUE)
  /\ UNCHANGED <<setup, done, sink, result, open>>

\* A window longer than asked for is given back at once.
FetchTooMuch ==
  /\ pc = "fetch" /\ More /\ setup.direct /\ Left > Want
  /\ at' = at + Want + 1 /\ Return("too much")
  /\ UNCHANGED <<setup, got, written, window, done, sink, open>>

\* Without a window, or with an empty one, a block through the buffer.
FetchPlain(n) ==
  /\ pc = "fetch" /\ More /\ setup.plain
  /\ n \in 1 .. Least(Want, Left)
  /\ Fetched(n, FALSE)
  /\ UNCHANGED <<setup, done, sink, result, open>>

\* The source fails, in one way or the other, or has no more.
FetchFails ==
  /\ pc = "fetch" /\ More
  /\ Return("read")
  /\ UNCHANGED <<setup, blockVars, open>>

End ==
  /\ pc = "fetch"
  /\ IF setup.size # 0 /\ done # setup.size THEN Return("short")
     ELSE Return("ok") \/ Return("flush")
  /\ UNCHANGED <<setup, blockVars, open>>

-----------------------------------------------------------------------------
\* Bytes of the block after the first k; the mutant starts at the front each time.
FromFront(k, n) == [i \in 1 .. n |-> at - got + i - 1]
From(k, n) == [i \in 1 .. n |-> at - got + k + i - 1]

\* A window's bytes go through the buffer unless the sink takes windows; then it must
\* take all of them at once.
Through == window /\ ~setup.directWrite
Offered == IF Through THEN Least(got - written, Block(setup)) ELSE got - written

Write(n) ==
  /\ pc = "write" /\ written < got
  /\ n \in 1 .. Offered /\ (Through => n = Offered)
  /\ sink' = sink \o From(written, n)
  /\ written' = written + n
  /\ UNCHANGED <<setup, pc, at, got, window, done, result, open>>

\* The sink fails, or takes nothing, or some of what it must take whole; the window
\* is released whether that works or not.
WriteFails(n) ==
  /\ pc = "write" /\ written < got /\ n \in 0 .. Offered - 1
  /\ sink' = sink \o From(written, n)
  /\ window' = FALSE
  /\ Return("write")
  /\ UNCHANGED <<setup, at, got, written, done, open>>

\* The block is with the sink.  The release may fail and the progress callback may
\* stop the copy.
BlockDone(how) ==
  /\ pc = "write" /\ written = got
  /\ IF how = "release" THEN window /\ UNCHANGED <<window, done>> ELSE
       window' = FALSE /\ done' = done + got
  /\ IF how = "ok" THEN pc' = "fetch" /\ UNCHANGED result ELSE Return(how)
  /\ UNCHANGED <<setup, at, got, written, sink, open>>

CopyNext ==
  \/ OpenFiles \/ CloseFiles
  \/ \E n \in 1 .. Block(setup) : FetchDirect(n) \/ FetchPlain(n) \/ Write(n)
  \/ FetchTooMuch \/ FetchFails \/ End
  \/ \E n \in 0 .. Block(setup) : WriteFails(n)
  \/ \E how \in {"ok", "release", "progress"} : BlockDone(how)

CopySpec == CopyInit /\ [][CopyNext]_copyVars

-----------------------------------------------------------------------------
(* Properties.                                                              *)

\* copy.c:91-141: whatever the sizes of reads and partial writes, and wherever the
\* copy stops, the sink has the first bytes of the source, each once and in order; all
\* that was announced if the copy succeeded.
CopyExact ==
  /\ \A i \in 1 .. Len(sink) : sink[i] = i - 1
  /\ pc = "closed" /\ result = "ok" =>
       Len(sink) = done /\ (setup.size # 0 => done = setup.size)

\* copy.c:123-140, file.c:489-500: a copy that has returned holds no window into the
\* source, unless releasing it failed, and has closed what it opened.
NothingHeld ==
  pc = "closed" => open = {} /\ (window => result = "release")

\* copy.c:91-141, file.c:489-500: both, at every step of a copy.
CopyIsClean == CopyExact /\ NothingHeld
=============================================================================
