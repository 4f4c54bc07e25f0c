------------------------------ MODULE FileLayer ------------------------------
(***************************************************************************)
(* Handles and positions of the file layer (gba/sdk/src/file.c with its     *)
(* POSIX calls) over its two backends: the cartridge (cart_file.c), which   *)
(* keeps slots of its own, and the MCU's storage (the remote operations of  *)
(* storage_client.c), whose handles and positions the MCU keeps.            *)
(*                                                                          *)
(* A call on the storage may be refused, or stay without an answer although *)
(* the MCU did it.  The contents of files, the choice of a backend by the   *)
(* path and calls that keep no state (stat, remove, rename ...) are left    *)
(* out; a call with a handle that is not open changes nothing.              *)
(***************************************************************************)
EXTENDS Integers, FiniteSets, Tables

CONSTANTS
  MaxHandles,      \* CL_FILE_MAX_HANDLES
  MaxCart,         \* CL_CART_MAX_HANDLES
  MaxRemote,       \* handles the MCU gives out
  Size,            \* bytes of every file
  Huge             \* UINT64_MAX: positions are modulo Huge + 1

ASSUME FileAssumption ==
  /\ MaxHandles \in Nat \ {0} /\ MaxCart \in Nat \ {0} /\ MaxRemote \in Nat \ {0}
  /\ Size \in Nat /\ Huge \in Nat /\ Size < Huge

VARIABLES
  handles,   \* g_slots of file.c; of a slot that is not free, why it may be wrong
  cart,      \* g_slots of cart_file.c
  remote,    \* the MCU's handles and their positions
  unsaved,   \* the cartridge has bytes that were written and not flushed
  events     \* what happened that lets a backend's handle lose its owner

fileVars == <<handles, cart, remote, unsaved, events>>

Handle == 1 .. MaxHandles
Local == 1 .. MaxCart
Position == 0 .. Huge
Free == [backend |-> "none"]
Shut == [open |-> FALSE]
InUse(h) == handles[h].backend # "none"

FileTypeOK ==
  /\ DOMAIN handles = Handle /\ DOMAIN cart = Local /\ DOMAIN remote \subseteq 1 .. MaxRemote
  /\ \A h \in Handle : InUse(h) =>
       /\ handles[h].backend \in {"cart", "remote"} /\ handles[h].offset \in Position
       /\ handles[h].local \in IF handles[h].backend = "cart" THEN Local ELSE 1 .. MaxRemote
       /\ handles[h].why \subseteq {"lost", "clamped"}
  /\ \A l \in Local : cart[l].open =>
       /\ cart[l].offset \in Position
       /\ cart[l].write \in BOOLEAN /\ cart[l].flushed \in BOOLEAN
  /\ \A r \in DOMAIN remote : remote[r] \in Position
  /\ unsaved \in BOOLEAN
  /\ events \subseteq {"lost", "reset", "driver", "torn"}

FileInit ==
  /\ handles = [h \in Handle |-> Free] /\ cart = [l \in Local |-> Shut] /\ remote = <<>>
  /\ unsaved = FALSE /\ events = {}

First(S) == CHOOSE i \in S : \A j \in S : i <= j
FreeHandles == {h \in Handle : ~InUse(h)}

-----------------------------------------------------------------------------
\* cl_file_open: the first free slot, if the backend can open the file.
Opened(backend, local) ==
  handles' = [handles EXCEPT ![First(FreeHandles)] =
              [backend |-> backend, local |-> local, offset |-> 0, why |-> {}]]

OpenCart(write) ==
  /\ FreeHandles # {} /\ \E l \in Local : ~cart[l].open
  /\ LET l == First({k \in Local : ~cart[k].open})
     IN  /\ Opened("cart", l)
         /\ cart' = [cart EXCEPT ![l] = [open |-> TRUE, write |-> write, offset |-> 0,
                                          flushed |-> FALSE]]
  /\ UNCHANGED <<remote, unsaved, events>>

OpenRemote(r) ==
  /\ FreeHandles # {} /\ r \notin DOMAIN remote
  /\ remote' = Put(remote, r, 0)
  /\ \/ Opened("remote", r) /\ UNCHANGED events
     \/ UNCHANGED handles /\ events' = events \cup {"lost"}
  /\ UNCHANGED <<cart, unsaved>>

\* cl_file_close, cl_posix_close: the slot is free whatever the backend says; the
\* mutant keeps it if the backend failed.
CloseIfDone(h, done) ==
  handles' = IF done THEN [handles EXCEPT ![h] = Free] ELSE handles
Closed(h, done) == handles' = [handles EXCEPT ![h] = Free]

CartOpen(h) == handles[h].backend = "cart" /\ cart[handles[h].local].open
RemoteOpen(h) == handles[h].backend = "remote" /\ handles[h].local \in DOMAIN remote

\* cart_close flushes what was written since the last flush.
CloseCart(h, done) ==
  /\ InUse(h) /\ CartOpen(h)
  /\ LET c == cart[handles[h].local]
     IN  IF c.write /\ ~c.flushed
         THEN unsaved' = (unsaved /\ ~done) /\ events' = IF done THEN events
                                                         ELSE events \cup {"torn"}
         ELSE done /\ UNCHANGED <<unsaved, events>>
  /\ cart' = [cart EXCEPT ![handles[h].local] = Shut]
  /\ Closed(h, done)
  /\ UNCHANGED remote

CloseRemote(h, done) ==
  /\ InUse(h) /\ RemoteOpen(h)
  /\ \/ remote' = Drop(remote, handles[h].local) /\ UNCHANGED events
     \/ ~done /\ UNCHANGED remote /\ events' = events \cup {"lost"}
  /\ Closed(h, done)
  /\ UNCHANGED <<cart, unsaved>>

\* A handle whose backend was replaced or reset under it.
CloseStale(h) ==
  /\ InUse(h) /\ ~CartOpen(h) /\ ~RemoteOpen(h)
  /\ Closed(h, FALSE)
  /\ UNCHANGED <<cart, remote, unsaved, events>>

\* cl_file_reset_backends followed by a new registration; cl_cart_set_driver.
ResetBackends ==
  /\ handles' = [h \in Handle |-> Free]
  /\ events' = events \cup {"reset"}
  /\ UNCHANGED <<cart, remote, unsaved>>

SetDriver ==
  /\ cart' = [l \in Local |-> Shut]
  /\ unsaved' = FALSE
  /\ events' = events \cup {"driver"}
  /\ UNCHANGED <<handles, remote>>

-----------------------------------------------------------------------------
(* What a call on an open handle can do to the pair of its offset in file.c *)
(* and its position in the backend; n is what it moved.                     *)

Pos(h) == IF handles[h].backend = "cart" THEN cart[handles[h].local].offset
          ELSE remote[handles[h].local]
Pair(h) == [off |-> handles[h].offset, pos |-> Pos(h), ok |-> TRUE, n |-> 0,
            why |-> handles[h].why]
Plus(position, n) == (position + n) % (Huge + 1)
Bad(p) == [p EXCEPT !.ok = FALSE]
Blamed(p, why) == [p EXCEPT !.why = @ \cup {why}]

\* A seek of the storage may also be done in vain, or end at the end of the file.
Sought(p, o, backend) ==
  LET done == [p EXCEPT !.off = o, !.pos = o, !.ok = TRUE]
  IN  {done, Bad(p)} \cup
      IF backend = "cart" THEN {}
      ELSE {Blamed(Bad([p EXCEPT !.pos = o]), "lost")} \cup
           IF o > Size THEN {Blamed([done EXCEPT !.pos = Size], "clamped")} ELSE {}

\* cl_file_read, cl_file_write: both sides move on by what was moved; the mutant
\* counts what was asked for.
MovedAsAsked(p, n, asked) ==
  [p EXCEPT !.off = Plus(@, asked), !.pos = Plus(@, n), !.n = n, !.ok = TRUE]
Moved(p, n, asked) ==
  [p EXCEPT !.off = Plus(@, n), !.pos = Plus(@, n), !.n = n, !.ok = TRUE]

Transferred(p, asked, backend) ==
  LET most == IF p.pos > Size THEN 0 ELSE IF Size - p.pos < asked THEN Size - p.pos ELSE asked
  IN  {Moved(p, n, asked) : n \in 0 .. most} \cup {Bad(p)} \cup
      IF backend = "cart" THEN {}
      ELSE {Blamed(Bad([p EXCEPT !.pos = @ + n]), "lost") : n \in 1 .. most}

\* cl_posix_lseek; a target before the start is the start.
Target(base, delta) == IF base + delta < 0 THEN 0 ELSE Plus(base, delta)
Lsought(p, delta, whence, backend) ==
  CASE whence = "set" -> Sought(p, delta, backend)
    [] whence = "cur" -> Sought(p, Target(p.off, delta), backend)
    [] whence = "end" ->
         UNION {IF q.ok THEN Sought(q, Target(q.off, delta), backend) ELSE {q} :
                  q \in Sought(p, Huge, backend)}

\* cl_posix_pread, cl_posix_pwrite: seek, transfer, seek back if that works.
Positioned(p, asked, o, backend) ==
  UNION {IF ~q.ok THEN {q}
         ELSE UNION {{[s EXCEPT !.ok = r.ok] : s \in Sought(r, p.off, backend)} :
                       r \in Transferred(q, asked, backend)} :
           q \in Sought(p, o, backend)}

\* cart_write, cart_truncate: a handle knows that it has to flush.
Flushed(was, wrote) == was /\ ~wrote

\* The pair after a call, written back.
Becomes(h, p, wrote) ==
  /\ handles' = [handles EXCEPT ![h].offset = p.off, ![h].why = p.why]
  /\ IF handles[h].backend = "cart"
     THEN /\ cart' = [cart EXCEPT ![handles[h].local].offset = p.pos,
                                  ![handles[h].local].flushed = Flushed(@, wrote)]
          /\ UNCHANGED remote
     ELSE remote' = Put(remote, handles[h].local, p.pos) /\ UNCHANGED cart

\* A cartridge that was written to is unsaved; its handle does not know it if the
\* write failed half way.
TransferBecomes(h, p, writes) ==
  LET touches == writes /\ CartOpen(h)
  IN  /\ Becomes(h, p, touches /\ p.ok /\ p.n > 0)
      /\ \/ unsaved' = (unsaved \/ (touches /\ p.n > 0)) /\ UNCHANGED events
         \/ touches /\ ~p.ok /\ unsaved' = TRUE /\ events' = events \cup {"torn"}

Live(h, writes) ==
  /\ InUse(h) /\ (CartOpen(h) \/ RemoteOpen(h))
  /\ writes /\ CartOpen(h) => cart[handles[h].local].write

Transfer(h, asked, writes) ==
  /\ Live(h, writes)
  /\ \E p \in Transferred(Pair(h), asked, handles[h].backend) : TransferBecomes(h, p, writes)

TransferAt(h, asked, o, writes) ==
  /\ Live(h, writes)
  /\ \E p \in Positioned(Pair(h), asked, o, handles[h].backend) : TransferBecomes(h, p, writes)

Lseek(h, delta, whence) ==
  /\ Live(h, FALSE) /\ (whence = "set" => delta >= 0)
  /\ \E p \in Lsought(Pair(h), delta, whence, handles[h].backend) : Becomes(h, p, FALSE)
  /\ UNCHANGED <<unsaved, events>>

\* cl_file_flush, cl_posix_fsync; cart_truncate has the same effect as a write of
\* nothing, and the storage has no operation for it.
Flush(h) ==
  /\ Live(h, FALSE) /\ CartOpen(h)
  /\ cart' = [cart EXCEPT ![handles[h].local].flushed = TRUE]
  /\ unsaved' = FALSE
  /\ UNCHANGED <<handles, remote, events>>

Truncate(h) ==
  /\ Live(h, TRUE) /\ CartOpen(h)
  /\ cart' = [cart EXCEPT ![handles[h].local].flushed = Flushed(@, TRUE)]
  /\ unsaved' = TRUE
  /\ UNCHANGED <<handles, remote, events>>

FileNext ==
  \/ \E write \in BOOLEAN : OpenCart(write)
  \/ \E r \in 1 .. MaxRemote : OpenRemote(r)
  \/ \E h \in Handle, done \in BOOLEAN : CloseCart(h, done) \/ CloseRemote(h, done)
  \/ ResetBackends \/ SetDriver
  \/ \E h \in Handle :
       \/ CloseStale(h) \/ Flush(h) \/ Truncate(h)
       \/ \E asked \in 1 .. Size, writes \in BOOLEAN :
            \/ Transfer(h, asked, writes)
            \/ \E o \in 0 .. Size : TransferAt(h, asked, o, writes)
       \/ \E delta \in -1 .. Size, whence \in {"set", "cur", "end"} : Lseek(h, delta, whence)

FileSpec == FileInit /\ [][FileNext]_fileVars

-----------------------------------------------------------------------------
(* Properties.                                                              *)

\* file.c:191-226, 672-811: the offset file.c keeps, which tell and lseek report, is
\* the backend's position, unless a call on the storage was done in vain or a seek
\* ended at the end of the file: also after lseek, pread and pwrite, whichever of
\* their steps failed.
PositionsAgree ==
  \A h \in Handle : InUse(h) /\ handles[h].why = {} /\ (CartOpen(h) \/ RemoteOpen(h))
                    /\ events \cap {"driver", "reset"} = {} => handles[h].offset = Pos(h)

\* file.c:131-182, cart_file.c:97-107, 169: every handle of a backend has one owner,
\* unless the storage lost an answer, the backends were reset or the driver replaced; and
\* when nobody has the cartridge open, what was written to it was flushed, unless a
\* flush or a write failed (cart_file.c:164-181, 302-307).
Owners(backend, local) ==
  {h \in Handle : handles[h].backend = backend /\ handles[h].local = local}
OneOwner ==
  events \subseteq {"torn"} =>
    /\ \A l \in Local : Cardinality(Owners("cart", l)) = IF cart[l].open THEN 1 ELSE 0
    /\ \A r \in 1 .. MaxRemote :
         Cardinality(Owners("remote", r)) = IF r \in DOMAIN remote THEN 1 ELSE 0
    /\ events = {} /\ (\A l \in Local : ~cart[l].open) => ~unsaved

=============================================================================
