------------------------------ MODULE DirListing ------------------------------
(***************************************************************************)
(* Reading a directory page by page while it changes: opendir and readdir   *)
(* (gba/sdk/src/file.c) over pages of the MCU or over a backend that only   *)
(* lists everything, and list_dir of the storage client                     *)
(* (gba/sdk/src/storage_client.c).  An entry is a name and the room it      *)
(* takes; names are numbered as they are created, at the end.               *)
(***************************************************************************)
EXTENDS Integers, Sequences, SequencesExt, FiniteSetsExt

CONSTANTS
  Costs,       \* room an entry takes; 0 is that of one without a name
  PageMax,     \* entries of a page (8)
  AnswerRoom,  \* room of an answer of the MCU
  DirRoom,     \* room of cl_posix_dir_t
  GuardMax,    \* pages list_dir follows (4096)
  MaxNames     \* bound on the entries that ever exist

ASSUME ListingAssumption ==
  /\ Costs \cup {AnswerRoom, DirRoom, GuardMax, MaxNames} \subseteq Nat
  /\ PageMax \in Nat \ {0} /\ AnswerRoom <= DirRoom

VARIABLES
  way,        \* who lists: "paged" and "local" for readdir, "whole" for list_dir
  entries,    \* the directory: [name, cost]
  given,      \* names given so far
  atOpening,  \* names that had been given when it was opened
  shifted,    \* an entry has been removed
  dir,        \* cl_posix_dir_t, or the variables of list_dir
  told,       \* names the application has got
  last        \* what the last call returned

dirVars == <<way, entries, given, atOpening, shifted, dir, told, last>>

LIST_DONE == -1
Slice(s, from, n) == SubSeq(s, from + 1, Min({from + n, Len(s)}))
NamesOf(s) == [i \in 1 .. Len(s) |-> s[i].name]
RoomOf(s) == FoldLeft(LAMBDA sum, e : sum + e.cost, 0, s)
NoneListed == [open |-> FALSE, next_index |-> 0, entry_count |-> 0, rest |-> <<>>, guard |-> 0]

DirInit ==
  /\ way \in {"paged", "local", "whole"}
  /\ entries = <<>> /\ given = 0 /\ atOpening = 0 /\ shifted = FALSE
  /\ dir = NoneListed /\ told = <<>> /\ last = "none"

-----------------------------------------------------------------------------
\* Others create and remove files.
CreateFile(cost) ==
  /\ given < MaxNames /\ given' = given + 1
  /\ entries' = Append(entries, [name |-> given', cost |-> cost])
  /\ UNCHANGED <<way, atOpening, shifted, dir, told, last>>

RemoveFile(i) ==
  /\ dir.open /\ ~shifted /\ i \in DOMAIN entries
  /\ entries' = RemoveAt(entries, i) /\ shifted' = TRUE
  /\ UNCHANGED <<way, given, atOpening, dir, told, last>>

-----------------------------------------------------------------------------
\* What the MCU may answer from entry `from` on: at least one entry if there is one, and
\* where to go on.
Answers(from) ==
  LET left == Slice(entries, from, Len(entries))
      fits == {n \in 1 .. PageMax : n <= Len(left) /\ RoomOf(SubSeq(left, 1, n)) <= AnswerRoom}
      page(n) == [listed |-> SubSeq(left, 1, n),
                  next_index |-> IF n = Len(left) THEN LIST_DONE ELSE from + n]
  IN  IF left = <<>> THEN {page(0)} ELSE {page(n) : n \in fits}

\* remote_list_page, and the same in remote_list_dir: an entry without a name is an error.
RemotePages(from) == {p \in Answers(from) : \A i \in DOMAIN p.listed : p.listed[i].cost # 0}

\* cl_file_list_dir_page over a backend's list_dir: entries before `from` are counted and
\* left out, and the first one too many is where to go on.  The mutant goes on after it.
FallbackPastIt(from) ==
  {[listed |-> Slice(entries, from, PageMax),
    next_index |-> IF Len(entries) > from + PageMax THEN from + PageMax + 1 ELSE LIST_DONE]}
FallbackPage(from) ==
  {[listed |-> Slice(entries, from, PageMax),
    next_index |-> IF Len(entries) > from + PageMax THEN from + PageMax ELSE LIST_DONE]}

\* Pages fetch_dir_page can get: those that fit into the buffer (fill_dir_cb).
Pages(from) ==
  {p \in IF way = "local" THEN FallbackPage(from) ELSE RemotePages(from) :
     RoomOf(p.listed) <= DirRoom}
WithPage(p) ==
  [dir EXCEPT !.next_index = p.next_index, !.entry_count = Len(p.listed), !.rest = p.listed]

\* cl_posix_opendir, with the first page or without success.
OpenDir(fails) ==
  /\ way # "whole" /\ ~dir.open /\ last = "none"
  /\ IF fails \/ Pages(0) = {}
     THEN dir' = NoneListed /\ last' = "error"
     ELSE /\ \E p \in Pages(0) : dir' = [WithPage(p) EXCEPT !.open = TRUE]
          /\ last' = "open"
  /\ atOpening' = given
  /\ UNCHANGED <<way, entries, given, shifted, told>>

\* An entry is taken from the page; one without a name closes the directory.
TakeEntry(d) ==
  IF Head(d.rest).cost = 0
  THEN dir' = [d EXCEPT !.open = FALSE] /\ last' = "error" /\ UNCHANGED told
  ELSE /\ dir' = [d EXCEPT !.rest = Tail(@)]
       /\ told' = Append(told, Head(d.rest).name) /\ last' = "entry"

\* cl_posix_readdir.  A page that cannot be fetched leaves all as it is.
ReadDir(fails) ==
  /\ way # "whole" /\ dir.open
  /\ IF dir.rest # <<>> THEN TakeEntry(dir)
     ELSE IF dir.next_index = LIST_DONE \/ dir.entry_count = 0
     THEN last' = "end" /\ UNCHANGED <<dir, told>>
     ELSE IF fails \/ Pages(dir.next_index) = {}
     THEN last' = "error" /\ UNCHANGED <<dir, told>>
     ELSE \E p \in Pages(dir.next_index) :
            IF p.listed = <<>> THEN dir' = WithPage(p) /\ last' = "end" /\ UNCHANGED told
            ELSE TakeEntry(WithPage(p))
  /\ UNCHANGED <<way, entries, given, atOpening, shifted>>

CloseDir ==
  /\ way # "whole" /\ dir.open
  /\ dir' = NoneListed /\ last' = "closed"
  /\ UNCHANGED <<way, entries, given, atOpening, shifted, told>>

-----------------------------------------------------------------------------
\* remote_list_dir: a page is listed to the application, which may stop it.
ListDir(fails) ==
  /\ way = "whole" /\ last \in {"none", "page"}
  /\ atOpening' = IF last = "none" THEN given ELSE atOpening
  /\ IF fails \/ RemotePages(dir.next_index) = {}
     THEN last' = "error" /\ dir' = NoneListed /\ UNCHANGED told
     ELSE \E p \in RemotePages(dir.next_index), stop \in BOOLEAN :
            /\ told' = told \o NamesOf(IF stop THEN Slice(p.listed, 0, 1) ELSE p.listed)
            /\ IF stop /\ p.listed # <<>> THEN last' = "error" /\ dir' = NoneListed
               ELSE IF p.next_index = LIST_DONE THEN last' = "end" /\ dir' = NoneListed
               ELSE IF dir.guard + 1 > GuardMax THEN last' = "error" /\ dir' = NoneListed
               ELSE /\ last' = "page"
                    /\ dir' = [dir EXCEPT !.open = TRUE, !.next_index = p.next_index, !.guard = @ + 1]
  /\ UNCHANGED <<way, entries, given, shifted>>

DirNext ==
  \/ \E cost \in Costs : CreateFile(cost)
  \/ \E i \in 1 .. MaxNames : RemoveFile(i)
  \/ \E fails \in BOOLEAN : OpenDir(fails) \/ ReadDir(fails) \/ ListDir(fails)
  \/ CloseDir

DirSpec == DirInit /\ [][DirNext]_dirVars

-----------------------------------------------------------------------------
\* file.c:950-1080, storage_client.c:818-935: however the pages fall and whichever of them
\* fail and are fetched again, no entry is told twice or out of order, also when files come
\* and go meanwhile; and until one goes, none is left out before the end.
ListedOnce ==
  /\ \A i \in 2 .. Len(told) : told[i - 1] < told[i]
  /\ ~shifted => told = [i \in 1 .. Len(told) |-> i]
  /\ last = "end" /\ ~shifted => Len(told) >= atOpening
=============================================================================
