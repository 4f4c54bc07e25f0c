--------------------------- MODULE CartridgeProofs ---------------------------
(***************************************************************************)
(* The binary search of GameDatabase, for files of any length; the save     *)
(* memories of SaveMemory: what a write has made of the memory, for         *)
(* memories of any size, units, sectors and probes that go wrong; the       *)
(* registers and windows of Mbc, for cartridges of any size; and the ROM    *)
(* of RomFlash, for chips of any regions.                                   *)
(***************************************************************************)
EXTENDS GameDatabase, SaveMemory, Mbc, RomFlash, FiniteSetTheorems, WellFoundedInduction, TLAPS

\* A database has as many records as its file is said to have.
DbShape ==
  /\ records \in [0 .. Count(records) - 1 -> Codes] /\ Count(records) \in Nat
  /\ \A i, j \in 0 .. Count(records) - 1 : i < j => records[i] < records[j]
  /\ width \in {5, 9} /\ game_code \in Codes
  /\ db_open \in BOOLEAN /\ left \in Nat /\ right \in Nat
  /\ found \in {"none", "error", "absent", "ok"}

\* What the search has excluded: the game's record is none of those before left, nor one of
\* those from right on.  It holds while the width of the records is taken for what it is.
Excluded ==
  TakenWidth = width /\ (db_open \/ found = "absent") =>
    /\ right <= Count(records)
    /\ \A i \in 0 .. Count(records) - 1 :
         (i < left => records[i] < game_code) /\ (i >= right => game_code < records[i])

\* How the configuration and the open file go with the result.
Outcome ==
  /\ found # "none" => ~db_open
  /\ found # "ok" => saved.type = "unknown"
  /\ found = "absent" => left >= right
  /\ found = "ok" /\ TakenWidth = width =>
       \E i \in DOMAIN records : records[i] = game_code /\ saved = Applied(Decoded(records[i], width))

SearchInv == DbShape /\ Excluded /\ Outcome

-----------------------------------------------------------------------------
\* The records of a file are numbered from 0 to its Count.
LEMMA CountOfDatabase ==
  ASSUME NEW f \in Databases
  PROVE  /\ Count(f) \in Nat /\ f \in [0 .. Count(f) - 1 -> Codes]
         /\ \A i, j \in 0 .. Count(f) - 1 : i < j => f[i] < f[j]
<1>1. PICK n \in 0 .. MaxRecords : f \in [0 .. n - 1 -> Codes] /\ Sorted(f)
  BY DEF Databases
<1>2. DOMAIN f = 0 .. n - 1 /\ n \in Nat
  BY <1>1, DatabaseAssumption DEF DatabaseAssumption
<1>3. Count(f) = n
  <2>1. CASE n = 0
    BY <2>1, <1>2, 0 .. -1 = {} DEF Count
  <2>2. CASE n # 0
    <3>1. 0 \in DOMAIN f /\ n \in 1 .. MaxRecords
      BY <1>2, <2>2
    <3>2. \A last \in 1 .. MaxRecords : DOMAIN f = 0 .. last - 1 => last = n
      <4> SUFFICES ASSUME NEW last \in 1 .. MaxRecords, 0 .. n - 1 = 0 .. last - 1
                   PROVE  last = n
        BY <1>2
      <4>1. last - 1 \in 0 .. n - 1 /\ n - 1 \in 0 .. last - 1
        BY <3>1, DatabaseAssumption DEF DatabaseAssumption
      <4> QED
        BY <4>1, <3>1, DatabaseAssumption DEF DatabaseAssumption
    <3> DEFINE c == CHOOSE last \in 1 .. MaxRecords : DOMAIN f = 0 .. last - 1
    <3>3. c \in 1 .. MaxRecords /\ DOMAIN f = 0 .. c - 1
      BY <3>1, <1>2
    <3>4. Count(f) = c
      BY <3>1 DEF Count
    <3> QED
      BY <3>2, <3>3, <3>4
  <2> QED
    BY <2>1, <2>2
<1> QED
  BY <1>1, <1>2, <1>3 DEF Sorted

\* The width a file's size is taken to have goes into its size.
LEMMA RecordsOfBytes ==
  ASSUME NEW n \in Nat, NEW w \in {5, 9}, RecordSize(n * w) = w
  PROVE  (n * w) \div RecordSize(n * w) = n
<1>1. CASE w = 5
  BY <1>1
<1>2. CASE w = 9
  BY <1>2
<1> QED
  BY <1>1, <1>2

LEMMA SearchBegins == DbInit => SearchInv
<1> SUFFICES ASSUME DbInit PROVE SearchInv
  OBVIOUS
<1> USE DEF DbInit, DbBegins
<1>1. DbShape
  BY CountOfDatabase DEF DbShape
<1>2. Excluded
  BY DEF Excluded
<1>3. Outcome
  BY DEF Outcome
<1> QED
  BY <1>1, <1>2, <1>3 DEF SearchInv

LEMMA SearchGoesOn == SearchInv /\ [DbNext]_dbVars => SearchInv'
<1> SUFFICES ASSUME SearchInv, [DbNext]_dbVars PROVE SearchInv'
  OBVIOUS
<1> USE DEF SearchInv
<1>0. Codes \subseteq Int
  BY DatabaseAssumption DEF DatabaseAssumption
<1>1. ASSUME NEW fails \in BOOLEAN, OpenDatabase(fails) PROVE SearchInv'
  <2> USE <1>1 DEF OpenDatabase
  <2>1. UNCHANGED <<records, width, game_code, saved>>
    OBVIOUS
  <2>2. Count(records)' = Count(records) /\ TakenWidth' = TakenWidth
    BY <2>1 DEF Count, TakenWidth, Bytes
  <2>3. CASE fails \/ TakenWidth < 0
    BY <2>1, <2>2, <2>3 DEF DbShape, Excluded, Outcome
  <2>4. CASE ~(fails \/ TakenWidth < 0)
    <3>1. db_open' = TRUE /\ left' = 0 /\ right' = Bytes \div TakenWidth /\ found' = found
      BY <2>4
    <3>2. Bytes \in Nat
      BY DEF Bytes, DbShape
    <3>3. TakenWidth \in {5, 9}
      BY <2>4, <3>2 DEF TakenWidth, RecordSize
    <3>4. right' \in Nat
      BY <3>1, <3>2, <3>3
    <3>5. TakenWidth = width => right' = Count(records)
      BY <3>1, RecordsOfBytes DEF TakenWidth, Bytes, DbShape
    <3>6. DbShape'
      BY <2>1, <2>2, <3>1, <3>4 DEF DbShape
    <3>7. Excluded'
      BY <2>1, <2>2, <3>1, <3>5 DEF Excluded, DbShape
    <3>8. Outcome'
      BY <2>1, <2>2, <3>1 DEF Outcome
    <3> QED
      BY <3>6, <3>7, <3>8
  <2> QED
    BY <2>3, <2>4
<1>2. ASSUME NEW code \in Codes, Probe(code) PROVE SearchInv'
  <2> USE <1>2 DEF Probe
  <2>1. UNCHANGED <<records, width, game_code>>
    OBVIOUS
  <2>2. Count(records)' = Count(records) /\ TakenWidth' = TakenWidth
    BY <2>1 DEF Count, TakenWidth, Bytes
  <2>3. Mid \in Nat /\ left <= Mid /\ Mid < right
    BY DEF Mid, DbShape
  <2>4. TakenWidth = width => Mid \in 0 .. Count(records) - 1 /\ code = records[Mid]
    BY <2>3 DEF RecordsAt, Excluded, DbShape
  <2>5. CASE code = game_code
    <3>1. found' = "ok" /\ db_open' = FALSE /\ saved' = Applied(Decoded(code, TakenWidth))
          /\ UNCHANGED <<left, right>>
      BY <2>5
    <3>2. DbShape' /\ Excluded'
      BY <2>1, <2>2, <3>1 DEF DbShape, Excluded
    <3>3. TakenWidth = width =>
            records[Mid] = game_code /\ saved' = Applied(Decoded(records[Mid], width))
      BY <2>4, <2>5, <3>1
    <3>4. DOMAIN records = 0 .. Count(records) - 1
      BY DEF DbShape
    <3>5. TakenWidth = width =>
            \E i \in DOMAIN records :
              records[i] = game_code /\ saved' = Applied(Decoded(records[i], width))
      BY <2>4, <3>3, <3>4
    <3>6. Outcome'
      BY <2>1, <2>2, <3>1, <3>5 DEF Outcome
    <3> QED
      BY <3>2, <3>6
  <2>6. CASE code # game_code /\ code < game_code
    <3>1. left' = Mid + 1 /\ right' = right /\ UNCHANGED <<db_open, saved, found>>
      BY <2>6 DEF Narrowed
    <3>2. DbShape'
      BY <2>1, <2>2, <2>3, <3>1 DEF DbShape
    <3>3. Excluded'
      <4> SUFFICES ASSUME TakenWidth = width
                   PROVE  /\ right <= Count(records)
                          /\ \A i \in 0 .. Count(records) - 1 :
                               /\ i < Mid + 1 => records[i] < game_code
                               /\ i >= right => game_code < records[i]
        BY <2>1, <2>2, <3>1 DEF Excluded
      <4>1. records[Mid] < game_code /\ Mid \in 0 .. Count(records) - 1
        BY <2>4, <2>6
      <4>2. ASSUME NEW i \in 0 .. Count(records) - 1, i < Mid + 1 PROVE records[i] < game_code
        <5>1. i = Mid \/ records[i] < records[Mid]
          BY <4>1, <4>2, <2>3 DEF DbShape
        <5>2. records[i] \in Int /\ records[Mid] \in Int /\ game_code \in Int
          BY <4>1, <1>0 DEF DbShape
        <5> QED
          BY <5>1, <5>2, <4>1
      <4> QED
        BY <4>2 DEF Excluded
    <3>4. Outcome'
      BY <2>1, <2>2, <3>1 DEF Outcome
    <3> QED
      BY <3>2, <3>3, <3>4
  <2>7. CASE code # game_code /\ ~(code < game_code)
    <3>1. left' = left /\ right' = Mid /\ UNCHANGED <<db_open, saved, found>>
      BY <2>7 DEF Narrowed
    <3>2. DbShape'
      BY <2>1, <2>2, <2>3, <3>1 DEF DbShape
    <3>3. Excluded'
      <4> SUFFICES ASSUME TakenWidth = width
                   PROVE  /\ Mid <= Count(records)
                          /\ \A i \in 0 .. Count(records) - 1 :
                               /\ i < left => records[i] < game_code
                               /\ i >= Mid => game_code < records[i]
        BY <2>1, <2>2, <3>1 DEF Excluded
      <4>1. game_code < records[Mid] /\ Mid \in 0 .. Count(records) - 1
        BY <2>4, <2>7, <1>0 DEF DbShape
      <4>2. ASSUME NEW i \in 0 .. Count(records) - 1, i >= Mid PROVE game_code < records[i]
        <5>1. i = Mid \/ records[Mid] < records[i]
          BY <4>1, <4>2, <2>3 DEF DbShape
        <5>2. records[i] \in Int /\ records[Mid] \in Int /\ game_code \in Int
          BY <4>1, <1>0 DEF DbShape
        <5> QED
          BY <5>1, <5>2, <4>1
      <4> QED
        BY <4>1, <4>2 DEF Excluded, DbShape
    <3>4. Outcome'
      BY <2>1, <2>2, <3>1 DEF Outcome
    <3> QED
      BY <3>2, <3>3, <3>4
  <2> QED
    BY <2>5, <2>6, <2>7
<1>3. ASSUME ProbeFails PROVE SearchInv'
  <2>1. UNCHANGED <<records, width, game_code, left, right, saved>>
        /\ found' = "error" /\ db_open' = FALSE
    BY <1>3 DEF ProbeFails
  <2>2. Count(records)' = Count(records) /\ TakenWidth' = TakenWidth
    BY <2>1 DEF Count, TakenWidth, Bytes
  <2>3. found # "ok"
    BY <1>3 DEF ProbeFails, Outcome
  <2> QED
    BY <2>1, <2>2, <2>3 DEF DbShape, Excluded, Outcome
<1>4. ASSUME Absent PROVE SearchInv'
  <2>1. UNCHANGED <<records, width, game_code, left, right, saved>>
        /\ found' = "absent" /\ db_open' = FALSE /\ db_open /\ left >= right
    BY <1>4 DEF Absent
  <2>2. Count(records)' = Count(records) /\ TakenWidth' = TakenWidth
    BY <2>1 DEF Count, TakenWidth, Bytes
  <2>3. found # "ok"
    BY <2>1 DEF Outcome
  <2> QED
    BY <2>1, <2>2, <2>3 DEF DbShape, Excluded, Outcome
<1>5. CASE UNCHANGED dbVars
  <2>1. UNCHANGED <<records, width, game_code, db_open, left, right, saved, found>>
    BY <1>5 DEF dbVars
  <2>2. Count(records)' = Count(records) /\ TakenWidth' = TakenWidth
    BY <2>1 DEF Count, TakenWidth, Bytes
  <2> QED
    BY <2>1, <2>2 DEF DbShape, Excluded, Outcome
<1> QED
  BY <1>1, <1>2, <1>3, <1>4, <1>5 DEF DbNext

LEMMA SearchInvSuffices == SearchInv => SearchFinds
<1> SUFFICES ASSUME SearchInv PROVE SearchFinds
  OBVIOUS
<1>1. ASSUME found = "absent", TakenWidth = width, NEW i \in DOMAIN records
      PROVE  records[i] # game_code
  <2>1. i \in 0 .. Count(records) - 1 /\ left >= right
    BY <1>1 DEF SearchInv, DbShape, Outcome
  <2>2. records[i] \in Int /\ game_code \in Int
    BY <2>1, DatabaseAssumption DEF SearchInv, DbShape, DatabaseAssumption
  <2>3. i < left \/ i >= right
    BY <2>1 DEF SearchInv, DbShape
  <2> QED
    BY <1>1, <2>1, <2>2, <2>3 DEF SearchInv, Excluded
<1> QED
  BY <1>1 DEF SearchInv, Outcome, SearchFinds

\* gamedb.c, cart_gba.c: for every database file, whatever its length and whichever read of it
\* fails, the search finds the record of the cartridge's game if there is one, says that
\* there is none only then, and otherwise leaves the configuration alone and closes the file.
THEOREM SearchIsRight == DbSpec => []SearchFinds
BY SearchBegins, SearchGoesOn, SearchInvSuffices, PTL DEF DbSpec

-----------------------------------------------------------------------------
(* SaveMemory                                                               *)

SaveShape ==
  /\ chip \in [kind : Kind, banks : 1 .. 2]
  /\ memory \in [Cells -> SaveByte]
  /\ selected \in 0 .. 1
  /\ config \in [kind : Kind \cup {"none"}, size : 0 .. 2 * BankSize]
  /\ job \in [offset : Nat, length : Nat, value : SaveByte, done : Nat]

\* The configuration fits the cartridge, a write lies within it, and between two writes bank 0
\* shows; a configuration of one bank never shows the other.
Fits ==
  /\ config.size <= chip.banks * BankSize
  /\ config.size # 0 => config.kind = chip.kind
  /\ selected # 0 => ~Free /\ config.size > BankSize
  /\ ~Free => job.done < job.length /\ job.offset + job.length <= config.size

\* What was accepted is in memory, is not being written again, and its sector will not be erased.
Kept ==
  \A a \in DOMAIN accepted :
     /\ a \in 0 .. config.size - 1 /\ memory[a] = accepted[a]
     /\ ~Free => a \notin Span(job)
     /\ config.kind = "flash" => Sector(a) \in sectors

\* So is what the write in progress has written.
Done ==
  ~Free => \A a \in job.offset .. Position - 1 :
     memory[a] = job.value /\ (config.kind = "flash" => Sector(a) \in sectors)

SaveInv == SaveShape /\ Fits /\ Kept /\ Done

LEMMA SaveConstants ==
  /\ BankSize \in Nat \ {0} /\ SectorSize \in Nat \ {0} /\ UnitSize \in Nat \ {0}
  /\ BankSize % SectorSize = 0 /\ BankSize > 1 /\ Values \in Nat /\ Values > 2
  /\ Data \subseteq SaveByte /\ 0 \in SaveByte /\ Blanked \in SaveByte /\ Junk \in SaveByte
  /\ SaveLengths \subseteq Nat \ {0}
BY SaveAssumption DEF SaveAssumption, SaveByte, Blanked, Junk

LEMMA Multiply == \A w, d \in Int : w > 0 /\ d >= 1 => w * d >= w
  OBVIOUS

LEMMA Divide == \A a \in Nat, w \in Nat \ {0} :
   /\ a \div w \in Nat /\ a % w \in 0 .. w - 1 /\ a = w * (a \div w) + (a % w)
  OBVIOUS

\* A number has one remainder.
LEMMA OneRemainder ==
  ASSUME NEW w \in Nat \ {0}, NEW k \in Nat, NEW r \in 0 .. w - 1
  PROVE  (w * k + r) % w = r
<1> DEFINE b == w * k + r
           j == b \div w
           s == b % w
<1>1. b \in Nat
  OBVIOUS
<1>2. j \in Nat /\ s \in 0 .. w - 1 /\ b = w * j + s
  BY <1>1, Divide
<1>3. w * k + r = w * j + s
  BY <1>2
<1> HIDE DEF b, j, s
<1>4. CASE k > j
  <2>1. w * (k - j) >= w /\ w * (k - j) = w * k - w * j
    BY <1>4, <1>2, Multiply
  <2> QED
    BY <2>1, <1>2, <1>3
<1>5. CASE k < j
  <2>1. w * (j - k) >= w /\ w * (j - k) = w * j - w * k
    BY <1>5, <1>2, Multiply
  <2> QED
    BY <2>1, <1>2, <1>3
<1>6. CASE k = j
  BY <1>6, <1>3, <1>2
<1> QED
  BY <1>4, <1>5, <1>6, <1>2 DEF s, b

\* A byte of the save shows at its own cell once its bank is switched to.
LEMMA Wires ==
  ASSUME SaveShape, Fits, NEW a \in 0 .. config.size - 1
  PROVE  /\ Wired(Switched(a \div BankSize), a % BankSize) = a
         /\ a \in Cells
         /\ Switched(a \div BankSize) \in 0 .. 1
         /\ (config.size <= BankSize => Switched(a \div BankSize) = 0)
<1> DEFINE q == a \div BankSize
           r == a % BankSize
<1>1. /\ BankSize \in Nat \ {0} /\ config.size \in 0 .. 2 * BankSize /\ chip.banks \in 1 .. 2
      /\ selected \in 0 .. 1 /\ config.size <= chip.banks * BankSize
      /\ (selected # 0 => config.size > BankSize)
  BY SaveConstants DEF SaveShape, Fits
<1>2. q \in Nat /\ r \in 0 .. BankSize - 1 /\ a = BankSize * q + r
  <2>1. a \in Nat
    BY <1>1
  <2> QED
    BY <2>1, <1>1, Divide, Zenon
<1>3. a \in Cells
  BY <1>1 DEF Cells
<1>4. CASE config.size > BankSize
  <2>1. chip.banks = 2
    BY <1>1, <1>4
  <2>2. Switched(q) = q
    BY <2>1, <1>4 DEF Switched
  <2>3. q \in 0 .. 1
    <3> HIDE DEF q, r
    <3>1. SUFFICES ASSUME q >= 2 PROVE FALSE
      BY <1>2
    <3>2. BankSize * (q - 1) >= BankSize /\ BankSize * (q - 1) = BankSize * q - BankSize
      BY <3>1, <1>1, <1>2, Multiply
    <3> QED
      BY <3>2, <1>1, <1>2
  <2>4. Wired(q, r) = q * BankSize + r
    BY <2>1 DEF Wired
  <2>5. q * BankSize = BankSize * q
    BY <1>1, <1>2
  <2> HIDE DEF q, r
  <2>6. Wired(Switched(q), r) = a
    BY <2>2, <2>4, <2>5, <1>2, <1>1
  <2> QED
    BY <2>6, <2>2, <2>3, <1>3, <1>1, <1>4 DEF q, r
<1>5. CASE ~(config.size > BankSize)
  <2>1. selected = 0 /\ Switched(q) = 0
    BY <1>1, <1>5 DEF Switched
  <2>2. r = a
    <3>1. a \in 0 .. BankSize - 1
      BY <1>1, <1>5
    <3>2. (BankSize * 0 + a) % BankSize = a
      BY <3>1, <1>1, OneRemainder
    <3> QED
      BY <3>1, <3>2, <1>1
  <2>3. Wired(0, a) = a
    BY <1>1 DEF Wired
  <2> HIDE DEF q, r
  <2> QED
    BY <2>1, <2>2, <2>3, <1>3 DEF q, r
<1> QED
  BY <1>4, <1>5

\* So between two writes it is read from there.
LEMMA ReadBack ==
  ASSUME SaveShape, Fits, NEW a \in 0 .. config.size - 1
  PROVE  ReadAt(a) = memory[a]
BY Wires DEF ReadAt

\* A write goes on at its position, which is its own cell, and takes at most what is left.
LEMMA Parts ==
  ASSUME SaveShape, Fits, ~Free
  PROVE  /\ Position \in 0 .. config.size - 1 /\ Left \in Nat \ {0}
         /\ Position + Left = job.offset + job.length
         /\ Position \in Span(job) /\ Position = job.offset + job.done
         /\ \A n \in Nat : Next2(n) = Position .. Position + n - 1
         /\ \A size \in Nat \ {0} : Upto(size) \in 1 .. Left
         /\ Showing \in 0 .. 1 /\ (config.size <= BankSize => Showing = 0)
<1>1. /\ job.offset \in Nat /\ job.done \in Nat /\ job.length \in Nat
      /\ job.done < job.length /\ job.offset + job.length <= config.size
      /\ config.size \in Nat /\ BankSize \in Nat \ {0}
  BY SaveConstants DEF SaveShape, Fits
<1>2. /\ Position \in 0 .. config.size - 1 /\ Left \in Nat \ {0}
      /\ Position + Left = job.offset + job.length
      /\ Position \in Span(job) /\ Position = job.offset + job.done
  BY <1>1 DEF Position, Left, Span
<1>3. Wired(Showing, Position % BankSize) = Position
  BY <1>2, Wires DEF Showing
<1>4. ASSUME NEW n \in Nat PROVE Next2(n) = Position .. Position + n - 1
  <2>1. Next2(n) = {Position + k : k \in 0 .. n - 1}
    BY <1>3 DEF Next2
  <2>2. Position \in Int
    BY <1>2
  <2>3. ASSUME NEW c \in Position .. Position + n - 1 PROVE c \in {Position + k : k \in 0 .. n - 1}
    <3>1. c - Position \in 0 .. n - 1 /\ c = Position + (c - Position)
      BY <2>2, <2>3
    <3> QED
      BY <3>1
  <2>4. \A k \in 0 .. n - 1 : Position + k \in Position .. Position + n - 1
    BY <2>2
  <2> QED
    BY <2>1, <2>3, <2>4
<1>5. ASSUME NEW size \in Nat \ {0} PROVE Upto(size) \in 1 .. Left
  <2>1. Position % size \in 0 .. size - 1
    <3>1. Position \in Nat
      BY <1>1, <1>2
    <3> QED
      BY <3>1, Divide, Zenon
  <2> QED
    BY <1>2, <2>1 DEF Upto
<1>6. Showing \in 0 .. 1 /\ (config.size <= BankSize => Showing = 0)
  BY <1>2, Wires DEF Showing
<1> QED
  BY <1>2, <1>4, <1>5, <1>6

\* The sector that is erased is that of the position, and has no byte of another.
LEMMA Erases ==
  ASSUME SaveShape, Fits, ~Free, NEW c \in Nat,
         c \in Wired(Showing, Sector(Position % BankSize))
                 .. Wired(Showing, Sector(Position % BankSize)) + SectorSize - 1
  PROVE  Sector(c) = Sector(Position)
<1> DEFINE q == Position \div BankSize
           r == Position % BankSize
           k == BankSize \div SectorSize
           first == Wired(Showing, Sector(r))
<1>1. /\ BankSize \in Nat \ {0} /\ SectorSize \in Nat \ {0} /\ BankSize % SectorSize = 0
      /\ Position \in Nat
  BY SaveConstants, Parts DEF SaveShape
<1>2. q \in Nat /\ r \in 0 .. BankSize - 1 /\ Position = BankSize * q + r
  BY <1>1, Divide, Zenon
<1>3. k \in Nat /\ BankSize = SectorSize * k
  <2>1. BankSize \in Nat
    BY <1>1
  <2>2. k \in Nat /\ BankSize = SectorSize * k + (BankSize % SectorSize)
    BY <2>1, <1>1, Divide, Zenon
  <2> HIDE DEF k
  <2> QED
    BY <2>2, <1>1
<1>4. /\ r \div SectorSize \in Nat /\ r % SectorSize \in 0 .. SectorSize - 1
      /\ r = SectorSize * (r \div SectorSize) + (r % SectorSize)
  <2>1. r \in Nat
    BY <1>1, <1>2
  <2> HIDE DEF r
  <2> QED
    BY <2>1, <1>1, Divide, Zenon
<1>5. Position % SectorSize = r % SectorSize
  <2> DEFINE whole == k * q + (r \div SectorSize)
             t == r % SectorSize
  <2>1. whole \in Nat
    BY <1>2, <1>3, <1>4
  <2>2. SectorSize * whole + t = Position
    <3> HIDE DEF q, r, k
    <3> DEFINE v == r \div SectorSize
    <3>1. v \in Nat
      BY <1>4
    <3> HIDE DEF v
    <3>2. SectorSize * (k * q + v) = (SectorSize * k) * q + SectorSize * v
      BY <1>1, <1>2, <1>3, <3>1
    <3>3. (SectorSize * k) * q = BankSize * q
      BY <1>3
    <3>4. r = SectorSize * v + (r % SectorSize)
      BY <1>4 DEF v
    <3>5. SectorSize * (k * q + v) + (r % SectorSize) = Position
      <4> DEFINE x == SectorSize * (k * q + v)
                 y == BankSize * q
                 z == SectorSize * v
                 u == r % SectorSize
      <4>1. x = y + z /\ r = z + u /\ Position = y + r
        BY <3>2, <3>3, <3>4, <1>2
      <4>2. y \in Int /\ z \in Int /\ u \in Int
        BY <1>1, <1>2, <3>1, <1>4
      <4> HIDE DEF x, y, z, u
      <4>3. x + u = Position
        BY <4>1, <4>2
      <4> QED
        BY <4>3 DEF x, u
    <3> QED
      BY <3>5 DEF v
  <2> HIDE DEF whole, t, q, r, k
  <2>3. t \in 0 .. SectorSize - 1
    BY <1>4 DEF t
  <2>4. (SectorSize * whole + t) % SectorSize = t
    BY <2>1, <2>3, <1>1, OneRemainder
  <2> QED
    BY <2>2, <2>4 DEF t
<1>6. first = Position - (Position % SectorSize)
  <2> HIDE DEF k
  <2>1. Wired(Showing, r) = Position
    BY Parts, Wires DEF Showing
  <2>2. Sector(r) = r - (r % SectorSize)
    BY DEF Sector
  <2>3. Wired(Showing, Sector(r)) = Wired(Showing, r) - (r % SectorSize)
    <3>1. Showing \in 0 .. 1
      BY Parts
    <3> HIDE DEF r, q
    <3> QED
      BY <3>1, <2>2, <1>1, <1>2, <1>4 DEF Wired
  <2> QED
    BY <2>1, <2>3, <1>5
<1>7. /\ Position \div SectorSize \in Nat
      /\ Position % SectorSize \in 0 .. SectorSize - 1
      /\ Position = SectorSize * (Position \div SectorSize) + (Position % SectorSize)
  BY <1>1, Divide
<1> DEFINE p == Position \div SectorSize
           j == c - first
<1>8. j \in 0 .. SectorSize - 1 /\ c = SectorSize * p + j
  <2>1. first = SectorSize * p /\ first \in Int
    BY <1>6, <1>7, <1>1
  <2>2. c \in first .. first + SectorSize - 1
    OBVIOUS
  <2> HIDE DEF first, p
  <2> QED
    BY <2>1, <2>2, <1>1
<1>9. c % SectorSize = j
  <2>1. p \in Nat
    BY <1>7
  <2> HIDE DEF j, p
  <2> QED
    BY <2>1, <1>8, <1>1, OneRemainder
<1>10. Sector(c) = c - j /\ c - j = first
  <2>1. Sector(c) = c - (c % SectorSize)
    BY DEF Sector
  <2>2. first \in Int
    BY <1>6, <1>7, <1>1
  <2> HIDE DEF first
  <2> QED
    BY <2>1, <2>2, <1>9 DEF j
<1> QED
  BY <1>6, <1>10 DEF Sector

\* The bytes of a part up to the end of its sector are in the sector.
LEMMA PartOfSector ==
  ASSUME SaveShape, Fits, ~Free, NEW a \in Position .. Position + Upto(SectorSize) - 1
  PROVE  Sector(a) = Sector(Position)
<1> DEFINE p == Position \div SectorSize
           r == Position % SectorSize
           j == r + (a - Position)
<1>1. /\ SectorSize \in Nat \ {0} /\ Position \in Nat /\ Left \in Nat
      /\ Upto(SectorSize) \in Nat /\ a \in Nat
  <2>1. SectorSize \in Nat \ {0} /\ config.size \in Nat
    BY SaveConstants DEF SaveShape
  <2>2. Position \in 0 .. config.size - 1 /\ Left \in Nat /\ Upto(SectorSize) \in 1 .. Left
    BY <2>1, Parts
  <2> QED
    BY <2>1, <2>2
<1>2. p \in Nat /\ r \in 0 .. SectorSize - 1 /\ Position = SectorSize * p + r
  BY <1>1, Divide, Zenon
<1>3. Upto(SectorSize) <= SectorSize - r
  <2>1. SectorSize - r \in Nat
    BY <1>1, <1>2
  <2> QED
    BY <2>1, <1>1 DEF Upto
<1> HIDE DEF p, r
<1>4. j \in 0 .. SectorSize - 1 /\ a = SectorSize * p + j
  BY <1>1, <1>2, <1>3
<1> HIDE DEF j
<1>5. a % SectorSize = j
  BY <1>1, <1>2, <1>4, OneRemainder
<1>6. a - (a % SectorSize) = Position - r
  <2> DEFINE x == SectorSize * p
  <2>1. x \in Int /\ a = x + j /\ Position = x + r
    BY <1>1, <1>2, <1>4
  <2> HIDE DEF x
  <2> QED
    BY <2>1, <1>2, <1>4, <1>5
<1> QED
  BY <1>6 DEF Sector, r

LEMMA BankZero == SaveShape /\ Fits => Switched(0) = 0
<1> SUFFICES ASSUME SaveShape, Fits PROVE Switched(0) = 0
  OBVIOUS
<1>1. /\ BankSize \in Nat \ {0} /\ config.size \in Nat /\ chip.banks \in 1 .. 2
      /\ config.size <= chip.banks * BankSize
      /\ (config.size <= BankSize => selected = 0)
  BY SaveConstants DEF SaveShape, Fits
<1>2. chip.banks = 1 => config.size <= BankSize
  BY <1>1
<1> QED
  BY <1>1, <1>2 DEF Switched

\* A part of a write that ends well.
LEMMA PartDone ==
  ASSUME SaveInv, ~Free, UNCHANGED <<chip, config>>, NEW n \in 1 .. Left, Onwards(n),
         memory' \in [Cells -> SaveByte],
         \A a \in Position .. Position + n - 1 : memory'[a] = job.value,
         \A a \in DOMAIN accepted \cup job.offset .. Position - 1 : memory'[a] = memory[a],
         config.kind = "flash" =>
           sectors \subseteq sectors'
           /\ \A a \in Position .. Position + n - 1 : Sector(a) \in sectors'
  PROVE  SaveInv'
<1> USE DEF SaveInv
<1>1. /\ Position \in 0 .. config.size - 1 /\ Left \in Nat \ {0}
      /\ Position + Left = job.offset + job.length /\ Position = job.offset + job.done
      /\ Showing \in 0 .. 1 /\ (config.size <= BankSize => Showing = 0)
  BY Parts
<1>2. /\ job.offset \in Nat /\ job.done \in Nat /\ job.length \in Nat /\ job.value \in SaveByte
      /\ config.size \in Nat /\ BankSize \in Nat /\ n \in Nat /\ n <= Left
      /\ Left = job.length - job.done
  BY <1>1, SaveConstants DEF SaveShape, Left
<1>3. CASE n = Left
  <2>1. /\ job' = NoJob /\ selected' = 0
        /\ accepted' = [a \in DOMAIN accepted \cup Span(job) |->
                          IF a \in Span(job) THEN job.value ELSE accepted[a]]
    BY <1>3, <1>1, BankZero DEF Onwards
  <2>2. Free'
    BY <2>1 DEF Free, NoJob
  <2>3. SaveShape' /\ Fits'
    BY <2>1, <2>2, SaveConstants DEF SaveShape, Fits, NoJob, Cells
  <2>4. ASSUME NEW a \in Span(job)
        PROVE  /\ a \in 0 .. config.size - 1 /\ memory'[a] = job.value
               /\ config.kind = "flash" => Sector(a) \in sectors'
    <3>1. a \in Nat /\ job.offset <= a /\ a < Position + n
      BY <1>1, <1>2, <1>3 DEF Span
    <3>2. a \in 0 .. config.size - 1
      BY <1>2 DEF Span, Fits
    <3>3. CASE a < Position
      <4>1. a \in job.offset .. Position - 1
        BY <1>1, <1>2, <3>1, <3>3
      <4> QED
        BY <4>1, <3>2 DEF Done
    <3>4. CASE ~(a < Position)
      <4>1. a \in Position .. Position + n - 1
        BY <1>1, <1>2, <3>1, <3>4
      <4> QED
        BY <4>1, <3>2
    <3> QED
      BY <3>3, <3>4
  <2>5. Kept'
    <3>1. ASSUME NEW a \in DOMAIN accepted'
          PROVE  /\ a \in 0 .. config.size - 1 /\ memory'[a] = accepted'[a]
                 /\ config.kind = "flash" => Sector(a) \in sectors'
      <4>1. CASE a \in Span(job)
        BY <4>1, <2>1, <2>4
      <4>2. CASE a \notin Span(job)
        <5>1. a \in DOMAIN accepted /\ accepted'[a] = accepted[a]
          BY <4>2, <2>1, <3>1
        <5> QED
          BY <5>1 DEF Kept
      <4> QED
        BY <4>1, <4>2
    <3> QED
      BY <3>1, <2>2 DEF Kept, Sector
  <2> QED
    BY <2>2, <2>3, <2>5 DEF Done
<1>4. CASE n # Left
  <2>1. /\ n < Left /\ job' = [job EXCEPT !.done = job.done + n] /\ selected' = Showing
        /\ accepted' = accepted
    BY <1>4, <1>1, <1>2 DEF Onwards
  <2>2. /\ job'.offset = job.offset /\ job'.length = job.length /\ job'.value = job.value
        /\ job'.done = job.done + n /\ Free' = Free
        /\ Position' = Position + n /\ Span(job') = Span(job)
    BY <2>1, <1>1, <1>2 DEF SaveShape, Free, Position, Span
  <2>3. SaveShape'
    <3>1. job' \in [offset : Nat, length : Nat, value : SaveByte, done : Nat]
      BY <2>1, <1>2 DEF SaveShape
    <3>2. selected' \in 0 .. 1
      BY <2>1, <1>1
    <3> QED
      BY <3>1, <3>2 DEF SaveShape, Cells, SaveByte
  <2>4. Fits'
    BY <2>1, <2>2, <1>1, <1>2 DEF Fits
  <2>5. Kept'
    BY <2>1, <2>2 DEF Kept, Sector
  <2>6. Done'
    <3>1. ASSUME NEW a \in job.offset .. Position + n - 1
          PROVE  memory'[a] = job.value /\ (config.kind = "flash" => Sector(a) \in sectors')
      <4>1. a \in job.offset .. Position - 1 \/ a \in Position .. Position + n - 1
        BY <1>1, <1>2
      <4> QED
        BY <4>1 DEF Done
    <3>2. \A a \in job'.offset .. Position' - 1 :
            memory'[a] = job'.value /\ (config'.kind = "flash" => Sector(a) \in sectors')
      <4>1. config' = config
        OBVIOUS
      <4>2. job'.offset .. Position' - 1 = job.offset .. Position + n - 1
        BY <1>1, <1>2, <2>2
      <4> QED
        BY <3>1, <2>2, <4>1, <4>2, Zenon
    <3> QED
      BY <3>2 DEF Done, Sector
  <2> QED
    BY <2>3, <2>4, <2>5, <2>6
<1> QED
  BY <1>3, <1>4

\* A part that fails: what stays accepted has not changed.
LEMMA PartFails ==
  ASSUME SaveInv, UNCHANGED <<chip, config>>, GivesUp,
         memory' \in [Cells -> SaveByte],
         DOMAIN accepted' \subseteq DOMAIN accepted,
         \A a \in DOMAIN accepted' : accepted'[a] = accepted[a] /\ memory'[a] = memory[a],
         config.kind = "flash" => sectors \subseteq sectors'
  PROVE  SaveInv'
<1>1. job' = NoJob /\ selected' = 0 /\ Free'
  BY BankZero DEF SaveInv, GivesUp, NoJob, Free
<1>2. SaveShape' /\ Fits'
  BY <1>1, SaveConstants DEF SaveInv, SaveShape, Fits, NoJob, Cells
<1>3. Kept'
  BY <1>1 DEF SaveInv, Kept, Sector
<1> QED
  BY <1>1, <1>2, <1>3 DEF SaveInv, Done

LEMMA SaveAtFirst == SaveInit => SaveInv
<1> SUFFICES ASSUME SaveInit PROVE SaveInv
  OBVIOUS
<1>1. Free /\ accepted = <<>> /\ config.size = 0 /\ config.kind = "none" /\ selected = 0
  BY DEF SaveInit, Free, NoJob, NoSave
<1>2. SaveShape
  BY SaveConstants DEF SaveShape, SaveInit, NoJob, NoSave, Cells
<1>3. 0 <= chip.banks * BankSize
  <2>1. chip.banks \in 1 .. 2 /\ BankSize \in Nat
    BY SaveConstants DEF SaveInit
  <2> QED
    BY <2>1
<1> QED
  BY <1>1, <1>2, <1>3 DEF SaveInv, Fits, Kept, Done

\* What a probe overwrites it puts back (probe_sram_writable, probe_sram_bank_switch).
LEMMA PutBackTwo ==
  ASSUME NEW mem \in [Cells -> SaveByte], NEW a, NEW b
  PROVE  Poked(Poked(Poked(Poked(mem, 0, 0, a), 0, 1, b), 0, 1, PeekAt(mem, 0, 1)), 0, 0,
               PeekAt(mem, 0, 0)) = mem
<1>1. Wired(0, 0) = 0 /\ Wired(0, 1) = 1 /\ 0 \in Cells /\ 1 \in Cells
  BY SaveConstants DEF Wired, Cells
<1> QED
  BY <1>1 DEF Poked, PeekAt

LEMMA PutBackOne ==
  ASSUME NEW mem \in [Cells -> SaveByte], NEW a
  PROVE  Poked(Poked(mem, 0, 0, a), 0, 0, PeekAt(mem, 0, 0)) = mem
<1>1. Wired(0, 0) = 0 /\ 0 \in Cells
  BY SaveConstants DEF Wired, Cells
<1> QED
  BY <1>1 DEF Poked, PeekAt

LEMMA ProbesRestore ==
  ASSUME memory \in [Cells -> SaveByte], ProbeSave
  PROVE  memory' = memory
<1>1. Writable.memory = memory
  <2> DEFINE a == Pattern(PeekAt(memory, 0, 0), PeekAt(memory, 0, 1))
             b == Pattern(PeekAt(memory, 0, 1), a)
  <2>1. Writable.memory
          = Poked(Poked(Poked(Poked(memory, 0, 0, a), 0, 1, b), 0, 1, PeekAt(memory, 0, 1)),
                  0, 0, PeekAt(memory, 0, 0))
    BY DEF Writable
  <2> HIDE DEF a, b
  <2> QED
    BY <2>1, PutBackTwo
<1>2. HasBanks(memory).memory = memory
  <2>1. Poked(Poked(memory, 0, 0, Blanked - PeekAt(memory, 0, 0)), 0, 0,
              PeekAt(memory, 0, 0)) = memory
    BY PutBackOne
  <2> QED
    BY <2>1 DEF HasBanks
<1> QED
  BY <1>1, <1>2 DEF ProbeSave

LEMMA SaveStep == SaveInv /\ [SaveNext]_saveVars => SaveInv'
<1> SUFFICES ASSUME SaveInv, [SaveNext]_saveVars PROVE SaveInv'
  OBVIOUS
<1> USE SaveConstants
<1>0. SaveShape /\ Fits /\ Kept /\ Done
  BY DEF SaveInv
<1>1. ASSUME NEW type \in Kind \cup {"none"}, NEW size \in 0 .. 2 * BankSize, Configure(type, size)
      PROVE  SaveInv'
  <2>1. /\ config' = [kind |-> type, size |-> size] /\ accepted' = <<>>
        /\ UNCHANGED <<chip, memory, selected, job>> /\ Free
    BY <1>1 DEF Configure
  <2>2. size <= chip.banks * BankSize /\ (size # 0 => type = chip.kind)
    <3>1. chip.banks \in 1 .. 2
      BY <1>0 DEF SaveShape
    <3>2. 0 <= chip.banks * BankSize
      BY <3>1
    <3> QED
      BY <1>1, <3>2 DEF Configure
  <2>3. selected = 0 /\ Free'
    BY <2>1, <1>0 DEF Fits, Free
  <2>4. SaveShape'
    BY <2>1, <1>0 DEF SaveShape, Cells
  <2>5. Fits'
    BY <2>1, <2>2, <2>3 DEF Fits
  <2> QED
    BY <2>1, <2>3, <2>4, <2>5 DEF SaveInv, Kept, Done
<1>2. CASE SetSaveSize
  <2>1. /\ UNCHANGED <<chip, memory, selected, config, job>> /\ Free /\ sectors' = {}
        /\ accepted' = IF config.kind = "flash" THEN <<>> ELSE accepted
    BY <1>2 DEF SetSaveSize
  <2>2. Free'
    BY <2>1 DEF Free
  <2>3. Kept'
    <3>1. CASE config.kind = "flash"
      BY <3>1, <2>1 DEF Kept
    <3>2. CASE config.kind # "flash"
      BY <3>2, <2>1, <2>2, <1>0 DEF Kept
    <3> QED
      BY <3>1, <3>2
  <2> QED
    BY <2>1, <2>2, <2>3, <1>0 DEF SaveInv, SaveShape, Fits, Done, Cells
<1>3. ASSUME NEW offset \in Cells, NEW length \in SaveLengths, NEW value \in Data,
             WriteSave(offset, length, value)
      PROVE  SaveInv'
  <2>1. /\ UNCHANGED <<chip, memory, selected, config, sectors>> /\ Free
        /\ offset < config.size /\ accepted' = Without(Span(job'))
        /\ job' = [offset |-> offset, value |-> value, done |-> 0,
                   length |-> IF length < config.size - offset THEN length
                              ELSE config.size - offset]
    BY <1>3 DEF WriteSave
  <2>2. /\ offset \in Nat /\ length \in Nat \ {0} /\ config.size \in Nat /\ value \in SaveByte
        /\ selected = 0
    BY <1>0, <2>1 DEF SaveShape, Fits, Cells
  <2>3. /\ job'.offset = offset /\ job'.done = 0 /\ job'.value = value
        /\ job'.length \in Nat \ {0} /\ offset + job'.length <= config.size
        /\ job' \in [offset : Nat, length : Nat, value : SaveByte, done : Nat]
    BY <2>1, <2>2
  <2>4. ~Free' /\ Position' = offset
    BY <2>2, <2>3 DEF Free, Position
  <2>5. SaveShape'
    BY <2>1, <2>3, <1>0 DEF SaveShape, Cells
  <2>6. Fits'
    BY <2>1, <2>2, <2>3, <1>0 DEF Fits
  <2>7. Kept'
    <3>1. \A a \in DOMAIN accepted' :
            a \in DOMAIN accepted /\ a \notin Span(job') /\ accepted'[a] = accepted[a]
      BY <2>1 DEF Without
    <3> QED
      BY <3>1, <2>1, <1>0 DEF Kept, Sector
  <2>8. Done'
    <3>1. job'.offset .. Position' - 1 = {}
      BY <2>2, <2>3, <2>4
    <3> QED
      BY <3>1 DEF Done
  <2> QED
    BY <2>5, <2>6, <2>7, <2>8 DEF SaveInv
<1>4. ASSUME ~Free
      PROVE  /\ Position \in 0 .. config.size - 1 /\ Left \in Nat \ {0}
             /\ Position + Left = job.offset + job.length /\ Position = job.offset + job.done
             /\ job.offset \in Nat /\ job.done \in Nat /\ job.length \in Nat
             /\ job.value \in SaveByte /\ config.size \in Nat /\ Span(job) \subseteq Cells
  <2>1. /\ Position \in 0 .. config.size - 1 /\ Left \in Nat \ {0}
        /\ Position + Left = job.offset + job.length /\ Position = job.offset + job.done
    BY <1>0, <1>4, Parts
  <2>2. /\ job.offset \in Nat /\ job.done \in Nat /\ job.length \in Nat /\ job.value \in SaveByte
        /\ config.size \in 0 .. 2 * BankSize /\ job.offset + job.length <= config.size
    BY <1>0, <1>4 DEF SaveShape, Fits
  <2>3. Span(job) \subseteq Cells
    BY <2>2 DEF Span, Cells
  <2> QED
    BY <2>1, <2>2, <2>3
<1>a. ASSUME ~Free
      PROVE  /\ \A a \in job.offset .. Position - 1 : a \in Cells
             /\ \A a \in DOMAIN accepted : a \in Cells /\ a \notin Span(job)
  <2>1. \A a \in job.offset .. Position - 1 : a \in Span(job)
    BY <1>a, <1>4 DEF Span
  <2>2. \A a \in 0 .. config.size - 1 : a \in Cells
    BY <1>0 DEF SaveShape, Cells
  <2>3. \A a \in DOMAIN accepted : a \in Cells /\ a \notin Span(job)
    BY <1>0, <1>a, <2>2 DEF Kept
  <2> QED
    BY <2>1, <2>3, <1>a, <1>4
<1>b. ASSUME ~Free, NEW k \in 0 .. Left
      PROVE  /\ Next2(k) = Position .. Position + k - 1 /\ Next2(k) \subseteq Cells
             /\ \A a \in job.offset .. Position - 1 : a \notin Next2(k)
             /\ \A a \in DOMAIN accepted : a \notin Next2(k)
  <2>1. k \in Nat
    BY <1>4, <1>b
  <2>2. Next2(k) = Position .. Position + k - 1
    BY <1>0, <1>b, <2>1, Parts
  <2>3. Next2(k) \subseteq Span(job)
    BY <1>4, <1>b, <2>2, SMTT(30) DEF Span
  <2>4. \A a \in job.offset .. Position - 1 : a \notin Next2(k)
    BY <1>4, <1>b, <2>2
  <2> QED
    BY <1>4, <1>a, <1>b, <2>2, <2>3, <2>4, Zenon
<1>c. ASSUME ~Free, NEW size \in Nat \ {0}
      PROVE  /\ Upto(size) \in 1 .. Left /\ Upto(size) \in 0 .. Left
             /\ Next2(Upto(size)) = Position .. Position + Upto(size) - 1
             /\ \A k \in 0 .. Upto(size) : k \in 0 .. Left
  <2>1. Upto(size) \in 1 .. Left
    BY <1>0, <1>c, Parts
  <2>2. Upto(size) \in 0 .. Left /\ \A k \in 0 .. Upto(size) : k \in 0 .. Left
    BY <2>1, <1>4, <1>c
  <2> QED
    BY <2>1, <2>2, <1>b, <1>c, Zenon
<1>d. memory \in [Cells -> SaveByte]
  BY <1>0 DEF SaveShape
<1>5. CASE SramPart
  <2> DEFINE n == Upto(BankSize)
  <2>1. ~Free /\ config.kind = "sram" /\ UNCHANGED <<chip, config, sectors>>
    BY <1>5 DEF SramPart
  <2>2. /\ n \in 1 .. Left /\ n \in 0 .. Left /\ Next2(n) = Position .. Position + n - 1
        /\ \A k \in 0 .. n : k \in 0 .. Left
    BY <2>1, <1>c
  <2> HIDE DEF n
  <2>3. CASE memory' = Filled(memory, Next2(n), job.value) /\ Onwards(n)
    <3>1. /\ memory' \in [Cells -> SaveByte]
          /\ \A c \in Cells : memory'[c] = IF c \in Next2(n) THEN job.value ELSE memory[c]
      BY <2>1, <2>3, <1>d, <1>4 DEF Filled
    <3>2. \A a \in Position .. Position + n - 1 : a \in Cells /\ memory'[a] = job.value
      BY <2>1, <2>2, <3>1, <1>b
    <3>3. \A a \in DOMAIN accepted \cup job.offset .. Position - 1 : memory'[a] = memory[a]
      <4>1. \A a \in job.offset .. Position - 1 : a \notin Next2(n)
        BY <2>1, <2>2, <1>b
      <4>2. \A a \in DOMAIN accepted : a \notin Next2(n)
        BY <2>1, <2>2, <1>b
      <4> QED
        BY <2>1, <3>1, <4>1, <4>2, <1>a
    <3> QED
      BY <2>1, <2>2, <2>3, <3>1, <3>2, <3>3, PartDone
  <2>4. ASSUME NEW k \in 0 .. n - 1, memory' = Filled(memory, Next2(k), job.value),
               GivesUp, UNCHANGED accepted
        PROVE  SaveInv'
    <3>1. k \in 0 .. Left
      <4>1. k \in 0 .. n
        BY <2>2, <2>4, <1>4, <2>1
      <4> QED
        BY <2>2, <4>1
    <3>2. /\ memory' \in [Cells -> SaveByte]
          /\ \A c \in Cells : memory'[c] = IF c \in Next2(k) THEN job.value ELSE memory[c]
      BY <2>1, <2>4, <1>d, <1>4 DEF Filled
    <3>3. \A a \in DOMAIN accepted : memory'[a] = memory[a]
      BY <2>1, <3>1, <3>2, <1>a, <1>b
    <3> QED
      BY <2>1, <2>4, <3>2, <3>3, PartFails
  <2>5. \/ memory' = Filled(memory, Next2(n), job.value) /\ Onwards(n)
        \/ \E k \in 0 .. n - 1 : memory' = Filled(memory, Next2(k), job.value)
                                 /\ GivesUp /\ UNCHANGED accepted
    BY <1>5 DEF SramPart, n
  <2> QED
    BY <2>3, <2>4, <2>5
<1>6. CASE FlashPart
  <2> DEFINE n == Upto(SectorSize)
             first == Wired(Showing, Sector(Position % BankSize))
             erased == Filled(memory, first .. first + SectorSize - 1, Blanked)
             before == IF MustErase(Sector(Position)) THEN erased ELSE memory
  <2>1. ~Free /\ config.kind = "flash" /\ UNCHANGED <<chip, config>>
    BY <1>6 DEF FlashPart
  <2>2. /\ n \in 1 .. Left /\ n \in 0 .. Left /\ Next2(n) = Position .. Position + n - 1
        /\ \A k \in 0 .. n : k \in 0 .. Left
    BY <2>1, <1>c
  <2>3. /\ erased \in [Cells -> SaveByte]
        /\ \A a \in DOMAIN accepted \cup job.offset .. Position - 1 :
             MustErase(Sector(Position)) => erased[a] = memory[a]
    <3>1. /\ erased \in [Cells -> SaveByte]
          /\ \A c \in Cells : erased[c] = IF c \in first .. first + SectorSize - 1
                                          THEN Blanked ELSE memory[c]
      BY <1>d, SaveConstants DEF Filled
    <3> HIDE DEF erased
    <3>2. ASSUME NEW a \in DOMAIN accepted \cup job.offset .. Position - 1,
                 MustErase(Sector(Position))
          PROVE  erased[a] = memory[a]
      <4>1. a \in Cells /\ Sector(a) \in sectors
        BY <2>1, <1>0, <1>a DEF Kept, Done
      <4>2. Sector(a) # Sector(Position)
        BY <4>1, <3>2 DEF MustErase
      <4>3. a \in Nat
        BY <4>1 DEF Cells
      <4>4. a \notin first .. first + SectorSize - 1
        BY <4>2, <4>3, <2>1, <1>0, Erases
      <4> QED
        BY <3>1, <4>1, <4>4
    <3> QED
      BY <3>1, <3>2
  <2>4. \/ /\ MustErase(Sector(Position)) /\ memory' \in {memory, erased} /\ GivesUp
           /\ UNCHANGED <<sectors, accepted>>
        \/ /\ sectors' = sectors \cup {Sector(Position)}
           /\ \/ memory' = Filled(before, Next2(n), job.value) /\ Onwards(n)
              \/ /\ \E k \in 1 .. n :
                      memory' = Filled(Filled(before, Next2(k), Junk), Next2(k - 1), job.value)
                 /\ GivesUp /\ UNCHANGED accepted
    BY <1>6 DEF FlashPart
  <2> HIDE DEF n, erased
  <2>5. /\ before \in [Cells -> SaveByte]
        /\ \A a \in DOMAIN accepted \cup job.offset .. Position - 1 : before[a] = memory[a]
    BY <2>3, <1>0 DEF SaveShape
  <2> HIDE DEF before
  <2>6. CASE MustErase(Sector(Position)) /\ memory' \in {memory, erased} /\ GivesUp
             /\ UNCHANGED <<sectors, accepted>>
    <3>1. memory' \in [Cells -> SaveByte]
      BY <2>3, <2>6, <1>0 DEF SaveShape
    <3>2. \A a \in DOMAIN accepted : memory'[a] = memory[a]
      BY <2>3, <2>6
    <3> QED
      BY <2>1, <2>6, <3>1, <3>2, PartFails
  <2>7. CASE /\ sectors' = sectors \cup {Sector(Position)}
             /\ memory' = Filled(before, Next2(n), job.value) /\ Onwards(n)
    <3>1. /\ memory' \in [Cells -> SaveByte]
          /\ \A c \in Cells : memory'[c] = IF c \in Next2(n) THEN job.value ELSE before[c]
      BY <2>1, <2>5, <2>7, <1>4 DEF Filled
    <3>2. \A a \in Position .. Position + n - 1 : a \in Cells /\ memory'[a] = job.value
      BY <2>1, <2>2, <3>1, <1>b
    <3>3. \A a \in DOMAIN accepted \cup job.offset .. Position - 1 : memory'[a] = memory[a]
      <4>1. \A a \in job.offset .. Position - 1 : a \notin Next2(n)
        BY <2>1, <2>2, <1>b
      <4>2. \A a \in DOMAIN accepted : a \notin Next2(n)
        BY <2>1, <2>2, <1>b
      <4> QED
        BY <2>1, <2>5, <3>1, <4>1, <4>2, <1>a
    <3>4. \A a \in Position .. Position + n - 1 : Sector(a) \in sectors'
      BY <2>1, <2>7, <1>0, PartOfSector DEF n
    <3> QED
      BY <2>1, <2>2, <2>7, <3>1, <3>2, <3>3, <3>4, PartDone
  <2>8. ASSUME NEW k \in 1 .. n, sectors' = sectors \cup {Sector(Position)},
               memory' = Filled(Filled(before, Next2(k), Junk), Next2(k - 1), job.value),
               GivesUp, UNCHANGED accepted
        PROVE  SaveInv'
    <3>1. k \in 0 .. Left /\ k - 1 \in 0 .. Left
      <4>1. k \in 0 .. n /\ k - 1 \in 0 .. n
        BY <2>1, <2>2, <2>8, <1>4
      <4> QED
        BY <2>2, <4>1
    <3> DEFINE half == Filled(before, Next2(k), Junk)
    <3>2. /\ half \in [Cells -> SaveByte]
          /\ \A c \in Cells : half[c] = IF c \in Next2(k) THEN Junk ELSE before[c]
      BY <2>5, SaveConstants DEF Filled
    <3> HIDE DEF half
    <3>3. /\ memory' \in [Cells -> SaveByte]
          /\ \A c \in Cells : memory'[c] = IF c \in Next2(k - 1) THEN job.value ELSE half[c]
      <4>1. memory' = Filled(half, Next2(k - 1), job.value)
        BY <2>8 DEF half
      <4> QED
        BY <2>1, <4>1, <3>2, <1>4 DEF Filled
    <3>4. \A a \in DOMAIN accepted : memory'[a] = memory[a]
      <4>1. \A a \in DOMAIN accepted : a \in Cells /\ a \notin Next2(k) /\ a \notin Next2(k - 1)
        BY <2>1, <3>1, <1>a, <1>b
      <4> QED
        BY <4>1, <3>2, <3>3, <2>5
    <3> QED
      BY <2>1, <2>8, <3>3, <3>4, PartFails
  <2> QED
    BY <2>4, <2>6, <2>7, <2>8
<1>7. CASE EepromPart
  <2> DEFINE n == Upto(UnitSize)
             unit == {c \in Cells : c \div UnitSize = Position \div UnitSize}
             mine == Position .. Position + n - 1
  <2>1. ~Free /\ config.kind = "eeprom" /\ UNCHANGED <<chip, config, sectors>>
    BY <1>7 DEF EepromPart
  <2>2. n \in 1 .. Left /\ n \in 0 .. Left /\ Next2(n) = mine
    BY <2>1, <1>c
  <2>3. \/ /\ memory' = [c \in Cells |-> IF c \in mine THEN job.value
                                         ELSE IF c \in unit THEN RestOfUnit(c) ELSE memory[c]]
           /\ Onwards(n)
        \/ /\ memory' \in {memory, Filled(memory, unit, Junk)}
           /\ GivesUp /\ accepted' = Without(unit)
    BY <1>7 DEF EepromPart
  <2> HIDE DEF n, unit
  <2>4. CASE /\ memory' = [c \in Cells |-> IF c \in mine THEN job.value
                                           ELSE IF c \in unit THEN RestOfUnit(c) ELSE memory[c]]
             /\ Onwards(n)
    <3>1. /\ memory' \in [Cells -> SaveByte]
          /\ \A c \in Cells : memory'[c] = IF c \in mine THEN job.value ELSE memory[c]
      BY <2>1, <2>4, <1>0, <1>4 DEF SaveShape, RestOfUnit
    <3>2. \A a \in mine : a \in Cells /\ memory'[a] = job.value
      BY <2>1, <2>2, <3>1, <1>b
    <3>3. \A a \in DOMAIN accepted \cup job.offset .. Position - 1 : memory'[a] = memory[a]
      <4>1. \A a \in job.offset .. Position - 1 : a \notin mine
        BY <2>1, <2>2, <1>b
      <4>2. \A a \in DOMAIN accepted : a \notin mine
        BY <2>1, <2>2, <1>b
      <4> QED
        BY <2>1, <3>1, <4>1, <4>2, <1>a
    <3> QED
      BY <2>1, <2>2, <2>4, <3>1, <3>2, <3>3, PartDone
  <2>5. CASE /\ memory' \in {memory, Filled(memory, unit, Junk)}
             /\ GivesUp /\ accepted' = Without(unit)
    <3>1. /\ memory' \in [Cells -> SaveByte]
          /\ \A c \in Cells : c \notin unit => memory'[c] = memory[c]
      BY <2>5, <1>d, SaveConstants DEF Filled
    <3>2. \A a \in DOMAIN accepted' :
            a \in DOMAIN accepted /\ a \notin unit /\ accepted'[a] = accepted[a]
      BY <2>5 DEF Without
    <3>3. \A a \in DOMAIN accepted' : memory'[a] = memory[a]
      BY <2>1, <3>1, <3>2, <1>a
    <3> QED
      BY <2>1, <2>5, <3>1, <3>2, <3>3, PartFails
  <2> QED
    BY <2>3, <2>4, <2>5
<1>8. CASE ProbeSave
  <2>1. /\ Free /\ memory' = memory /\ UNCHANGED <<chip, config, sectors, job, accepted>>
        /\ selected' \in {0, selected}
    BY <1>8, <1>0, ProbesRestore DEF SaveShape, ProbeSave
  <2>2. selected = 0 /\ Free'
    BY <2>1, <1>0 DEF Fits, Free
  <2> QED
    BY <2>1, <2>2, <1>0 DEF SaveInv, SaveShape, Fits, Kept, Done, Cells, Sector
<1>9. CASE UNCHANGED saveVars
  <2>1. UNCHANGED <<chip, memory, selected, config, sectors, job, accepted>>
    BY <1>9 DEF saveVars
  <2> QED
    BY <2>1, <1>0 DEF SaveInv, SaveShape, Fits, Kept, Done, Cells, Free, Position, Span, Sector
<1> QED
  BY <1>1, <1>2, <1>3, <1>5, <1>6, <1>7, <1>8, <1>9 DEF SaveNext

LEMMA SaveInvariant == SaveSpec => []SaveInv
<1>1. SaveInv /\ [SaveNext]_saveVars => SaveInv'
  BY SaveStep
<1> QED
  BY <1>1, SaveAtFirst, PTL DEF SaveSpec

\* cart_gba.c:563-632, 1196-1227: what was reported as written since set_size reads back, in
\* SRAM, flash and EEPROM of any size, whatever was written or failed elsewhere and whatever was
\* probed.
THEOREM SavesReadBack == SaveSpec => []AcceptedStays
<1>1. SaveInv => AcceptedStays
  <2> SUFFICES ASSUME SaveInv, NEW a \in DOMAIN accepted PROVE ReadAt(a) = accepted[a]
    BY DEF AcceptedStays
  <2>1. SaveShape /\ Fits /\ a \in 0 .. config.size - 1 /\ memory[a] = accepted[a]
    BY DEF SaveInv, Kept
  <2> QED
    BY <2>1, ReadBack
<1> QED
  BY <1>1, SaveInvariant, PTL

\* A step changes SRAM or EEPROM only near the write in progress.
LEMMA NearOnly ==
  ASSUME SaveInv, [SaveNext]_saveVars, chip.kind # "flash", NEW a \in Cells, ~Near(a)
  PROVE  memory'[a] = memory[a]
<1>0. SaveShape /\ Fits /\ Kept
  BY DEF SaveInv
<1>1. \A n \in 0 .. Left : ~Free => Next2(n) \subseteq Span(job) /\ Position \in Span(job)
  <2> SUFFICES ASSUME NEW n \in 0 .. Left, ~Free
               PROVE  Next2(n) \subseteq Span(job) /\ Position \in Span(job)
    OBVIOUS
  <2>1. /\ Position = job.offset + job.done /\ Position + Left = job.offset + job.length
        /\ Next2(n) = Position .. Position + n - 1 /\ Position \in Span(job)
        /\ job.offset \in Nat /\ job.done \in Nat /\ job.length \in Nat /\ Left \in Nat
    BY <1>0, Parts DEF SaveShape
  <2> QED
    BY <2>1, SMTT(30) DEF Span
<1>2. \A size \in Nat \ {0} : ~Free => Upto(size) \in 1 .. Left /\ Left \in Nat
  BY <1>0, Parts
<1>3. CASE SramPart
  <2>1. ~Free /\ config.kind = "sram"
    BY <1>3 DEF SramPart
  <2>2. a \notin Span(job)
    BY <2>1 DEF Near
  <2>3. \E k \in 0 .. Left : memory' = Filled(memory, Next2(k), job.value)
    <3>1. Upto(BankSize) \in 1 .. Left /\ Left \in Nat
      BY <2>1, <1>2, SaveConstants
    <3> QED
      BY <1>3, <3>1 DEF SramPart
  <2> QED
    BY <2>1, <2>2, <2>3, <1>1 DEF Filled
<1>4. CASE EepromPart
  <2> DEFINE n == Upto(UnitSize)
             unit == {c \in Cells : c \div UnitSize = Position \div UnitSize}
  <2>1. ~Free /\ config.kind = "eeprom"
    BY <1>4 DEF EepromPart
  <2>2. n \in 0 .. Left /\ Left \in Nat
    BY <2>1, <1>2, SaveConstants
  <2>3. /\ Next2(n) = Position .. Position + n - 1 /\ Next2(n) \subseteq Span(job)
        /\ Position \in Span(job)
    <3>1. n \in Nat
      BY <2>2
    <3>2. Next2(n) = Position .. Position + n - 1
      BY <2>1, <3>1, <1>0, Parts
    <3> QED
      BY <2>1, <2>2, <3>2, <1>1, Zenon
  <2>4. \/ memory' = [c \in Cells |-> IF c \in Position .. Position + n - 1 THEN job.value
                                      ELSE IF c \in unit THEN RestOfUnit(c) ELSE memory[c]]
        \/ /\ memory' \in {memory, Filled(memory, unit, Junk)}
           /\ GivesUp /\ accepted' = Without(unit)
    BY <1>4 DEF EepromPart
  <2>5. a \notin Span(job)
    <3>1. SUFFICES ASSUME a \in Span(job) PROVE Near(a)
      OBVIOUS
    <3> QED
      BY <3>1, <2>1 DEF Near
  <2> HIDE DEF n
  <2>6. CASE memory' = [c \in Cells |-> IF c \in Position .. Position + n - 1 THEN job.value
                                        ELSE IF c \in unit THEN RestOfUnit(c) ELSE memory[c]]
    BY <2>3, <2>5, <2>6 DEF RestOfUnit
  <2>7. CASE /\ memory' \in {memory, Filled(memory, unit, Junk)}
             /\ GivesUp /\ accepted' = Without(unit)
    <3>1. job' = NoJob
      BY <2>7 DEF GivesUp
    <3>2. Span(job) \cap DOMAIN accepted' = {}
      BY <2>1, <2>7, <1>0 DEF Without, Kept
    <3>3. a \notin unit
      BY <2>1, <2>3, <3>1, <3>2 DEF Near
    <3> HIDE DEF unit
    <3> QED
      BY <2>7, <3>3 DEF Filled
  <2> QED
    BY <2>4, <2>6, <2>7
<1>5. CASE FlashPart
  <2>1. ~Free /\ config.kind = "flash"
    BY <1>5 DEF FlashPart
  <2>2. config.size # 0
    <3>1. Position \in 0 .. config.size - 1 /\ config.size \in Nat
      BY <2>1, <1>0, Parts DEF SaveShape
    <3> QED
      BY <3>1
  <2> QED
    BY <2>1, <2>2, <1>0 DEF Fits
<1>6. CASE ProbeSave
  BY <1>6, <1>0, ProbesRestore DEF SaveShape
<1>7. ASSUME NEW type \in Kind \cup {"none"}, NEW size \in 0 .. 2 * BankSize, Configure(type, size)
      PROVE  memory' = memory
  BY <1>7 DEF Configure
<1>8. ASSUME NEW offset \in Cells, NEW length \in SaveLengths, NEW value \in Data,
             WriteSave(offset, length, value)
      PROVE  memory' = memory
  BY <1>8 DEF WriteSave
<1>9. CASE SetSaveSize \/ UNCHANGED saveVars
  BY <1>9 DEF SetSaveSize, saveVars
<1> QED
  BY <1>3, <1>4, <1>5, <1>6, <1>7, <1>8, <1>9 DEF SaveNext

\* cart_gba.c:530-561, 670-706, 793-832: SRAM and EEPROM of any size change only where a write
\* goes, or in the unit where it fails, and a probe leaves them as they were.
THEOREM OtherBytesStay == SaveSpec => OthersStay
<1>1. SaveInv /\ [SaveNext]_saveVars =>
        (chip.kind # "flash" => \A a \in Cells : ~Near(a) => memory'[a] = memory[a])
  BY NearOnly
<1> QED
  BY <1>1, SaveInvariant, PTL DEF SaveSpec, OthersStay

-----------------------------------------------------------------------------
(* Goomba Color's cartridges                                                *)

Byte == 0 .. 255
Kinds == {"mbc0", "mbc1", "mbc2", "mbc3", "mbc4", "mbc5", "mbc7", "huc1", "huc3"}
Odd(v) == v % 2 = 1
Asked(v) == IF v = Never THEN 0 ELSE v
Opens(v) == v % 16 = 10

Registers == [low : Byte, high : Byte, enable : Byte, mode : Byte, bank : Byte, select : Byte,
              time : [dayL : Nat, hrs : Nat, min : Nat, sec : Nat], rom : 0 .. cart.rom - 1,
              at : 0 .. cart.ram - 1, read : Readers, write : {"empty", "ram"}]

Writes == [Purposes -> Byte \cup {Never}]

\* BankWanted and ClockAsked of any writes.
WantedBank(w) ==
  LET b == w.bank
      upper == IF w.select = Never THEN 0 ELSE w.select % 4
      ramMode == w.mode # Never /\ w.mode % 2 = 1
  IN  CASE kind = "mbc1" -> NotZero(b % 32) + (IF ramMode THEN 0 ELSE 32 * upper)
        [] kind = "mbc2" -> NotZero(b % 16)
        [] kind = "mbc5" -> b + (IF w.high = Never THEN 0 ELSE 256 * (w.high % 2))
        [] kind = "mbc7" -> NotZero(b % 128)
        [] OTHER -> b
AsksClock(w) == kind = "mbc3" /\ w.select # Never /\ (w.select \div 8) % 2 = 1

\* The registers are those of the last write for each purpose.
Low(d, w) ==
  /\ kind = "mbc1" => d.low < 32 /\ (w.bank # Never => d.low = NotZero(w.bank % 32))
  /\ kind = "mbc5" => d.low = Asked(w.bank) /\ d.high = Asked(w.high) % 2
Banked(d, w) ==
  IF kind \in {"mbc1", "huc1"}
  THEN /\ d.select = Asked(w.select) % 4 /\ d.mode = Asked(w.mode)
       /\ d.high = IF Odd(d.mode) THEN 0 ELSE d.select
       /\ d.bank = IF Odd(d.mode) THEN d.select ELSE 0
  ELSE d.bank = Asked(w.select)
Opened(d, w) ==
  IF kind = "mbc7" THEN w.select # Never => d.enable = IF w.select < 9 THEN 10 ELSE 0
  ELSE d.enable = Asked(w.enable)
Mapped(d, w) == w.bank # Never /\ kind # "huc1" => d.rom = WantedBank(w) % cart.rom
Timed(d, t) == d.time = IF t = Never THEN NoTime ELSE Packed(t)

Follows(d, w) == Low(d, w) /\ Banked(d, w) /\ Opened(d, w) /\ Mapped(d, w)

\* The windows are those of the registers, once it was said whether RAM is enabled.
ShowsRam(d) ==
  /\ d.read = IF Opens(d.enable) THEN "ram" ELSE "empty"
  /\ d.write = IF Opens(d.enable) THEN Writer ELSE "empty"
  /\ d.at = d.bank % cart.ram
HidesRam(d, w) == AsksClock(w) /\ d.write = "empty"
Told(w) == IF kind = "mbc7" THEN w.select # Never ELSE w.enable # Never
Shown(d, w) ==
  /\ Told(w) => ShowsRam(d) \/ HidesRam(d, w)
  /\ d.read \notin {"empty", "ram"} => HidesRam(d, w)

Saved(k) ==
  k.parts # <<>> =>
    /\ k.m \in Registers /\ k.wrote \in Writes /\ k.moment \in Moments \cup {Never}
    /\ Follows(k.m, k.wrote) /\ Timed(k.m, k.moment)
    /\ \A i \in 1 .. Len(k.parts) : k.parts[i][2] > 0 => Loads(k.parts[i])

MbcInv ==
  /\ cart \in Cartridges /\ chipped \in BOOLEAN
  /\ m \in Registers /\ wrote \in Writes /\ moment \in Moments \cup {Never}
  /\ Follows(m, wrote) /\ Timed(m, moment) /\ Shown(m, wrote) /\ Saved(kept)

-----------------------------------------------------------------------------
LEMMA CartridgeFacts ==
  ASSUME cart \in Cartridges
  PROVE  /\ cart.rom \in Nat \ {0} /\ cart.ram \in Nat \ {0} /\ kind \in Kinds
         /\ cart.tried \subseteq (0 .. 3) \X BOOLEAN \X (0 .. 255)
<1>1. kind \in Kinds
  BY Zenon DEF kind, Controller, Kinds
<1> QED
  BY <1>1, MbcAssumption DEF MbcAssumption

LEMMA Remainder == \A a \in Nat, n \in Nat \ {0} : a % n \in 0 .. n - 1
  OBVIOUS

LEMMA SameRemainder == \A n \in Nat \ {0} : \A a \in 0 .. n - 1 : a % n = a
  OBVIOUS

LEMMA NeverIsNoNumber == Never \notin Byte /\ Never \notin Nat
  BY MbcAssumption DEF MbcAssumption, Byte

LEMMA EnableIs ==
  ASSUME cart \in Cartridges, NEW d \in Registers, NEW v \in Byte
  PROVE  /\ RamEnable(d, v) \in Registers /\ ShowsRam(RamEnable(d, v))
         /\ RamEnable(d, v).enable = v /\ RamEnable(d, v).low = d.low
         /\ RamEnable(d, v).high = d.high /\ RamEnable(d, v).mode = d.mode
         /\ RamEnable(d, v).bank = d.bank /\ RamEnable(d, v).select = d.select
         /\ RamEnable(d, v).time = d.time /\ RamEnable(d, v).rom = d.rom
         /\ RamEnable(d, v).read \in {"empty", "ram"}
<1> DEFINE n == RamEnable(d, v)
           x == d.bank % cart.ram
           r == IF Opens(v) THEN "ram" ELSE "empty"
           w == IF Opens(v) THEN Writer ELSE "empty"
<1>1. x \in 0 .. cart.ram - 1
  <2>1. d.bank \in Nat
    BY DEF Registers, Byte
  <2> QED
    BY <2>1, CartridgeFacts, Remainder
<1>2. r \in Readers /\ r \in {"empty", "ram"} /\ w \in {"empty", "ram"}
  BY DEF Readers, Writer
<1>3. n = [d EXCEPT !.enable = v, !.write = w, !.read = r, !.at = x]
  BY Zenon DEF RamEnable, Opens
<1> HIDE DEF x, r, w, n
<1>4. n \in Registers
  BY <1>1, <1>2, <1>3 DEF Registers
<1>5. /\ n.enable = v /\ n.write = w /\ n.read = r /\ n.at = x /\ n.low = d.low
      /\ n.high = d.high /\ n.mode = d.mode /\ n.bank = d.bank /\ n.select = d.select
      /\ n.time = d.time /\ n.rom = d.rom
  BY <1>3 DEF Registers
<1>6. ShowsRam(n)
  BY <1>5 DEF ShowsRam, x, r, w
<1> QED
  BY <1>2, <1>4, <1>5, <1>6 DEF n

LEMMA SelectIs ==
  ASSUME cart \in Cartridges, NEW d \in Registers
  PROVE  /\ RamSelect(d) \in Registers /\ ShowsRam(RamSelect(d))
         /\ RamSelect(d).enable = d.enable /\ RamSelect(d).low = d.low
         /\ RamSelect(d).high = d.high /\ RamSelect(d).mode = d.mode
         /\ RamSelect(d).bank = d.bank /\ RamSelect(d).select = d.select
         /\ RamSelect(d).time = d.time /\ RamSelect(d).rom = d.rom
         /\ RamSelect(d).read \in {"empty", "ram"}
<1>1. d.enable \in Byte
  BY DEF Registers
<1> QED
  BY <1>1, EnableIs DEF RamSelect

LEMMA MapIs ==
  ASSUME cart \in Cartridges, NEW d \in Registers, NEW b \in Nat
  PROVE  /\ map4567(d, b) \in Registers /\ map4567(d, b).rom = b % cart.rom
         /\ map4567(d, b).low = d.low /\ map4567(d, b).high = d.high
         /\ map4567(d, b).enable = d.enable /\ map4567(d, b).mode = d.mode
         /\ map4567(d, b).bank = d.bank /\ map4567(d, b).select = d.select
         /\ map4567(d, b).time = d.time /\ map4567(d, b).at = d.at
         /\ map4567(d, b).read = d.read /\ map4567(d, b).write = d.write
<1> DEFINE x == b % cart.rom
<1>1. x \in 0 .. cart.rom - 1
  BY CartridgeFacts, Remainder
<1>2. map4567(d, b) = [d EXCEPT !.rom = x]
  BY DEF map4567
<1> HIDE DEF x
<1> QED
  BY <1>1, <1>2 DEF Registers, x

\* What a write leaves behind is right.
Right(n, w) ==
  n \in Registers /\ w \in Writes /\ Follows(n, w) /\ Shown(n, w) /\ n.time = m.time

LEMMA WroteIsWrites == ASSUME MbcInv PROVE wrote \in Writes
BY DEF MbcInv

LEMMA EnablePut ==
  ASSUME NEW v \in Writes, NEW value \in Byte
  PROVE  LET w == [v EXCEPT !["enable"] = value]
         IN /\ w \in Writes /\ w["enable"] = value /\ w["bank"] = v["bank"]
            /\ w["high"] = v["high"] /\ w["select"] = v["select"]
            /\ w["mode"] = v["mode"]
BY SMT DEF Writes, Purposes

LEMMA BankPut ==
  ASSUME NEW v \in Writes, NEW value \in Byte
  PROVE  LET w == [v EXCEPT !["bank"] = value]
         IN /\ w \in Writes /\ w["bank"] = value /\ w["enable"] = v["enable"]
            /\ w["high"] = v["high"] /\ w["select"] = v["select"]
            /\ w["mode"] = v["mode"]
BY SMT DEF Writes, Purposes

LEMMA HighPut ==
  ASSUME NEW v \in Writes, NEW value \in Byte
  PROVE  LET w == [v EXCEPT !["high"] = value]
         IN /\ w \in Writes /\ w["high"] = value /\ w["enable"] = v["enable"]
            /\ w["bank"] = v["bank"] /\ w["select"] = v["select"]
            /\ w["mode"] = v["mode"]
BY SMT DEF Writes, Purposes

LEMMA SelectPut ==
  ASSUME NEW v \in Writes, NEW value \in Byte
  PROVE  LET w == [v EXCEPT !["select"] = value]
         IN /\ w \in Writes /\ w["select"] = value /\ w["enable"] = v["enable"]
            /\ w["bank"] = v["bank"] /\ w["high"] = v["high"]
            /\ w["mode"] = v["mode"]
BY SMT DEF Writes, Purposes

LEMMA ModePut ==
  ASSUME NEW v \in Writes, NEW value \in Byte
  PROVE  LET w == [v EXCEPT !["mode"] = value]
         IN /\ w \in Writes /\ w["mode"] = value /\ w["enable"] = v["enable"]
            /\ w["bank"] = v["bank"] /\ w["high"] = v["high"]
            /\ w["select"] = v["select"]
BY SMT DEF Writes, Purposes

LEMMA AskedIs == \A v \in Byte \cup {Never} : Asked(v) \in Byte /\ (v \in Byte => Asked(v) = v)
BY NeverIsNoNumber DEF Asked, Byte

\* A write that changes no register the windows depend on.
LEMMA StaysShown ==
  ASSUME NEW d, NEW n, NEW v, NEW w, Shown(d, v),
         n.read = d.read, n.write = d.write, n.at = d.at, n.bank = d.bank, n.enable = d.enable,
         w["select"] = v["select"], w["enable"] = v["enable"]
  PROVE  Shown(n, w)
BY DEF Shown, ShowsRam, HidesRam, AsksClock, Told

LEMMA EnableWritten ==
  ASSUME MbcInv, NEW value \in Byte, kind \notin {"mbc0", "mbc7"}
  PROVE  Right(RamEnable(m, value), [wrote EXCEPT !["enable"] = value])
<1> DEFINE n == RamEnable(m, value)
           w == [wrote EXCEPT !["enable"] = value]
<1>1. /\ w \in Writes /\ w["enable"] = value /\ w["bank"] = wrote["bank"]
      /\ w["high"] = wrote["high"] /\ w["select"] = wrote["select"] /\ w["mode"] = wrote["mode"]
  BY EnablePut, WroteIsWrites
<1>2. /\ n \in Registers /\ ShowsRam(n) /\ n.enable = value /\ n.low = m.low /\ n.high = m.high
      /\ n.mode = m.mode /\ n.bank = m.bank /\ n.select = m.select /\ n.time = m.time
      /\ n.rom = m.rom /\ n.read \in {"empty", "ram"}
  BY EnableIs DEF MbcInv
<1> HIDE DEF n, w
<1>3. Low(n, w) /\ Banked(n, w) /\ Mapped(n, w)
  BY <1>1, <1>2 DEF MbcInv, Follows, Low, Banked, Mapped, WantedBank
<1>4. Opened(n, w)
  BY <1>1, <1>2, AskedIs DEF Opened
<1>5. Shown(n, w)
  BY <1>2 DEF Shown
<1> QED
  BY <1>1, <1>2, <1>3, <1>4, <1>5 DEF Right, Follows, n, w

LEMMA LowByte == \A v \in Byte : /\ v % 32 \in 0 .. 31 /\ v % 16 \in 0 .. 15
                                 /\ v % 128 \in 0 .. 127 /\ v % 64 \in 0 .. 63
                                 /\ v % 4 \in 0 .. 3 /\ v % 2 \in 0 .. 1
BY DEF Byte

\* The upper bits are joined to those of a low register of five bits.
LEMMA JoinedIs ==
  ASSUME NEW d \in Registers
  PROVE  /\ Joined(d) \in Nat
         /\ d.low < 32 => Joined(d) = d.low + 32 * d.high
<1> DEFINE lo == d.low
           hi == d.high
<1>1. lo \in 0 .. 255 /\ hi \in 0 .. 255
  BY DEF Registers, Byte
<1> HIDE DEF lo, hi
<1>2. /\ lo % 32 \in Nat /\ lo \div 32 \in Nat
      /\ lo < 32 => lo % 32 = lo /\ lo \div 32 = 0
  BY <1>1
<1>3. (IF lo \div 32 = 1 /\ hi % 2 = 0 THEN hi + 1 ELSE hi) \in Nat
  BY <1>1
<1>4. Joined(d) = (lo % 32) + 32 * (IF lo \div 32 = 1 /\ hi % 2 = 0 THEN hi + 1 ELSE hi)
  BY DEF Joined, lo, hi
<1>5. Joined(d) \in Nat /\ (lo < 32 => Joined(d) = lo + 32 * hi)
  BY <1>1, <1>2, <1>3, <1>4
<1> QED
  BY <1>5 DEF lo, hi

LEMMA LowIs ==
  ASSUME NEW d \in Registers, NEW v \in Byte
  PROVE  /\ [d EXCEPT !.low = v] \in Registers /\ [d EXCEPT !.low = v].low = v
         /\ [d EXCEPT !.low = v].high = d.high /\ [d EXCEPT !.low = v].enable = d.enable
         /\ [d EXCEPT !.low = v].mode = d.mode /\ [d EXCEPT !.low = v].bank = d.bank
         /\ [d EXCEPT !.low = v].select = d.select /\ [d EXCEPT !.low = v].time = d.time
         /\ [d EXCEPT !.low = v].at = d.at /\ [d EXCEPT !.low = v].read = d.read
         /\ [d EXCEPT !.low = v].write = d.write /\ [d EXCEPT !.low = v].rom = d.rom
BY DEF Registers

LEMMA NotZeroIs == \A v \in 0 .. 127 : /\ NotZero(v) \in 1 .. 127 /\ (v < 32 => NotZero(v) < 32)
                                       /\ NotZero(v) \in Byte /\ NotZero(v) \in Nat
BY DEF NotZero, Byte

\* The bank registers: the low bits are written.
LEMMA LowWritten ==
  ASSUME MbcInv, NEW value \in Byte, NEW lo \in Byte, NEW b \in Nat, NEW w, NEW n,
         n = map4567([m EXCEPT !.low = lo], b), w = [wrote EXCEPT !["bank"] = value],
         kind \in {"mbc1", "mbc5", "mbc7", "huc1"},
         kind = "mbc1" => lo = NotZero(value % 32),
         kind = "mbc5" => lo = value,
         kind # "huc1" => b = WantedBank(w)
  PROVE  Right(n, w)
<1> DEFINE d == [m EXCEPT !.low = lo]
<1>1. /\ w \in Writes /\ w["bank"] = value /\ w["enable"] = wrote["enable"]
      /\ w["high"] = wrote["high"] /\ w["select"] = wrote["select"] /\ w["mode"] = wrote["mode"]
  BY BankPut, WroteIsWrites
<1>2. /\ d \in Registers /\ d.low = lo /\ d.high = m.high /\ d.enable = m.enable
      /\ d.mode = m.mode /\ d.bank = m.bank /\ d.select = m.select /\ d.time = m.time
      /\ d.at = m.at /\ d.read = m.read /\ d.write = m.write
  BY LowIs DEF MbcInv
<1>3. n = map4567(d, b)
  OBVIOUS
<1> HIDE DEF d
<1>4. /\ n \in Registers /\ n.rom = b % cart.rom /\ n.low = lo /\ n.high = m.high
      /\ n.enable = m.enable /\ n.mode = m.mode /\ n.bank = m.bank /\ n.select = m.select
      /\ n.time = m.time /\ n.at = m.at /\ n.read = m.read /\ n.write = m.write
  <2>1. cart \in Cartridges
    BY DEF MbcInv
  <2> QED
    BY <1>2, <1>3, <2>1, MapIs
<1>5. Low(n, w)
  <2>1. kind = "mbc1" => lo < 32
    <3>1. value % 32 \in 0 .. 127 /\ value % 32 < 32
      BY LowByte
    <3> QED
      BY <3>1, NotZeroIs
  <2> QED
    BY <1>1, <1>4, <2>1, AskedIs DEF MbcInv, Follows, Low
<1>6. Banked(n, w) /\ Opened(n, w)
  BY <1>1, <1>4 DEF MbcInv, Follows, Banked, Opened
<1>7. Mapped(n, w)
  BY <1>4 DEF Mapped
<1>8. Shown(n, w)
  BY <1>1, <1>4, StaysShown DEF MbcInv
<1> QED
  BY <1>1, <1>4, <1>5, <1>6, <1>7, <1>8 DEF Right, Follows

\* The controllers without a low register show the bank at once.
LEMMA BankShown ==
  ASSUME MbcInv, NEW value \in Byte, NEW b \in Nat, NEW w, NEW n,
         n = map4567(m, b), w = [wrote EXCEPT !["bank"] = value],
         kind \in {"mbc2", "mbc3", "mbc4", "huc3"}, b = WantedBank(w)
  PROVE  Right(n, w)
<1>1. /\ w \in Writes /\ w["bank"] = value /\ w["enable"] = wrote["enable"]
      /\ w["high"] = wrote["high"] /\ w["select"] = wrote["select"] /\ w["mode"] = wrote["mode"]
  BY BankPut, WroteIsWrites
<1>2. /\ n \in Registers /\ n.rom = b % cart.rom /\ n.low = m.low /\ n.high = m.high
      /\ n.enable = m.enable /\ n.mode = m.mode /\ n.bank = m.bank /\ n.select = m.select
      /\ n.time = m.time /\ n.at = m.at /\ n.read = m.read /\ n.write = m.write
  <2>1. cart \in Cartridges /\ m \in Registers
    BY DEF MbcInv
  <2> QED
    BY <2>1, MapIs
<1>3. Low(n, w) /\ Banked(n, w) /\ Opened(n, w)
  BY <1>1, <1>2 DEF MbcInv, Follows, Low, Banked, Opened
<1>4. Mapped(n, w)
  BY <1>2 DEF Mapped
<1>5. Shown(n, w)
  BY <1>1, <1>2, StaysShown DEF MbcInv
<1> QED
  BY <1>1, <1>2, <1>3, <1>4, <1>5 DEF Right, Follows

\* The ninth bit of MBC5's bank.
LEMMA HighWritten ==
  ASSUME MbcInv, NEW value \in Byte, NEW w, NEW n, kind = "mbc5",
         NEW bit \in BOOLEAN, bit, n = MBC5map0(m, bit, value), w = [wrote EXCEPT !["high"] = value]
  PROVE  Right(n, w)
<1> DEFINE hi == value % 2
           d == [m EXCEPT !.high = hi]
           b == d.low + 256 * d.high
<1>1. /\ w \in Writes /\ w["high"] = value /\ w["enable"] = wrote["enable"]
      /\ w["bank"] = wrote["bank"] /\ w["select"] = wrote["select"] /\ w["mode"] = wrote["mode"]
  BY HighPut, WroteIsWrites
<1>2. hi \in Byte /\ hi \in 0 .. 1
  BY DEF Byte
<1>3. n = map4567(d, b)
  BY DEF MBC5map0
<1> HIDE DEF hi
<1>4. /\ d \in Registers /\ d.low = m.low /\ d.high = hi /\ d.enable = m.enable
      /\ d.mode = m.mode /\ d.bank = m.bank /\ d.select = m.select /\ d.time = m.time
      /\ d.at = m.at /\ d.read = m.read /\ d.write = m.write
  BY <1>2 DEF MbcInv, Registers
<1>5. b = m.low + 256 * hi /\ b \in Nat
  BY <1>2, <1>4 DEF MbcInv, Registers, Byte
<1> HIDE DEF d, b
<1>6. /\ n \in Registers /\ n.rom = b % cart.rom /\ n.low = m.low /\ n.high = hi
      /\ n.enable = m.enable /\ n.mode = m.mode /\ n.bank = m.bank /\ n.select = m.select
      /\ n.time = m.time /\ n.at = m.at /\ n.read = m.read /\ n.write = m.write
  <2>1. cart \in Cartridges /\ d \in Registers /\ b \in Nat
    BY <1>4, <1>5 DEF MbcInv
  <2>2. /\ n \in Registers /\ n.rom = b % cart.rom /\ n.low = d.low /\ n.high = d.high
        /\ n.enable = d.enable /\ n.mode = d.mode /\ n.bank = d.bank /\ n.select = d.select
        /\ n.time = d.time /\ n.at = d.at /\ n.read = d.read /\ n.write = d.write
    <3>1. PICK c \in Nat : c = b
      BY <2>1
    <3>2. n = map4567(d, c) /\ (n.rom = c % cart.rom => n.rom = b % cart.rom)
      BY <1>3, <3>1, Zenon
    <3> DEFINE x == map4567(d, c)
    <3>3. /\ x \in Registers /\ x.rom = c % cart.rom /\ x.low = d.low /\ x.high = d.high
          /\ x.enable = d.enable /\ x.mode = d.mode /\ x.bank = d.bank /\ x.select = d.select
          /\ x.time = d.time /\ x.at = d.at /\ x.read = d.read /\ x.write = d.write
      BY <2>1, MapIs, Zenon
    <3> HIDE DEF x
    <3> QED
      BY <3>2, <3>3 DEF x
  <2> QED
    BY <1>4, <2>2
<1>7. Low(n, w)
  <2>1. Asked(w["high"]) = value
    BY <1>1, AskedIs
  <2>2. m.low = Asked(wrote["bank"])
    BY DEF MbcInv, Follows, Low
  <2> QED
    BY <1>1, <1>6, <2>1, <2>2 DEF Low, hi
<1>8. Banked(n, w) /\ Opened(n, w)
  BY <1>1, <1>6 DEF MbcInv, Follows, Banked, Opened
<1>9. Mapped(n, w)
  <2> SUFFICES ASSUME w["bank"] # Never PROVE n.rom = WantedBank(w) % cart.rom
    BY DEF Mapped
  <2>1. w["bank"] \in Byte /\ m.low = w["bank"]
    BY <1>1, AskedIs DEF MbcInv, Follows, Low, Writes, Purposes
  <2>2. w["high"] # Never
    BY <1>1, NeverIsNoNumber
  <2>3. WantedBank(w) = b
    BY <1>1, <1>5, <2>1, <2>2 DEF WantedBank, hi
  <2> QED
    BY <1>6, <2>3
<1>10. Shown(n, w)
  BY <1>1, <1>6, StaysShown DEF MbcInv
<1> QED
  BY <1>1, <1>6, <1>7, <1>8, <1>9, <1>10 DEF Right, Follows

LEMMA WantedFits == ASSUME NEW w \in Writes, w["bank"] # Never PROVE WantedBank(w) \in Nat
<1>1. w["bank"] \in Byte /\ w["select"] \in Byte \cup {Never} /\ w["high"] \in Byte \cup {Never}
  BY DEF Writes, Purposes
<1>2. NotZero(w["bank"] % 32) \in Nat /\ NotZero(w["bank"] % 16) \in Nat
      /\ NotZero(w["bank"] % 128) \in Nat
  <2>1. /\ w["bank"] % 32 \in 0 .. 127 /\ w["bank"] % 16 \in 0 .. 127
        /\ w["bank"] % 128 \in 0 .. 127
    BY <1>1, LowByte
  <2> QED
    BY <2>1, NotZeroIs
<1>3. (IF w["select"] = Never THEN 0 ELSE w["select"] % 4) \in Nat
  BY <1>1, LowByte
<1>4. (IF w["high"] = Never THEN 0 ELSE 256 * (w["high"] % 2)) \in Nat
  BY <1>1, LowByte
<1> QED
  BY <1>1, <1>2, <1>3, <1>4 DEF WantedBank, Byte

\* The first quarter's register of the bank, controller by controller.
LEMMA BankWritten ==
  ASSUME MbcInv, NEW value \in Byte, NEW bit \in BOOLEAN, kind # "mbc0",
         kind = "mbc2" => bit, kind = "mbc5" => ~bit
  PROVE  Right(Written(1, bit, value), [wrote EXCEPT !["bank"] = value])
<1> DEFINE n == Written(1, bit, value)
           w == [wrote EXCEPT !["bank"] = value]
           five == NotZero(value % 32)
           d(lo) == [m EXCEPT !.low = lo]
<1>0. /\ w \in Writes /\ w["bank"] = value /\ w["enable"] = wrote["enable"]
      /\ w["high"] = wrote["high"] /\ w["select"] = wrote["select"] /\ w["mode"] = wrote["mode"]
  BY BankPut, WroteIsWrites
<1>1. kind \in Kinds /\ m \in Registers
  BY CartridgeFacts DEF MbcInv
<1>2. value \in Nat /\ value # Never
  BY NeverIsNoNumber DEF Byte
<1>3. CASE kind = "mbc1"
  <2>1. n = map4567(d(five), Joined(d(five)))
    BY <1>3 DEF Written, MBC1map0
  <2>2. five \in Byte /\ five < 32
    <3>1. value % 32 \in 0 .. 127 /\ value % 32 < 32
      BY LowByte
    <3> QED
      BY <3>1, NotZeroIs
  <2> HIDE DEF five, n, w
  <2>3. d(five) \in Registers /\ d(five).low = five /\ d(five).high = m.high
    BY <1>1, <2>2, LowIs
  <2>4. Joined(d(five)) \in Nat /\ Joined(d(five)) = five + 32 * m.high
    BY <2>2, <2>3, JoinedIs
  <2>5. m.high = IF Odd(Asked(wrote["mode"])) THEN 0 ELSE Asked(wrote["select"]) % 4
    BY <1>3 DEF MbcInv, Follows, Banked
  <2>6. m.high = IF wrote["mode"] # Never /\ wrote["mode"] % 2 = 1 THEN 0
                 ELSE IF wrote["select"] = Never THEN 0 ELSE wrote["select"] % 4
    BY <2>5 DEF Asked, Odd
  <2>7. WantedBank(w) = five + (IF w["mode"] # Never /\ w["mode"] % 2 = 1 THEN 0
                                ELSE 32 * (IF w["select"] = Never THEN 0 ELSE w["select"] % 4))
    BY <1>0, <1>3 DEF WantedBank, five
  <2>8. WantedBank(w) = five + 32 * m.high
    BY <1>0, <2>6, <2>7
  <2> QED
    BY <1>3, <2>1, <2>2, <2>4, <2>8, LowWritten DEF five, n, w
<1>4. CASE kind = "mbc2"
  <2>1. n = map4567(m, NotZero(value % 16)) /\ NotZero(value % 16) \in Nat
    BY <1>4, LowByte, NotZeroIs DEF Written, MBC2map
  <2>2. WantedBank(w) = NotZero(value % 16)
    BY <1>0, <1>4 DEF WantedBank
  <2> QED
    BY <1>4, <2>1, <2>2, BankShown
<1>5. CASE kind \in {"mbc3", "mbc4", "huc3"}
  <2>1. n = map4567(m, value)
    BY <1>5 DEF Written
  <2>2. WantedBank(w) = value
    BY <1>0, <1>5 DEF WantedBank
  <2> QED
    BY <1>2, <1>5, <2>1, <2>2, BankShown
<1>6. CASE kind = "mbc5"
  <2>1. n = map4567(d(value), value + 256 * m.high)
    BY <1>1, <1>6 DEF Written, MBC5map0, Registers
  <2>2. m.high = Asked(wrote["high"]) % 2
    BY <1>6 DEF MbcInv, Follows, Low
  <2>3. m.high = IF w["high"] = Never THEN 0 ELSE w["high"] % 2
    BY <1>0, <2>2 DEF Asked
  <2>4. WantedBank(w) = value + (IF w["high"] = Never THEN 0 ELSE 256 * (w["high"] % 2))
    BY <1>0, <1>6 DEF WantedBank
  <2>5. WantedBank(w) = value + 256 * m.high
    BY <2>3, <2>4
  <2>6. WantedBank(w) \in Nat
    BY <1>0, <1>2, WantedFits
  <2> QED
    BY <1>6, <2>1, <2>5, <2>6, LowWritten
<1>7. CASE kind = "mbc7"
  <2> DEFINE seven == NotZero(value % 128)
  <2>1. seven \in Byte /\ seven \in Nat
    <3>1. value % 128 \in 0 .. 127
      BY LowByte
    <3> QED
      BY <3>1, NotZeroIs
  <2>2. n = map4567(d(seven), seven)
    BY <1>1, <1>7 DEF Written, MBC7map, Registers
  <2>3. WantedBank(w) = seven
    BY <1>0, <1>7 DEF WantedBank
  <2> QED
    BY <1>7, <2>1, <2>2, <2>3, LowWritten
<1>8. CASE kind = "huc1"
  <2> DEFINE six == NotZero(value % 64)
  <2>1. six \in Byte /\ six \in Nat
    <3>1. value % 64 \in 0 .. 127
      BY LowByte
    <3> QED
      BY <3>1, NotZeroIs
  <2>2. n = map4567(d(six), six)
    BY <1>1, <1>8 DEF Written, HUC1map0, Registers
  <2> QED
    BY <1>8, <2>1, <2>2, LowWritten
<1> QED
  BY <1>1, <1>3, <1>4, <1>5, <1>6, <1>7, <1>8 DEF Kinds

LEMMA MapJoined ==
  ASSUME cart \in Cartridges, NEW d \in Registers, Joined(d) \in Nat,
         NEW x, x = map4567(d, Joined(d))
  PROVE  /\ x \in Registers /\ x.rom = Joined(d) % cart.rom /\ x.low = d.low /\ x.high = d.high
         /\ x.enable = d.enable /\ x.mode = d.mode /\ x.bank = d.bank /\ x.select = d.select
         /\ x.time = d.time
BY MapIs, Zenon

\* MBC1's and HuC1's two registers for the upper bits and what they mean.
LEMMA ModeWritten ==
  ASSUME MbcInv, kind \in {"mbc1", "huc1"}, NEW s \in 0 .. 3, NEW v \in Byte, NEW w \in Writes,
         w["bank"] = wrote["bank"], w["enable"] = wrote["enable"],
         s = Asked(w["select"]) % 4, v = Asked(w["mode"]), NEW d, NEW n,
         d = [m EXCEPT !.select = s, !.mode = v, !.high = IF Odd(v) THEN 0 ELSE s,
                       !.bank = IF Odd(v) THEN s ELSE 0],
         n = RamSelect(map4567(d, Joined(d)))
  PROVE  Right(n, w)
<1> DEFINE hi == IF Odd(v) THEN 0 ELSE s
           ba == IF Odd(v) THEN s ELSE 0
           x == map4567(d, Joined(d))
<1>1. hi \in Byte /\ ba \in Byte /\ s \in Byte
  BY DEF Byte
<1>2. d = [m EXCEPT !.select = s, !.mode = v, !.high = hi, !.bank = ba]
  OBVIOUS
<1> HIDE DEF hi, ba, x
<1>3. /\ d \in Registers /\ d.low = m.low /\ d.high = hi /\ d.enable = m.enable
      /\ d.mode = v /\ d.bank = ba /\ d.select = s /\ d.time = m.time
  BY <1>1, <1>2 DEF MbcInv, Registers
<1>4. cart \in Cartridges /\ Joined(d) \in Nat
  BY <1>3, JoinedIs DEF MbcInv
<1>5. /\ x \in Registers /\ x.rom = Joined(d) % cart.rom /\ x.low = d.low /\ x.high = d.high
      /\ x.enable = d.enable /\ x.mode = d.mode /\ x.bank = d.bank /\ x.select = d.select
      /\ x.time = d.time
  <2>1. d \in Registers
    BY <1>3
  <2>2. PICK b \in Nat : b = Joined(d)
    BY <1>4
  <2>3. x = map4567(d, b)
    BY <2>2 DEF x
  <2>4. cart \in Cartridges
    BY <1>4
  <2>5. /\ x \in Registers /\ x.rom = b % cart.rom /\ x.low = d.low /\ x.high = d.high
        /\ x.enable = d.enable /\ x.mode = d.mode /\ x.bank = d.bank /\ x.select = d.select
        /\ x.time = d.time
    BY <2>1, <2>3, <2>4, MapIs, ZenonT(90)
  <2> QED
    BY <2>2, <2>5
<1>6. n = RamSelect(x)
  BY DEF x
<1>7. /\ n \in Registers /\ ShowsRam(n) /\ n.read \in {"empty", "ram"} /\ n.low = x.low
      /\ n.high = x.high /\ n.enable = x.enable /\ n.mode = x.mode /\ n.bank = x.bank
      /\ n.select = x.select /\ n.time = x.time /\ n.rom = x.rom
  BY <1>4, <1>5, <1>6, SelectIs
<1>8. /\ n.low = m.low /\ n.high = hi /\ n.enable = m.enable /\ n.mode = v /\ n.bank = ba
      /\ n.select = s /\ n.time = m.time /\ n.rom = Joined(d) % cart.rom
  BY <1>3, <1>5, <1>7
<1>9. Low(n, w) /\ Opened(n, w)
  BY <1>8 DEF MbcInv, Follows, Low, Opened
<1>10. Banked(n, w)
  BY <1>8 DEF Banked, hi, ba
<1>11. Mapped(n, w)
  <2> SUFFICES ASSUME w["bank"] # Never, kind = "mbc1" PROVE n.rom = WantedBank(w) % cart.rom
    BY DEF Mapped
  <2>1. m.low < 32 /\ m.low = NotZero(w["bank"] % 32)
    BY DEF MbcInv, Follows, Low
  <2>2. Joined(d) = m.low + 32 * hi
    BY <1>3, <2>1, JoinedIs
  <2>3. hi = IF w["mode"] # Never /\ w["mode"] % 2 = 1 THEN 0
             ELSE IF w["select"] = Never THEN 0 ELSE w["select"] % 4
    BY DEF hi, Asked, Odd
  <2>4. WantedBank(w) = NotZero(w["bank"] % 32) +
           (IF w["mode"] # Never /\ w["mode"] % 2 = 1 THEN 0
            ELSE 32 * (IF w["select"] = Never THEN 0 ELSE w["select"] % 4))
    BY DEF WantedBank
  <2>5. WantedBank(w) = m.low + 32 * hi
    BY <2>1, <2>3, <2>4
  <2> QED
    BY <1>8, <2>2, <2>5
<1>12. Shown(n, w)
  BY <1>7 DEF Shown
<1> QED
  BY <1>7, <1>8, <1>9, <1>10, <1>11, <1>12 DEF Right, Follows

\* The controllers that have a register of the RAM's bank alone.
LEMMA RamBankWritten ==
  ASSUME MbcInv, kind \in {"mbc3", "mbc5", "huc3"}, NEW value \in Byte, NEW w, NEW n,
         w = [wrote EXCEPT !["select"] = value], n = RamSelect([m EXCEPT !.bank = value])
  PROVE  Right(n, w)
<1> DEFINE d == [m EXCEPT !.bank = value]
<1>1. /\ w \in Writes /\ w["select"] = value /\ w["enable"] = wrote["enable"]
      /\ w["bank"] = wrote["bank"] /\ w["high"] = wrote["high"] /\ w["mode"] = wrote["mode"]
  BY SelectPut, WroteIsWrites
<1>2. /\ d \in Registers /\ d.low = m.low /\ d.high = m.high /\ d.enable = m.enable
      /\ d.bank = value /\ d.time = m.time /\ d.rom = m.rom
  BY DEF MbcInv, Registers
<1>3. n = RamSelect(d) /\ cart \in Cartridges
  BY DEF MbcInv
<1> HIDE DEF d
<1>4. /\ n \in Registers /\ ShowsRam(n) /\ n.read \in {"empty", "ram"} /\ n.low = m.low
      /\ n.high = m.high /\ n.enable = m.enable /\ n.bank = value /\ n.time = m.time
      /\ n.rom = m.rom
  <2>1. /\ n \in Registers /\ ShowsRam(n) /\ n.read \in {"empty", "ram"} /\ n.low = d.low
        /\ n.high = d.high /\ n.enable = d.enable /\ n.bank = d.bank /\ n.time = d.time
        /\ n.rom = d.rom
    BY <1>2, <1>3, SelectIs
  <2> QED
    BY <1>2, <2>1
<1>5. Low(n, w) /\ Opened(n, w)
  BY <1>1, <1>4 DEF MbcInv, Follows, Low, Opened
<1>6. Mapped(n, w)
  BY <1>1, <1>4 DEF MbcInv, Follows, Mapped, WantedBank
<1>7. Banked(n, w)
  BY <1>1, <1>4, AskedIs DEF Banked
<1>8. Shown(n, w)
  BY <1>4 DEF Shown
<1> QED
  BY <1>1, <1>4, <1>5, <1>6, <1>7, <1>8 DEF Right, Follows

\* A register of MBC3's clock is put in the RAM's place.
LEMMA ClockWritten ==
  ASSUME MbcInv, kind = "mbc3", NEW value \in Byte, (value \div 8) % 2 # 0, NEW w, NEW n,
         w = [wrote EXCEPT !["select"] = value],
         n = [m EXCEPT !.bank = value, !.write = "empty", !.read = ClockRegister(value)]
  PROVE  Right(n, w)
<1>1. /\ w \in Writes /\ w["select"] = value /\ w["enable"] = wrote["enable"]
      /\ w["bank"] = wrote["bank"] /\ w["high"] = wrote["high"] /\ w["mode"] = wrote["mode"]
  BY SelectPut, WroteIsWrites
<1>2. ClockRegister(value) \in Readers
  BY DEF ClockRegister, Readers
<1>3. /\ n \in Registers /\ n.low = m.low /\ n.high = m.high /\ n.enable = m.enable
      /\ n.bank = value /\ n.time = m.time /\ n.rom = m.rom /\ n.write = "empty"
  BY <1>2 DEF MbcInv, Registers
<1>4. Low(n, w) /\ Opened(n, w)
  BY <1>1, <1>3 DEF MbcInv, Follows, Low, Opened
<1>5. Mapped(n, w)
  BY <1>1, <1>3 DEF MbcInv, Follows, Mapped, WantedBank
<1>6. Banked(n, w)
  BY <1>1, <1>3, AskedIs DEF Banked
<1>7. HidesRam(n, w)
  <2>1. (value \div 8) % 2 = 1
    BY DEF Byte
  <2>2. value # Never
    BY NeverIsNoNumber
  <2> QED
    BY <1>1, <1>3, <2>1, <2>2 DEF HidesRam, AsksClock
<1>8. Shown(n, w)
  BY <1>7 DEF Shown
<1> QED
  BY <1>1, <1>3, <1>4, <1>5, <1>6, <1>8 DEF Right, Follows

\* MBC7 enables its RAM by the bank that is selected.
LEMMA SeventhWritten ==
  ASSUME MbcInv, kind = "mbc7", NEW value \in Byte, NEW w, NEW n,
         w = [wrote EXCEPT !["select"] = value], n = MBC7RAMB(m, value)
  PROVE  Right(n, w)
<1> DEFINE on == IF value < 9 THEN 10 ELSE 0
           d == [m EXCEPT !.bank = value, !.enable = on]
<1>1. /\ w \in Writes /\ w["select"] = value /\ w["enable"] = wrote["enable"]
      /\ w["bank"] = wrote["bank"] /\ w["high"] = wrote["high"] /\ w["mode"] = wrote["mode"]
  BY SelectPut, WroteIsWrites
<1>2. on \in Byte
  BY DEF Byte
<1>3. n = RamSelect(d) /\ cart \in Cartridges
  BY DEF MbcInv, MBC7RAMB
<1> HIDE DEF on
<1>4. /\ d \in Registers /\ d.low = m.low /\ d.high = m.high /\ d.enable = on
      /\ d.bank = value /\ d.time = m.time /\ d.rom = m.rom
  BY <1>2 DEF MbcInv, Registers
<1> HIDE DEF d
<1>5. /\ n \in Registers /\ ShowsRam(n) /\ n.read \in {"empty", "ram"} /\ n.low = d.low
      /\ n.high = d.high /\ n.enable = d.enable /\ n.bank = d.bank /\ n.time = d.time
      /\ n.rom = d.rom
  BY <1>3, <1>4, SelectIs
<1>6. Low(n, w)
  BY DEF Low
<1>7. Mapped(n, w)
  BY <1>1, <1>4, <1>5 DEF MbcInv, Follows, Mapped, WantedBank
<1>8. Opened(n, w)
  BY <1>1, <1>4, <1>5 DEF Opened, on
<1>9. Banked(n, w)
  BY <1>1, <1>4, <1>5, AskedIs DEF Banked
<1>10. Shown(n, w)
  BY <1>5 DEF Shown
<1> QED
  BY <1>1, <1>4, <1>5, <1>6, <1>7, <1>8, <1>9, <1>10 DEF Right, Follows

NextWrote(p, v) == IF p = "nothing" THEN wrote ELSE [wrote EXCEPT ![p] = v]

LEMMA NothingWritten == ASSUME MbcInv PROVE Right(m, wrote)
BY DEF MbcInv, Right

LEMMA RegisterWritten ==
  ASSUME MbcInv, NEW region \in 0 .. 3, NEW bit \in BOOLEAN, NEW value \in Byte
  PROVE  Right(Written(region, bit, value), NextWrote(Purpose(region, bit), value))
<1> DEFINE n == Written(region, bit, value)
           p == Purpose(region, bit)
<1>1. kind \in Kinds
  BY CartridgeFacts DEF MbcInv
<1>2. CASE n = m /\ p = "nothing"
  BY <1>2, NothingWritten DEF NextWrote
<1>3. CASE region = 0
  <2>1. CASE kind = "mbc2"
    <3>1. CASE bit
      <4>1. n = m /\ p = "nothing"
        BY <1>3, <2>1, <3>1 DEF Written, Purpose, MBC2RamEnable
      <4> QED
        BY <1>2, <4>1
    <3>2. CASE ~bit
      <4>1. n = RamEnable(m, value) /\ p = "enable"
        BY <1>3, <2>1, <3>2 DEF Written, Purpose, MBC2RamEnable
      <4> QED
        BY <2>1, <4>1, EnableWritten DEF NextWrote
    <3> QED
      BY <3>1, <3>2
  <2>2. CASE kind \in {"mbc0", "mbc7"}
    <3>1. n = m /\ p = "nothing"
      BY <1>3, <2>2 DEF Written, Purpose
    <3> QED
      BY <1>2, <3>1
  <2>3. CASE kind \notin {"mbc0", "mbc2", "mbc7"}
    <3>1. n = RamEnable(m, value) /\ p = "enable"
      BY <1>3, <2>3 DEF Written, Purpose
    <3> QED
      BY <2>3, <3>1, EnableWritten DEF NextWrote
  <2> QED
    BY <2>1, <2>2, <2>3
<1>4. CASE region = 1
  <2>1. CASE kind = "mbc5" /\ bit
    <3>1. n = MBC5map0(m, bit, value) /\ p = "high"
      BY <1>4, <2>1 DEF Written, Purpose
    <3> QED
      BY <2>1, <3>1, HighWritten DEF NextWrote
  <2>2. CASE kind = "mbc0" \/ (kind = "mbc2" /\ ~bit)
    <3>1. n = m /\ p = "nothing"
      BY <1>4, <2>2 DEF Written, Purpose, MBC2map
    <3> QED
      BY <1>2, <3>1
  <2>3. CASE kind # "mbc0" /\ (kind = "mbc2" => bit) /\ (kind = "mbc5" => ~bit)
    <3>1. p = "bank" /\ n = Written(1, bit, value)
      BY <1>4, <2>3 DEF Purpose
    <3> HIDE DEF n, p
    <3> QED
      BY <2>3, <3>1, BankWritten DEF NextWrote, n, p
  <2> QED
    BY <2>1, <2>2, <2>3
<1>5. CASE region = 2
  <2>1. CASE kind \in {"mbc1", "huc1"}
    <3> DEFINE s == value % 4
               v == m.mode
               w == [wrote EXCEPT !["select"] = value]
               d == [m EXCEPT !.select = s, !.mode = v, !.high = IF Odd(v) THEN 0 ELSE s,
                              !.bank = IF Odd(v) THEN s ELSE 0]
    <3>1. n = MBC1map1(m, value) /\ p = "select"
      BY <1>5, <2>1 DEF Written, Purpose
    <3>2. /\ w \in Writes /\ w["select"] = value /\ w["enable"] = wrote["enable"]
          /\ w["bank"] = wrote["bank"] /\ w["mode"] = wrote["mode"]
      BY SelectPut, WroteIsWrites
    <3>3. s \in 0 .. 3 /\ s = Asked(value) % 4
      BY LowByte, AskedIs
    <3>4. v \in Byte /\ v = Asked(wrote["mode"])
      BY <2>1 DEF MbcInv, Registers, Follows, Banked
    <3>5. MBC1map1(m, value) = RamSelect(map4567(d, Joined(d)))
      <4> DEFINE e == [m EXCEPT !.select = s]
      <4>1. e.select = s /\ e.mode = v
        BY DEF MbcInv, Registers
      <4>2. [e EXCEPT !.mode = v, !.high = IF Odd(v) THEN 0 ELSE e.select,
                      !.bank = IF Odd(v) THEN e.select ELSE 0] = d
        BY <4>1 DEF MbcInv, Registers
      <4> QED
        BY <4>2 DEF MBC1map1, MBC1mode, Odd
    <3> HIDE DEF s, v, w
    <3>6. Right(MBC1map1(m, value), w)
      BY <2>1, <3>2, <3>3, <3>4, <3>5, ModeWritten
    <3> QED
      BY <3>1, <3>6 DEF NextWrote, w
  <2>2. CASE kind = "mbc3" /\ (value \div 8) % 2 = 0
    <3>1. n = RamSelect([m EXCEPT !.bank = value]) /\ p = "select"
      BY <1>5, <2>2 DEF Written, Purpose, mbc3bank
    <3> QED
      BY <2>2, <3>1, RamBankWritten DEF NextWrote
  <2>3. CASE kind = "mbc3" /\ (value \div 8) % 2 # 0
    <3>1. p = "select"
      BY <1>5, <2>3 DEF Purpose
    <3>2. n = [m EXCEPT !.bank = value, !.write = "empty", !.read = ClockRegister(value)]
      BY <1>5, <2>3 DEF Written, mbc3bank, MbcInv, Registers
    <3> QED
      BY <2>3, <3>1, <3>2, ClockWritten DEF NextWrote
  <2>4. CASE kind \in {"mbc5", "huc3"}
    <3>1. n = RamSelect([m EXCEPT !.bank = value]) /\ p = "select"
      BY <1>5, <2>4 DEF Written, Purpose, MBC5RAMB
    <3> QED
      BY <2>4, <3>1, RamBankWritten DEF NextWrote
  <2>5. CASE kind = "mbc7"
    <3>1. n = MBC7RAMB(m, value) /\ p = "select"
      BY <1>5, <2>5 DEF Written, Purpose
    <3> QED
      BY <2>5, <3>1, SeventhWritten DEF NextWrote
  <2>6. CASE kind \in {"mbc0", "mbc2", "mbc4"}
    <3>1. n = m /\ p = "nothing"
      BY <1>5, <2>6 DEF Written, Purpose
    <3> QED
      BY <1>2, <3>1
  <2> QED
    BY <1>1, <2>1, <2>2, <2>3, <2>4, <2>5, <2>6 DEF Kinds
<1>6. CASE region = 3
  <2>1. CASE kind \in {"mbc1", "huc1"}
    <3> DEFINE s == m.select
               w == [wrote EXCEPT !["mode"] = value]
               d == [m EXCEPT !.select = s, !.mode = value,
                              !.high = IF Odd(value) THEN 0 ELSE s,
                              !.bank = IF Odd(value) THEN s ELSE 0]
    <3>1. n = MBC1mode(m, value) /\ p = "mode"
      BY <1>6, <2>1 DEF Written, Purpose
    <3>2. /\ w \in Writes /\ w["mode"] = value /\ w["enable"] = wrote["enable"]
          /\ w["bank"] = wrote["bank"] /\ w["select"] = wrote["select"]
      BY ModePut, WroteIsWrites
    <3>3. s = Asked(wrote["select"]) % 4 /\ s \in 0 .. 3
      <4>1. s = Asked(wrote["select"]) % 4
        BY <2>1 DEF MbcInv, Follows, Banked
      <4>2. Asked(wrote["select"]) \in Byte
        BY AskedIs DEF MbcInv, Writes, Purposes
      <4> QED
        BY <4>1, <4>2, LowByte
    <3>4. value = Asked(value)
      BY AskedIs
    <3>5. MBC1mode(m, value) = RamSelect(map4567(d, Joined(d)))
      <4>1. [m EXCEPT !.mode = value, !.high = IF Odd(value) THEN 0 ELSE s,
                      !.bank = IF Odd(value) THEN s ELSE 0] = d
        BY DEF MbcInv, Registers
      <4> QED
        BY <4>1 DEF MBC1mode, Odd
    <3> HIDE DEF s, w
    <3>6. Right(MBC1mode(m, value), w)
      BY <2>1, <3>2, <3>3, <3>4, <3>5, ModeWritten
    <3> QED
      BY <3>1, <3>6 DEF NextWrote, w
  <2>2. CASE kind = "mbc3"
    <3> DEFINE w == [wrote EXCEPT !["mode"] = value]
    <3>1. n = [m EXCEPT !.mode = value] /\ p = "mode"
      BY <1>6, <2>2 DEF Written, Purpose
    <3>2. /\ w \in Writes /\ w["enable"] = wrote["enable"] /\ w["high"] = wrote["high"]
          /\ w["bank"] = wrote["bank"] /\ w["select"] = wrote["select"]
      BY ModePut, WroteIsWrites
    <3> HIDE DEF n, p, w
    <3>3. /\ n \in Registers /\ n.low = m.low /\ n.high = m.high /\ n.enable = m.enable
          /\ n.bank = m.bank /\ n.time = m.time /\ n.rom = m.rom /\ n.at = m.at
          /\ n.read = m.read /\ n.write = m.write
      BY <3>1 DEF MbcInv, Registers
    <3>4. Low(n, w) /\ Opened(n, w) /\ Banked(n, w)
      BY <2>2, <3>2, <3>3 DEF MbcInv, Follows, Low, Opened, Banked
    <3>5. Mapped(n, w)
      BY <2>2, <3>2, <3>3 DEF MbcInv, Follows, Mapped, WantedBank
    <3>6. Shown(n, w)
      BY <3>2, <3>3, StaysShown DEF MbcInv
    <3>7. Right(n, w)
      BY <3>2, <3>3, <3>4, <3>5, <3>6 DEF Right, Follows
    <3> QED
      BY <3>1, <3>7 DEF NextWrote, n, p, w
  <2>3. CASE kind \notin {"mbc1", "huc1", "mbc3"}
    <3>1. n = m /\ p = "nothing"
      BY <1>6, <2>3 DEF Written, Purpose
    <3> QED
      BY <1>2, <3>1
  <2> QED
    BY <2>1, <2>2, <2>3
<1> QED
  BY <1>3, <1>4, <1>5, <1>6

LEMMA DigitsAre ==
  /\ \A v \in 0 .. 59 : Digits(v) \in Nat /\ Binary(Digits(v)) = v
  /\ \A v \in 0 .. 23 : (Digits(v) + 64) % 64 = Digits(v) /\ Digits(v) % 64 = Digits(v)
<1>1. \A v \in 0 .. 59 : \E t \in 0 .. 5, u \in 0 .. 9 : v = 10 * t + u
  <2> TAKE v \in 0 .. 59
  <2> WITNESS v \div 10 \in 0 .. 5, v % 10 \in 0 .. 9
  <2> QED
    OBVIOUS
<1>2. \A t \in 0 .. 5, u \in 0 .. 9 : Digits(10 * t + u) = 16 * t + u
  BY DEF Digits
<1>3. \A t \in 0 .. 5, u \in 0 .. 9 : Binary(16 * t + u) = 10 * t + u
  BY DEF Binary
<1>4. \A v \in 0 .. 59 : Digits(v) \in Nat /\ Binary(Digits(v)) = v
  BY <1>1, <1>2, <1>3
<1>5. \A v \in 0 .. 23 : Digits(v) \in 0 .. 63
  BY DEF Digits
<1>6. \A d \in 0 .. 63 : (d + 64) % 64 = d /\ d % 64 = d
  OBVIOUS
<1>7. \A v \in 0 .. 23 : (Digits(v) + 64) % 64 = Digits(v) /\ Digits(v) % 64 = Digits(v)
  BY <1>5, <1>6
<1> QED
  BY <1>4, <1>7, Zenon

Times == [dayL : Nat, hrs : Nat, min : Nat, sec : Nat]

LEMMA MomentIs ==
  ASSUME NEW t \in Moments
  PROVE  /\ t[1] \in 1 .. 31 /\ t[2] \in 0 .. 23 /\ t[3] \in 0 .. 59 /\ t[4] \in 0 .. 59
         /\ t # Never
BY MbcAssumption DEF MbcAssumption

LEMMA PackedIs == ASSUME NEW t \in Moments PROVE Packed(t) \in Times
<1>1. /\ t[1] \in 0 .. 59 /\ t[2] \in 0 .. 59 /\ t[3] \in 0 .. 59 /\ t[4] \in 0 .. 59
  BY MomentIs
<1>2. /\ Digits(t[1]) \in Nat /\ Digits(t[2]) \in Nat /\ Digits(t[3]) \in Nat
      /\ Digits(t[4]) \in Nat
  BY <1>1, DigitsAre, Zenon
<1>3. Digits(t[2]) + (IF t[2] >= 12 THEN 64 ELSE 0) \in Nat
  BY <1>2
<1> QED
  BY <1>2, <1>3 DEF Packed, Times

LEMMA TimeWritten ==
  ASSUME NEW n \in Registers, NEW x \in Times, NEW d, d = [n EXCEPT !.time = x]
  PROVE  /\ d \in Registers /\ d.time = x /\ d.low = n.low /\ d.high = n.high
         /\ d.enable = n.enable /\ d.mode = n.mode /\ d.bank = n.bank /\ d.select = n.select
         /\ d.rom = n.rom /\ d.at = n.at /\ d.read = n.read /\ d.write = n.write
BY DEF Registers, Times

LEMMA SameCartridge ==
  ASSUME UNCHANGED <<cart, chipped>>
  PROVE  kind' = kind /\ Registers' = Registers /\ Writer' = Writer
BY DEF kind, Registers, Writer

\* The windows and registers of a step that leaves the cartridge, said of the next state.
LEMMA ThenRight ==
  ASSUME UNCHANGED <<cart, chipped>>, NEW n, NEW w, wrote' = w,
         m'.low = n.low, m'.high = n.high, m'.enable = n.enable, m'.mode = n.mode,
         m'.bank = n.bank, m'.select = n.select, m'.rom = n.rom, m'.at = n.at,
         m'.read = n.read, m'.write = n.write, Follows(n, w), Shown(n, w)
  PROVE  Follows(m, wrote)' /\ Shown(m, wrote)'
<1>1. kind' = kind /\ Writer' = Writer
  BY SameCartridge
<1>2. Low(m, wrote)'
  BY <1>1 DEF Follows, Low
<1>3. Banked(m, wrote)'
  BY <1>1 DEF Follows, Banked
<1>4. Opened(m, wrote)'
  BY <1>1 DEF Follows, Opened
<1>5. Mapped(m, wrote)'
  BY <1>1 DEF Follows, Mapped, WantedBank
<1>6. Shown(m, wrote)'
  BY <1>1 DEF Shown, ShowsRam, HidesRam, AsksClock, Told
<1> QED
  BY <1>2, <1>3, <1>4, <1>5, <1>6 DEF Follows

LEMMA SavedStays == ASSUME UNCHANGED <<cart, chipped, kept>>, Saved(kept) PROVE Saved(kept)'
<1>1. kind' = kind /\ Registers' = Registers
  BY SameCartridge
<1> QED
  BY <1>1 DEF Saved, Follows, Low, Banked, Opened, Mapped, WantedBank, Timed

LEMMA WriteRomKeeps ==
  ASSUME MbcInv, NEW region \in 0 .. 3, NEW bit \in BOOLEAN, NEW value \in Byte,
         WriteRom(region, bit, value)
  PROVE  MbcInv'
<1> DEFINE n == Written(region, bit, value)
           w == NextWrote(Purpose(region, bit), value)
<1>1. /\ n \in Registers /\ w \in Writes /\ Follows(n, w) /\ Shown(n, w) /\ n.time = m.time
  BY RegisterWritten DEF Right
<1>2. /\ wrote' = w /\ UNCHANGED <<cart, chipped, kept>>
      /\ \/ \E t \in Moments : moment' = t /\ m' = [n EXCEPT !.time = Packed(t)]
         \/ m' = n /\ UNCHANGED moment
  BY DEF WriteRom, NextWrote
<1> HIDE DEF n, w
<1>3. /\ m' \in Registers /\ moment' \in Moments \cup {Never} /\ Timed(m', moment')
      /\ m'.low = n.low /\ m'.high = n.high /\ m'.enable = n.enable /\ m'.mode = n.mode
      /\ m'.bank = n.bank /\ m'.select = n.select /\ m'.rom = n.rom /\ m'.at = n.at
      /\ m'.read = n.read /\ m'.write = n.write
  <2>1. CASE m' = n /\ UNCHANGED moment
    BY <1>1, <2>1 DEF MbcInv, Timed
  <2>2. CASE \E t \in Moments : moment' = t /\ m' = [n EXCEPT !.time = Packed(t)]
    <3>1. PICK t \in Moments : moment' = t /\ m' = [n EXCEPT !.time = Packed(t)]
      BY <2>2
    <3>2. PICK x \in Times : x = Packed(t)
      BY PackedIs
    <3>3. m' = [n EXCEPT !.time = x]
      BY <3>1, <3>2
    <3>4. t # Never
      BY MomentIs
    <3>5. Timed(m', moment')
      BY <1>1, <3>1, <3>2, <3>3, <3>4, TimeWritten DEF Timed
    <3> QED
      BY <1>1, <3>1, <3>3, <3>5, TimeWritten
  <2> QED
    BY <1>2, <2>1, <2>2
<1>4. m' \in Registers' /\ wrote' \in Writes /\ cart' \in Cartridges /\ chipped' \in BOOLEAN
  BY <1>1, <1>2, <1>3, SameCartridge DEF MbcInv
<1>5. Follows(m, wrote)' /\ Shown(m, wrote)'
  BY <1>1, <1>2, <1>3, ThenRight
<1>6. Saved(kept)'
  BY <1>2, SavedStays DEF MbcInv
<1>7. Timed(m, moment)'
  BY <1>3 DEF Timed
<1> QED
  BY <1>3, <1>4, <1>5, <1>6, <1>7 DEF MbcInv

LEMMA ClockReads == ASSUME MbcInv, m.read \notin {"empty", "ram"} PROVE ClockRight
<1>1. m.read \in {"sec", "min", "hrs", "dayL", "dayH"}
  BY DEF MbcInv, Registers, Readers
<1>2. CASE m.read = "dayH"
  BY <1>2 DEF ClockRight, ClockByte
<1>3. CASE moment = Never /\ m.read # "dayH"
  <2>1. m.time = NoTime
    BY <1>3 DEF MbcInv, Timed
  <2>2. \A r \in {"sec", "min", "hrs", "dayL"} : m.time[r] = 0
    BY <2>1 DEF NoTime
  <2>3. Binary(0) = 0 /\ 0 % 64 = 0
    BY DEF Binary
  <2>4. ClockByte(m.read) = 0
    BY <1>1, <1>3, <2>2, <2>3 DEF ClockByte
  <2> QED
    BY <1>3, <2>4 DEF ClockRight
<1>4. CASE moment # Never /\ m.read # "dayH"
  <2> DEFINE told == [dayL |-> moment[1], hrs |-> moment[2], min |-> moment[3], sec |-> moment[4]]
             late == Digits(moment[2]) + (IF moment[2] >= 12 THEN 64 ELSE 0)
  <2>1. moment \in Moments /\ m.time = Packed(moment)
    BY <1>4 DEF MbcInv, Timed
  <2>2. /\ m.time["dayL"] = Digits(moment[1]) /\ m.time["hrs"] = late
        /\ m.time["min"] = Digits(moment[3]) /\ m.time["sec"] = Digits(moment[4])
    BY <2>1 DEF Packed
  <2>3. /\ moment[1] \in 0 .. 59 /\ moment[2] \in 0 .. 23 /\ moment[3] \in 0 .. 59
        /\ moment[4] \in 0 .. 59 /\ moment[2] \in 0 .. 59
    BY <2>1, MomentIs
  <2>4. /\ Binary(Digits(moment[1])) = moment[1] /\ Binary(Digits(moment[3])) = moment[3]
        /\ Binary(Digits(moment[4])) = moment[4] /\ Binary(Digits(moment[2])) = moment[2]
    BY <2>3, DigitsAre, Zenon
  <2>5. late % 64 = Digits(moment[2])
    <3>1. PICK v \in 0 .. 23 : v = moment[2]
      BY <2>3
    <3>2. /\ (Digits(v) + 64) % 64 = Digits(v) /\ Digits(v) % 64 = Digits(v)
          /\ v \in 0 .. 59 /\ Digits(v) \in Nat
      BY DigitsAre
    <3>3. Digits(v) + 0 = Digits(v)
      BY <3>2
    <3> QED
      BY <3>1, <3>2, <3>3
  <2> HIDE DEF late
  <2>6. ClockByte(m.read) = told[m.read]
    <3>1. CASE m.read = "hrs"
      BY <2>2, <2>4, <2>5, <3>1 DEF ClockByte
    <3>2. CASE m.read = "dayL"
      BY <2>2, <2>4, <3>2 DEF ClockByte
    <3>3. CASE m.read = "min"
      BY <2>2, <2>4, <3>3 DEF ClockByte
    <3>4. CASE m.read = "sec"
      BY <2>2, <2>4, <3>4 DEF ClockByte
    <3> QED
      BY <1>1, <1>4, <3>1, <3>2, <3>3, <3>4
  <2> QED
    BY <1>4, <2>6 DEF ClockRight
<1> QED
  BY <1>2, <1>3, <1>4

LEMMA MbcAtFirst == MbcInit => MbcInv
<1> SUFFICES ASSUME MbcInit PROVE MbcInv
  OBVIOUS
<1>1. /\ cart \in Cartridges /\ chipped \in BOOLEAN /\ moment = Never /\ kept.parts = <<>>
      /\ wrote = [p \in Purposes |-> Never]
      /\ m = [low |-> 0, high |-> 0, enable |-> 0, mode |-> 0, bank |-> 0, select |-> 0,
              time |-> NoTime, rom |-> 1 % cart.rom, at |-> 0, read |-> "ram",
              write |-> IF chipped THEN "ram" ELSE "empty"]
  BY DEF MbcInit, HasRam
<1>2. wrote \in Writes /\ \A p \in Purposes : wrote[p] = Never
  BY <1>1 DEF Writes
<1>3. m \in Registers
  <2>1. 1 % cart.rom \in 0 .. cart.rom - 1 /\ 0 \in 0 .. cart.ram - 1
    <3>1. cart.rom \in Nat \ {0} /\ cart.ram \in Nat \ {0} /\ 1 \in Nat
      BY <1>1, CartridgeFacts
    <3>2. 1 % cart.rom \in 0 .. cart.rom - 1
      BY <3>1, Remainder, Zenon
    <3> QED
      BY <3>1, <3>2
  <2>2. (IF chipped THEN "ram" ELSE "empty") \in {"empty", "ram"} /\ "ram" \in Readers
    BY DEF Readers
  <2>3. NoTime \in [dayL : Nat, hrs : Nat, min : Nat, sec : Nat] /\ 0 \in Byte
    BY DEF NoTime, Byte
  <2> DEFINE ro == 1 % cart.rom
             wr == IF chipped THEN "ram" ELSE "empty"
  <2> HIDE DEF ro, wr
  <2> QED
    BY <1>1, <2>1, <2>2, <2>3 DEF Registers, ro, wr
<1>4. Timed(m, moment)
  BY <1>1 DEF Timed
<1>5. Follows(m, wrote)
  <2>1. /\ wrote["bank"] = Never /\ wrote["select"] = Never /\ wrote["enable"] = Never
        /\ wrote["mode"] = Never /\ wrote["high"] = Never
    BY <1>2 DEF Purposes
  <2>2. m.low = 0 /\ m.high = 0 /\ m.enable = 0 /\ m.mode = 0 /\ m.bank = 0 /\ m.select = 0
    BY <1>1
  <2>3. Low(m, wrote) /\ Opened(m, wrote) /\ Mapped(m, wrote)
    BY <2>1, <2>2 DEF Low, Opened, Mapped, Asked
  <2>4. Banked(m, wrote)
    BY <2>1, <2>2 DEF Banked, Asked, Odd
  <2> QED
    BY <2>3, <2>4 DEF Follows
<1>6. Shown(m, wrote)
  <2>1. m.read = "ram"
    BY <1>1
  <2>2. ~Told(wrote)
    BY <1>2 DEF Told, Purposes
  <2> QED
    BY <2>1, <2>2 DEF Shown
<1> QED
  BY <1>1, <1>2, <1>3, <1>4, <1>5, <1>6 DEF MbcInv, Saved

LEMMA StateSaved == ASSUME MbcInv, SaveMbcState PROVE MbcInv'
<1>1. /\ UNCHANGED <<cart, chipped, m, wrote, moment>>
      /\ kept' = [parts |-> SavedParts, m |-> m, wrote |-> wrote, moment |-> moment]
  BY DEF SaveMbcState
<1>2. kept'.parts = SavedParts /\ kept'.m = m /\ kept'.wrote = wrote /\ kept'.moment = moment
  BY <1>1
<1>3. \A i \in 1 .. Len(SavedParts) : SavedParts[i][2] > 0 => Loads(SavedParts[i])
  <2>1. Len(SavedParts) = 11
    BY DEF SavedParts
  <2>2. \A i \in 1 .. 11 : i \in {1, 2, 3, 4, 5, 6, 7, 8, 9, 10, 11}
    OBVIOUS
  <2>3. CASE cart.color
    BY <2>1, <2>2, <2>3 DEF SavedParts, Loads
  <2>4. CASE ~cart.color
    BY <2>1, <2>2, <2>4 DEF SavedParts, Loads
  <2> QED
    BY <2>3, <2>4
<1>4. kind' = kind /\ Registers' = Registers /\ Writer' = Writer
  BY <1>1, SameCartridge
<1>5. Saved(kept)'
  BY <1>1, <1>2, <1>3, <1>4
     DEF MbcInv, Saved, Follows, Low, Banked, Opened, Mapped, WantedBank, Timed
<1>6. Follows(m, wrote)' /\ Shown(m, wrote)'
  BY <1>1, ThenRight DEF MbcInv
<1> QED
  BY <1>1, <1>4, <1>5, <1>6 DEF MbcInv, Timed

\* A state loads whole, and the windows are shown again from its registers.
LEMMA StateLoaded == ASSUME MbcInv, LoadMbcState PROVE MbcInv'
<1> DEFINE k == kept.m
           l == LoadMapper
           x == map4567(l, k.rom)
           n == RamSelect(x)
<1>1. /\ k \in Registers /\ kept.wrote \in Writes /\ kept.moment \in Moments \cup {Never}
      /\ Follows(k, kept.wrote) /\ Timed(k, kept.moment)
      /\ \A i \in 1 .. Len(kept.parts) : kept.parts[i][2] > 0 => Loads(kept.parts[i])
  BY DEF MbcInv, Saved, LoadMbcState
<1>2. /\ m' = n /\ wrote' = kept.wrote /\ moment' = kept.moment
      /\ UNCHANGED <<cart, chipped, kept>>
  <2>1. {i \in 1 .. Len(kept.parts) : kept.parts[i][2] > 0 /\ ~Loads(kept.parts[i])} = {}
    BY <1>1
  <2> QED
    BY <2>1 DEF LoadMbcState, AfterLoadState
<1>3. /\ l \in Registers /\ l.low = k.low /\ l.high = k.high /\ l.enable = k.enable
      /\ l.mode = k.mode /\ l.bank = k.bank /\ l.select = k.select /\ l.time = k.time
  BY <1>1 DEF LoadMapper, MbcInv, Registers
<1>4. cart \in Cartridges /\ k.rom \in Nat /\ k.rom % cart.rom = k.rom
  <2>1. cart \in Cartridges /\ cart.rom \in Nat \ {0} /\ k.rom \in 0 .. cart.rom - 1
    BY <1>1, CartridgeFacts DEF MbcInv, Registers
  <2>2. k.rom % cart.rom = k.rom
    BY <2>1, SameRemainder, Zenon
  <2> QED
    BY <2>1, <2>2
<1> HIDE DEF k, l, x, n
<1>5. /\ x \in Registers /\ x.rom = k.rom % cart.rom /\ x.low = l.low /\ x.high = l.high
      /\ x.enable = l.enable /\ x.mode = l.mode /\ x.bank = l.bank /\ x.select = l.select
      /\ x.time = l.time
  <2>1. PICK c \in Nat : c = k.rom
    BY <1>4
  <2>2. x = map4567(l, c) /\ (x.rom = c % cart.rom => x.rom = k.rom % cart.rom)
    BY <2>1, Zenon DEF x
  <2>3. l \in Registers /\ cart \in Cartridges
    BY <1>3, <1>4
  <2>4. /\ x \in Registers /\ x.rom = c % cart.rom /\ x.low = l.low /\ x.high = l.high
        /\ x.enable = l.enable /\ x.mode = l.mode /\ x.bank = l.bank /\ x.select = l.select
        /\ x.time = l.time
    BY <2>2, <2>3, MapIs, Zenon
  <2> QED
    BY <2>2, <2>4
<1>6. /\ n \in Registers /\ ShowsRam(n) /\ n.read \in {"empty", "ram"} /\ n.low = x.low
      /\ n.high = x.high /\ n.enable = x.enable /\ n.mode = x.mode /\ n.bank = x.bank
      /\ n.select = x.select /\ n.time = x.time /\ n.rom = x.rom
  BY <1>4, <1>5, SelectIs DEF n
<1>7. /\ n.low = k.low /\ n.high = k.high /\ n.enable = k.enable /\ n.mode = k.mode
      /\ n.bank = k.bank /\ n.select = k.select /\ n.rom = k.rom /\ n.time = k.time
  BY <1>3, <1>4, <1>5, <1>6
<1>8. Follows(n, kept.wrote) /\ Timed(n, kept.moment)
  BY <1>1, <1>7 DEF Follows, Low, Banked, Opened, Mapped, Timed
<1>9. Shown(n, kept.wrote)
  BY <1>6 DEF Shown
<1>10. Follows(m, wrote)' /\ Shown(m, wrote)'
  <2>1. PICK w : w = kept.wrote
    OBVIOUS
  <2> QED
    BY <1>2, <1>8, <1>9, <2>1, ThenRight
<1>11. m' \in Registers' /\ Timed(m, moment)' /\ Saved(kept)'
  BY <1>2, <1>6, <1>8, SameCartridge, SavedStays DEF MbcInv, Timed
<1> QED
  BY <1>1, <1>2, <1>10, <1>11 DEF MbcInv

LEMMA MbcStep == MbcInv /\ [MbcNext]_mbcVars => MbcInv'
<1> SUFFICES ASSUME MbcInv, [MbcNext]_mbcVars PROVE MbcInv'
  OBVIOUS
<1>1. CASE UNCHANGED mbcVars
  <2>1. UNCHANGED <<cart, chipped, m, wrote, moment, kept>>
    BY <1>1 DEF mbcVars
  <2>2. Follows(m, wrote)' /\ Shown(m, wrote)'
    BY <2>1, ThenRight DEF MbcInv
  <2> QED
    BY <2>1, <2>2, SameCartridge, SavedStays DEF MbcInv, Timed
<1>2. ASSUME NEW w \in cart.tried, WriteRom(w[1], w[2], w[3]) PROVE MbcInv'
  <2>1. w[1] \in 0 .. 3 /\ w[2] \in BOOLEAN /\ w[3] \in Byte
    BY <1>2, CartridgeFacts DEF MbcInv, Byte
  <2> QED
    BY <1>2, <2>1, WriteRomKeeps
<1> QED
  BY <1>1, <1>2, StateSaved, StateLoaded DEF MbcNext

LEMMA WritesHaveDecided == MbcInv => WritesDecide
<1> SUFFICES ASSUME MbcInv PROVE WritesDecide
  OBVIOUS
<1>1. wrote.bank # Never /\ kind # "huc1" => m.rom = BankWanted % cart.rom
  BY DEF MbcInv, Follows, Mapped, WantedBank, BankWanted
<1>2. ClockAsked <=> AsksClock(wrote)
  BY DEF ClockAsked, AsksClock
<1>3. ASSUME Told(wrote) PROVE Enabled <=> Opens(m.enable)
  <2>1. CASE kind = "mbc7"
    BY <1>3, <2>1 DEF MbcInv, Follows, Opened, Told, Enabled, Opens
  <2>2. CASE kind # "mbc7"
    BY <1>3, <2>2 DEF MbcInv, Follows, Opened, Told, Enabled, Opens, Asked
  <2> QED
    BY <2>1, <2>2
<1>4. m.bank = RamWanted
  <2>1. CASE kind \in {"mbc1", "huc1"}
    <3>1. /\ m.bank = (IF Odd(m.mode) THEN m.select ELSE 0)
          /\ m.mode = Asked(wrote.mode) /\ m.select = Asked(wrote.select) % 4
      BY <2>1 DEF MbcInv, Follows, Banked
    <3>2. ~Odd(0) /\ 0 % 4 = 0
      BY DEF Odd
    <3>3. CASE wrote.select = Never
      BY <2>1, <3>1, <3>2, <3>3 DEF RamWanted, Asked
    <3>4. CASE wrote.select # Never
      BY <2>1, <3>1, <3>2, <3>4 DEF RamWanted, Asked, Odd
    <3> QED
      BY <3>3, <3>4
  <2>2. CASE kind \notin {"mbc1", "huc1"}
    BY <2>2 DEF MbcInv, Follows, Banked, Asked, RamWanted
  <2> QED
    BY <2>1, <2>2
<1>5. ASSUME Told(wrote)
      PROVE  /\ m.write = "ram" => Enabled /\ chipped
             /\ ~ClockAsked => /\ m.read = IF Enabled THEN "ram" ELSE "empty"
                               /\ Enabled => m.at = RamWanted % cart.ram
  <2>1. ShowsRam(m) \/ HidesRam(m, wrote)
    BY <1>5 DEF MbcInv, Shown
  <2> QED
    BY <1>2, <1>3, <1>4, <1>5, <2>1 DEF ShowsRam, HidesRam, Writer
<1>6. ASSUME m.read \notin {"empty", "ram"} PROVE ClockAsked /\ m.write = "empty" /\ ClockRight
  <2>1. ClockAsked /\ m.write = "empty"
    BY <1>2, <1>6 DEF MbcInv, Shown, HidesRam
  <2>2. ClockRight
    BY <1>6, ClockReads
  <2> QED
    BY <2>1, <2>2
<1> QED
  BY <1>1, <1>5, <1>6 DEF WritesDecide, Told

\* mappers.s:25-279, state.s:269-275: for cartridges of every controller and size, whatever a
\* game writes in whatever order, saves and loads, the windows are what its last writes ask for.
THEOREM WritesAreObeyed == MbcSpec => []WritesDecide
<1>1. MbcInit => MbcInv
  BY MbcAtFirst
<1>2. MbcInv /\ [MbcNext]_mbcVars => MbcInv'
  BY MbcStep
<1>3. MbcInv => WritesDecide
  BY WritesHaveDecided
<1> QED
  BY <1>1, <1>2, <1>3, PTL DEF MbcSpec

-----------------------------------------------------------------------------
(* The sectors of a flash.                                                   *)

\* A set of natural numbers has a smallest element.
LEMMA SmallestOf ==
  ASSUME NEW S \in SUBSET Nat, S # {}
  PROVE  \E x \in S : \A y \in S : x <= y
<1> DEFINE upto(x) == {y \in S : y <= x}
           family == {upto(x) : x \in S}
<1>1. family \subseteq FiniteSubsetsOf(Nat) /\ family # {}
  <2>1. ASSUME NEW x \in S PROVE upto(x) \in SUBSET Nat /\ IsFiniteSet(upto(x))
    <3>1. x \in Nat /\ 0 \in Int /\ x \in Int
      BY <2>1
    <3>2. IsFiniteSet(0 .. x)
      BY <3>1, FS_Interval, Zenon
    <3>3. \A y \in upto(x) : y \in Nat /\ y <= x
      OBVIOUS
    <3>4. upto(x) \in SUBSET (0 .. x) /\ upto(x) \in SUBSET Nat
      <4> HIDE DEF upto
      <4> QED
        BY <3>1, <3>3
    <3> QED
      BY <3>2, <3>4, FS_Subset
  <2> QED
    BY <2>1 DEF FiniteSubsetsOf
<1>2. PICK T \in family : \A U \in family : ~(<<U, T>> \in StrictSubsetOrdering(Nat))
  BY <1>1, WFMin, FS_StrictSubsetOrderingWellFounded
<1>3. PICK x \in S : T = upto(x)
  BY <1>2
<1>4. ASSUME NEW y \in S, ~(x <= y) PROVE FALSE
  <2>0. x \in Nat /\ y \in Nat /\ y <= x /\ x <= x
    BY <1>3, <1>4
  <2>1. upto(y) \subseteq T /\ x \in T /\ x \notin upto(y)
    <3>1. \A z \in S : z <= y => z <= x
      BY <2>0
    <3>2. ~(x <= y)
      BY <1>4
    <3> QED
      BY <1>3, <2>0, <3>1, <3>2, Zenon
  <2>2. upto(y) \in family /\ upto(y) \in SUBSET Nat /\ T \in SUBSET Nat
    BY <1>3
  <2>3. <<upto(y), T>> \in StrictSubsetOrdering(Nat)
    BY <2>1, <2>2 DEF StrictSubsetOrdering
  <2> QED
    BY <1>2, <2>2, <2>3
<1> QED
  BY <1>4

LEMMA RomConstants ==
  /\ Len(Blocks) \in Nat \ {0} /\ Reversed \in BOOLEAN /\ BufferSize \in Nat
  /\ \A k \in Regions : /\ Blocks[k].count \in Nat \ {0} /\ Blocks[k].size \in Nat \ {0}
                        /\ Extent(k) \in Nat \ {0} /\ Extent(k) = Blocks[k].count * Blocks[k].size
<1>1. Blocks \in Seq([count : Nat \ {0}, size : Nat \ {0}]) /\ Blocks # <<>>
  BY RomAssumption
<1>2. Len(Blocks) \in Nat /\ Len(Blocks) # 0
  BY <1>1
<1>3. \A k \in Regions : Blocks[k] \in [count : Nat \ {0}, size : Nat \ {0}]
  <2> DEFINE Shapes == [count : Nat \ {0}, size : Nat \ {0}]
  <2>1. Blocks \in Seq(Shapes)
    BY <1>1
  <2> HIDE DEF Shapes
  <2>2. \A k \in 1 .. Len(Blocks) : Blocks[k] \in Shapes
    BY <2>1
  <2> QED BY <2>2 DEF Regions, Shapes
<1>4. \A x, y \in Nat \ {0} : x * y \in Nat \ {0}
  OBVIOUS
<1> QED
  BY <1>2, <1>3, <1>4, RomAssumption DEF Extent

\* The regions' table is summed up one after the other (read_cfi).
LEMMA CurrentIs ==
  /\ Current \in [0 .. Len(Blocks) -> Nat] /\ Current[0] = 0
  /\ \A k \in Regions : Current[k] = Current[k - 1] + Extent(k)
<1> DEFINE N == Len(Blocks)
           Sums(n, g) == g = [j \in 0 .. n |-> IF j = 0 THEN 0 ELSE g[j - 1] + Extent(j)]
           None1 == {n \in Nat : n <= N /\ ~ \E g : Sums(n, g)}
<1>0. N \in Nat
  BY RomConstants
<1>1. ASSUME None1 # {} PROVE FALSE
  <2>1. None1 \in SUBSET Nat
    OBVIOUS
  <2>2. PICK n \in None1 : \A o \in None1 : n <= o
    BY <1>1, <2>1, SmallestOf
  <2>3. n # 0
    <3>1. Sums(0, [j \in 0 .. 0 |-> 0])
      OBVIOUS
    <3> QED BY <2>2, <3>1
  <2>4. n - 1 \in Nat /\ n - 1 <= N /\ ~(n <= n - 1) /\ n \in Nat
    BY <2>2, <2>3
  <2>5. PICK g : Sums(n - 1, g)
    BY <2>2, <2>4
  <2> DEFINE h == [j \in 0 .. n |-> IF j = n THEN g[n - 1] + Extent(n) ELSE g[j]]
  <2>6. \A j \in 0 .. n : h[j] = IF j = 0 THEN 0 ELSE h[j - 1] + Extent(j)
    <3>1. \A j \in 0 .. n - 1 : g[j] = IF j = 0 THEN 0 ELSE g[j - 1] + Extent(j)
      BY <2>5
    <3>2. TAKE j \in 0 .. n
    <3>3. CASE j = n
      <4>1. n - 1 \in 0 .. n /\ n - 1 # n /\ j - 1 = n - 1
        BY <2>4, <3>3
      <4> QED BY <2>3, <3>3, <4>1
    <3>4. CASE j # n /\ j # 0
      <4>1. j \in 0 .. n - 1 /\ j - 1 \in 0 .. n /\ j - 1 # n
        BY <2>4, <3>4
      <4> QED BY <3>1, <3>4, <4>1
    <3>5. CASE j = 0
      <4>1. j \in 0 .. n - 1 /\ j # n
        BY <2>3, <2>4, <3>5
      <4> QED BY <3>1, <3>5, <4>1
    <3> QED BY <3>3, <3>4, <3>5
  <2>7. Sums(n, h)
    <3> DEFINE r == [j \in 0 .. n |-> IF j = 0 THEN 0 ELSE h[j - 1] + Extent(j)]
    <3>1. \A j \in 0 .. n : h[j] = r[j]
      BY <2>6
    <3>2. h = r
      BY <3>1
    <3> QED BY <3>2
  <2> QED BY <2>2, <2>7
<1>2. \E g : Sums(N, g)
  BY <1>0, <1>1
<1>3. Sums(N, Current)
  BY <1>2 DEF Current
<1>4. \A j \in 0 .. N : Current[j] = IF j = 0 THEN 0 ELSE Current[j - 1] + Extent(j)
  BY <1>3
<1>5. DOMAIN Current = 0 .. N
  BY <1>3
<1>6. Current[0] = 0 /\ \A k \in Regions : Current[k] = Current[k - 1] + Extent(k)
  BY <1>0, <1>4 DEF Regions
<1>7. \A k \in 0 .. N : Current[k] \in Nat
  <2> DEFINE Bad1 == {k \in Nat : k <= N /\ Current[k] \notin Nat}
  <2>1. SUFFICES ASSUME Bad1 # {} PROVE FALSE
    BY <1>0
  <2>2. PICK k \in Bad1 : \A o \in Bad1 : k <= o
    BY <2>1, SmallestOf
  <2>3. k # 0 /\ k \in Regions
    BY <1>0, <1>6, <2>2 DEF Regions
  <2>4. k - 1 \in Nat /\ k - 1 <= N /\ ~(k <= k - 1)
    BY <2>2, <2>3
  <2>5. Current[k - 1] \in Nat
    BY <2>2, <2>4
  <2> QED BY <1>6, <2>2, <2>3, <2>5, RomConstants
<1>8. Current \in [0 .. N -> Nat]
  <2>1. Current = [j \in 0 .. N |-> Current[j]]
    BY <1>3, <1>5
  <2> QED BY <1>7, <2>1
<1> QED
  BY <1>6, <1>8

LEMMA CurrentGrows == \A j, k \in 0 .. Len(Blocks) : j <= k => Current[j] <= Current[k]
<1> DEFINE N == Len(Blocks)
<1> SUFFICES ASSUME NEW j \in 0 .. N, NEW l \in 0 .. N, j <= l PROVE Current[j] <= Current[l]
  OBVIOUS
<1> DEFINE Less == {k \in Nat : j <= k /\ k <= N /\ ~(Current[j] <= Current[k])}
<1>0. N \in Nat /\ Less \in SUBSET Nat /\ \A k \in 0 .. N : Current[k] \in Nat
  BY RomConstants, CurrentIs
<1>1. ASSUME Less # {} PROVE FALSE
  <2>1. PICK k \in Less : \A o \in Less : k <= o
    BY <1>0, <1>1, SmallestOf
  <2>2. k # j /\ k - 1 \in Nat /\ j <= k - 1 /\ k \in Regions /\ ~(k <= k - 1)
    BY <1>0, <2>1 DEF Regions
  <2>3. Current[j] <= Current[k - 1]
    BY <1>0, <2>1, <2>2
  <2>4. Current[k] = Current[k - 1] + Extent(k) /\ Extent(k) \in Nat
    BY <2>2, CurrentIs, RomConstants
  <2>5. k - 1 \in 0 .. N /\ k \in 0 .. N
    BY <1>0, <2>1, <2>2
  <2> QED BY <1>0, <2>1, <2>3, <2>4, <2>5
<1> QED
  BY <1>0, <1>1

\* Of every two sums that follow each other, one pair has a number between them.
LEMMA SumsSplit ==
  ASSUME NEW x \in FlashBytes
  PROVE  \E k \in Regions :
           /\ Current[k - 1] <= x /\ x < Current[k]
           /\ \A j \in Regions : Current[j - 1] <= x /\ x < Current[j] => j = k
<1> DEFINE N == Len(Blocks)
           Above == {k \in Nat : k <= N /\ x < Current[k]}
<1>0. N \in Nat /\ Above \in SUBSET Nat /\ \A k \in 0 .. N : Current[k] \in Nat
  BY RomConstants, CurrentIs
<1>1. x \in Nat /\ x < Current[N]
  BY <1>0 DEF FlashBytes, FlashSize
<1>2. PICK k \in Above : \A o \in Above : k <= o
  <2>1. N \in Above
    BY <1>0, <1>1
  <2> QED BY <1>0, <2>1, SmallestOf
<1>3. k # 0
  BY <1>1, <1>2, CurrentIs
<1>4. k \in Regions /\ k - 1 \in Nat /\ ~(k <= k - 1) /\ k - 1 \in 0 .. N /\ k \in 0 .. N
  BY <1>0, <1>2, <1>3 DEF Regions
<1>5. Current[k - 1] <= x /\ x < Current[k]
  BY <1>0, <1>1, <1>2, <1>4
<1>6. ASSUME NEW j \in Regions, Current[j - 1] <= x, x < Current[j], j # k PROVE FALSE
  <2>1. j \in 0 .. N /\ j - 1 \in 0 .. N
    BY <1>0 DEF Regions
  <2>2. CASE j < k
    <3>1. Current[j] <= Current[k - 1]
      BY <1>4, <2>1, <2>2, CurrentGrows
    <3> QED BY <1>0, <1>1, <1>4, <1>5, <1>6, <2>1, <3>1
  <2>3. CASE k < j
    <3>1. Current[k] <= Current[j - 1]
      BY <1>4, <2>1, <2>3, CurrentGrows
    <3> QED BY <1>0, <1>1, <1>4, <1>5, <1>6, <2>1, <3>1
  <2> QED BY <1>4, <1>6, <2>1, <2>2, <2>3
<1> QED
  BY <1>4, <1>5, <1>6

\* Where the regions lie.
LEMMA RegionPlaces ==
  \A k \in Regions : /\ FirstOf(k) \in Nat /\ FirstOf(k) + Extent(k) <= FlashSize
                     /\ FlashSize \in Nat /\ Extent(k) \in Nat \ {0}
                     /\ IF Reversed THEN FirstOf(k) = FlashSize - Current[k]
                                         /\ FirstOf(k) + Extent(k) = FlashSize - Current[k - 1]
                        ELSE FirstOf(k) = Current[k - 1] /\ FirstOf(k) + Extent(k) = Current[k]
<1> TAKE k \in Regions
<1>1. /\ Len(Blocks) \in Nat /\ k \in 0 .. Len(Blocks) /\ k - 1 \in 0 .. Len(Blocks)
      /\ k <= Len(Blocks) /\ 0 <= k - 1 /\ Len(Blocks) \in 0 .. Len(Blocks) /\ 0 \in 0 .. Len(Blocks)
  BY RomConstants DEF Regions
<1>2. /\ Current[k] \in Nat /\ Current[k - 1] \in Nat /\ FlashSize \in Nat
      /\ Current[k] = Current[k - 1] + Extent(k) /\ Extent(k) \in Nat \ {0}
  BY <1>1, CurrentIs, RomConstants DEF FlashSize
<1>3. Current[k] <= FlashSize /\ Current[k - 1] <= FlashSize
  BY <1>1, CurrentGrows DEF FlashSize
<1> QED
  BY <1>2, <1>3 DEF FirstOf

\* Every byte is in one region (sector_size_at).
LEMMA RegionAtIs ==
  ASSUME NEW a \in FlashBytes
  PROVE  /\ RegionAt(a) \in Regions
         /\ FirstOf(RegionAt(a)) <= a /\ a < FirstOf(RegionAt(a)) + Extent(RegionAt(a))
         /\ \A k \in Regions : FirstOf(k) <= a /\ a < FirstOf(k) + Extent(k) => k = RegionAt(a)
<1> DEFINE In(k) == a \in FirstOf(k) .. FirstOf(k) + Extent(k) - 1
           x == IF Reversed THEN FlashSize - 1 - a ELSE a
<1>1. FlashSize \in Nat /\ a \in Nat /\ a < FlashSize
  BY CurrentIs, RomConstants DEF FlashSize, FlashBytes
<1>2. x \in FlashBytes
  BY <1>1 DEF FlashBytes
<1>3. ASSUME NEW k \in Regions
      PROVE  /\ In(k) <=> FirstOf(k) <= a /\ a < FirstOf(k) + Extent(k)
             /\ In(k) <=> Current[k - 1] <= x /\ x < Current[k]
  <2>1. Current[k] \in Nat /\ Current[k - 1] \in Nat
    <3>1. k \in 0 .. Len(Blocks) /\ k - 1 \in 0 .. Len(Blocks)
      BY RomConstants DEF Regions
    <3> QED BY <3>1, CurrentIs
  <2>2. /\ FirstOf(k) \in Nat /\ Extent(k) \in Nat
        /\ IF Reversed THEN FirstOf(k) = FlashSize - Current[k]
                            /\ FirstOf(k) + Extent(k) = FlashSize - Current[k - 1]
           ELSE FirstOf(k) = Current[k - 1] /\ FirstOf(k) + Extent(k) = Current[k]
    BY RegionPlaces
  <2>3. CASE Reversed
    <3>1. FirstOf(k) = FlashSize - Current[k] /\ FirstOf(k) + Extent(k) = FlashSize - Current[k - 1]
      BY <2>2, <2>3
    <3>2. x = FlashSize - 1 - a
      BY <2>3
    <3> QED BY <1>1, <2>1, <2>2, <3>1, <3>2
  <2>4. CASE ~Reversed
    <3>1. FirstOf(k) = Current[k - 1] /\ FirstOf(k) + Extent(k) = Current[k] /\ x = a
      BY <2>2, <2>4
    <3> QED BY <1>1, <2>1, <2>2, <3>1
  <2> QED BY <2>3, <2>4
<1>4. PICK k \in Regions : /\ Current[k - 1] <= x /\ x < Current[k]
                           /\ \A j \in Regions : Current[j - 1] <= x /\ x < Current[j] => j = k
  <2> HIDE DEF x
  <2> QED BY <1>2, SumsSplit
<1> HIDE DEF In, x
<1>5. In(k) /\ \A j \in Regions : In(j) => j = k
  BY <1>3, <1>4
<1>6. RegionAt(a) = k
  <2>1. RegionAt(a) = CHOOSE j \in Regions : In(j)
    BY DEF RegionAt, In
  <2> QED BY <1>5, <2>1
<1> QED
  BY <1>3, <1>5, <1>6

\* A product divides into its factors.
LEMMA Quotient ==
  ASSUME NEW w \in Nat \ {0}, NEW k \in Nat
  PROVE  (w * k) \div w = k
<1> DEFINE b == w * k
           j == b \div w
<1>1. b \in Nat
  OBVIOUS
<1>2. j \in Nat /\ b % w \in 0 .. w - 1 /\ b = w * j + (b % w)
  BY <1>1, Divide
<1>3. b % w = 0
  <2>1. 0 \in 0 .. w - 1 /\ w * k + 0 = b
    OBVIOUS
  <2>2. (w * k + 0) % w = 0
    BY <2>1, OneRemainder
  <2> QED BY <2>1, <2>2
<1>4. w * k = w * j
  BY <1>2, <1>3
<1> HIDE DEF b, j
<1>5. ASSUME k > j PROVE FALSE
  <2>1. w * (k - j) >= w /\ w * (k - j) = w * k - w * j
    BY <1>5, <1>2, Multiply
  <2> QED
    BY <2>1, <1>2, <1>4
<1>6. ASSUME k < j PROVE FALSE
  <2>1. w * (j - k) >= w /\ w * (j - k) = w * j - w * k
    BY <1>6, <1>2, Multiply
  <2> QED
    BY <2>1, <1>2, <1>4
<1>7. k = j
  BY <1>5, <1>6, <1>2
<1> QED
  BY <1>7 DEF b, j

\* Every byte is in one sector of its region, and a sector's first byte is its own.
LEMMA SectorAtIs ==
  ASSUME NEW a \in FlashBytes
  PROVE  LET k == RegionAt(a)
             q == (a - FirstOf(k)) \div Blocks[k].size
         IN  /\ SectorAt[a] = FirstOf(k) + q * Blocks[k].size
             /\ k \in Regions /\ q \in Nat
             /\ SectorAt[a] \in FlashBytes /\ SectorAt[a] <= a
             /\ SectorAt[SectorAt[a]] = SectorAt[a]
<1> DEFINE k == RegionAt(a)
           f == FirstOf(k)
           z == Blocks[k].size
           q == (a - f) \div z
           b == f + q * z
<1>1. k \in Regions /\ f <= a /\ a < f + Extent(k)
  BY RegionAtIs
<1>2. f \in Nat /\ f + Extent(k) <= FlashSize /\ FlashSize \in Nat /\ a \in Nat
  BY <1>1, RegionPlaces DEF FlashBytes
<1>3. z \in Nat \ {0} /\ Extent(k) \in Nat
  BY <1>1, RomConstants
<1>4. SectorAt = [c \in FlashBytes |->
                    FirstOf(RegionAt(c))
                      + ((c - FirstOf(RegionAt(c))) \div Blocks[RegionAt(c)].size)
                          * Blocks[RegionAt(c)].size]
  BY DEF SectorAt
<1>5. SectorAt[a] = b
  BY <1>4
<1>6. q \in Nat /\ q * z <= a - f
  <2>1. a - f \in Nat
    BY <1>1, <1>2
  <2>2. q \in Nat /\ (a - f) % z \in 0 .. z - 1 /\ a - f = z * q + ((a - f) % z)
    BY <2>1, <1>3, Divide
  <2>3. (a - f) % z \in Nat
    BY <2>2, <1>3
  <2> HIDE DEF q, f, z
  <2> QED BY <2>1, <2>2, <2>3, <1>3
<1>7. b \in FlashBytes /\ b <= a /\ f <= b
  <2>1. q * z \in Nat
    BY <1>3, <1>6
  <2> HIDE DEF q, f, z
  <2> QED BY <2>1, <1>1, <1>2, <1>6 DEF FlashBytes
<1>8. RegionAt(b) = k
  <2>1. b < f + Extent(k)
    <3> HIDE DEF f, b
    <3> QED BY <1>1, <1>2, <1>3, <1>7 DEF FlashBytes
  <2> HIDE DEF b
  <2>2. FirstOf(k) <= b /\ b < FirstOf(k) + Extent(k)
    BY <1>7, <2>1
  <2>3. \A j \in Regions : FirstOf(j) <= b /\ b < FirstOf(j) + Extent(j) => j = RegionAt(b)
    BY <1>7, RegionAtIs
  <2> HIDE DEF k
  <2> QED BY <1>1, <2>2, <2>3
<1>9. SectorAt[b] = b
  <2>1. SectorAt[b] = FirstOf(RegionAt(b))
                      + ((b - FirstOf(RegionAt(b))) \div Blocks[RegionAt(b)].size)
                          * Blocks[RegionAt(b)].size
    <3> HIDE DEF b
    <3> QED BY <1>4, <1>7
  <2>2. SectorAt[b] = f + ((b - f) \div z) * z
    <3> HIDE DEF b, k
    <3> QED BY <2>1, <1>8
  <2>3. b - f = z * q
    <3>1. q * z \in Nat /\ q * z = z * q
      BY <1>3, <1>6
    <3> HIDE DEF q, f, z
    <3> QED BY <3>1, <1>2
  <2>4. (z * q) \div z = q
    <3> HIDE DEF q, z
    <3> QED BY <1>3, <1>6, Quotient
  <2> HIDE DEF q, z, f
  <2> QED BY <2>2, <2>3, <2>4
<1> QED
  BY <1>1, <1>5, <1>6, <1>7, <1>9

\* is_sector_boundary tells whether a sector begins.
LEMMA BoundaryIs == \A a \in Nat : IsBoundary(a) <=> a \in FlashBytes /\ SectorAt[a] = a
<1> TAKE a \in Nat
<1>1. CASE Len(Blocks) >= 2
  BY <1>1 DEF IsBoundary
<1>2. CASE Len(Blocks) = 1 /\ a \in FlashBytes
  <2>1. Regions = {1} /\ RegionAt(a) = 1 /\ 1 \in Regions
    BY <1>2, RegionAtIs DEF Regions
  <2>2. FirstOf(1) = 0
    <3>1. Current[1] = FlashSize /\ Current[0] = 0 /\ FlashSize \in Nat
      BY <1>2, <2>1, CurrentIs, RegionPlaces DEF FlashSize
    <3> QED BY <3>1 DEF FirstOf
  <2> DEFINE z == Blocks[1].size
             q == a \div z
  <2>3. SectorAt[a] = 0 + ((a - 0) \div z) * z
    BY <2>1, <2>2, <1>2, SectorAtIs
  <2>4. z \in Nat \ {0} /\ a - 0 = a
    BY <2>1, RomConstants
  <2>5. q \in Nat /\ a % z \in 0 .. z - 1 /\ a = z * q + (a % z)
    BY <2>4, Divide
  <2>6. SectorAt[a] = z * q
    <3>1. SectorAt[a] = 0 + q * z
      BY <2>3, <2>4
    <3> HIDE DEF q, z
    <3> QED BY <3>1, <2>4, <2>5
  <2>7. IsBoundary(a) <=> a % z = 0
    BY <1>2 DEF IsBoundary
  <2>8. a % z \in Nat /\ z * q \in Nat
    <3> HIDE DEF q, z
    <3> QED BY <2>4, <2>5
  <2>9. a % z = 0 <=> SectorAt[a] = a
    <3> HIDE DEF q, z
    <3> QED BY <2>5, <2>6, <2>8
  <2> QED BY <1>2, <2>7, <2>9
<1>3. CASE a \notin FlashBytes
  BY <1>3 DEF IsBoundary
<1>4. Len(Blocks) = 1 \/ Len(Blocks) >= 2
  <2>1. \A n \in Nat \ {0} : n = 1 \/ n >= 2
    OBVIOUS
  <2>2. Len(Blocks) \in Nat \ {0}
    BY RomConstants
  <2> QED BY <2>1, <2>2, Zenon
<1> QED
  BY <1>1, <1>2, <1>3, <1>4, Zenon

\* A multiple of u.
Whole(u, x) == \E q \in Nat : x = u * q

\* With sectors made of whole units, every sector begins at a multiple of the unit.
LEMMA SectorsWhole ==
  ASSUME NEW u \in Nat \ {0}, \A k \in Regions : Blocks[k].size % u = 0
  PROVE  \A a \in FlashBytes : Whole(u, SectorAt[a])
<1> DEFINE N == Len(Blocks)
<1>0. \A x, y \in Nat : Whole(u, x) /\ Whole(u, y) => Whole(u, x + y) /\ (y <= x => Whole(u, x - y))
  <2> SUFFICES ASSUME NEW x \in Nat, NEW y \in Nat, Whole(u, x), Whole(u, y)
               PROVE  Whole(u, x + y) /\ (y <= x => Whole(u, x - y))
    OBVIOUS
  <2>1. PICK p \in Nat : x = u * p
    BY DEF Whole
  <2>2. PICK q \in Nat : y = u * q
    BY DEF Whole
  <2>3. x + y = u * (p + q) /\ p + q \in Nat
    BY <2>1, <2>2
  <2>4. ASSUME y <= x PROVE Whole(u, x - y)
    <3>1. ASSUME ~(q <= p) PROVE FALSE
      <4>1. u * (q - p) >= u /\ u * (q - p) = u * q - u * p
        BY <3>1, Multiply
      <4> QED BY <4>1, <2>1, <2>2, <2>4
    <3>2. p - q \in Nat
      BY <3>1
    <3>3. x - y = u * (p - q)
      BY <2>1, <2>2
    <3> QED BY <3>2, <3>3 DEF Whole
  <2> QED BY <2>3, <2>4 DEF Whole
<1>1. \A k \in Regions : \A n \in Nat : Whole(u, n * Blocks[k].size)
  <2> TAKE k \in Regions
  <2> TAKE n \in Nat
  <2> DEFINE z == Blocks[k].size
             q == z \div u
  <2>1. z \in Nat
    BY RomConstants
  <2>2. q \in Nat /\ z % u = 0 /\ z = u * q + (z % u)
    BY <2>1, Divide
  <2>3. z = u * q
    <3> HIDE DEF q, z
    <3> QED BY <2>1, <2>2
  <2>4. n * z = u * (n * q) /\ n * q \in Nat
    <3> HIDE DEF q, z
    <3> QED BY <2>1, <2>2, <2>3
  <2> HIDE DEF q, z
  <2>5. Whole(u, n * z)
    BY <2>4 DEF Whole
  <2> QED BY <2>5 DEF z
<1>2. \A k \in Regions : Whole(u, Extent(k))
  BY <1>1, RomConstants
<1>3. \A k \in 0 .. N : Whole(u, Current[k])
  <2> DEFINE Broken == {k \in Nat : k <= N /\ ~Whole(u, Current[k])}
  <2>0. Broken \in SUBSET Nat /\ N \in Nat
    BY RomConstants
  <2>1. ASSUME Broken # {} PROVE FALSE
    <3>1. PICK k \in Broken : \A o \in Broken : k <= o
      BY <2>0, <2>1, SmallestOf
    <3>2. CASE k = 0
      <4>1. Current[k] = u * 0 /\ 0 \in Nat
        BY <3>2, CurrentIs
      <4> QED BY <4>1, <3>1 DEF Whole
    <3>3. CASE k # 0
      <4>1. k \in Regions /\ k - 1 \in Nat /\ k - 1 <= N /\ ~(k <= k - 1) /\ k - 1 \in 0 .. N
        BY <2>0, <3>1, <3>3 DEF Regions
      <4>2. Whole(u, Current[k - 1]) /\ Current[k - 1] \in Nat
        BY <3>1, <4>1, CurrentIs
      <4>3. Current[k] = Current[k - 1] + Extent(k) /\ Extent(k) \in Nat
        BY <4>1, CurrentIs, RomConstants
      <4>4. Whole(u, Current[k])
        BY <1>0, <1>2, <4>1, <4>2, <4>3
      <4> QED BY <3>1, <4>4
    <3> QED BY <3>2, <3>3
  <2> HIDE DEF Broken
  <2>2. Broken = {}
    BY <2>1
  <2>3. \A k \in Nat : k <= N => Whole(u, Current[k])
    BY <2>2 DEF Broken
  <2> QED BY <2>0, <2>3
<1>4. \A k \in Regions : Whole(u, FirstOf(k))
  <2> TAKE k \in Regions
  <2>1. /\ k \in 0 .. N /\ k - 1 \in 0 .. N /\ N \in 0 .. N /\ N \in Nat /\ k <= N
    BY RomConstants DEF Regions
  <2>2. Current[k] \in Nat /\ Current[k - 1] \in Nat /\ Current[N] \in Nat /\ Current[k] <= Current[N]
    BY <2>1, CurrentIs, CurrentGrows
  <2>3. Whole(u, Current[k - 1]) /\ Whole(u, Current[N] - Current[k])
    <3>1. Whole(u, Current[k - 1]) /\ Whole(u, Current[k]) /\ Whole(u, Current[N])
      BY <1>3, <2>1
    <3> QED BY <1>0, <2>2, <3>1
  <2> QED BY <2>3 DEF FirstOf, FlashSize
<1> TAKE a \in FlashBytes
<1> DEFINE k == RegionAt(a)
           q == (a - FirstOf(k)) \div Blocks[k].size
<1>5. SectorAt[a] = FirstOf(k) + q * Blocks[k].size /\ k \in Regions /\ q \in Nat
  BY SectorAtIs
<1> HIDE DEF k, q
<1>6. FirstOf(k) \in Nat /\ q * Blocks[k].size \in Nat
  BY <1>5, RegionPlaces, RomConstants
<1> QED
  BY <1>0, <1>1, <1>4, <1>5, <1>6

\* A unit that begins at a multiple of its size lies in one sector.
LEMMA UnitWhole ==
  ASSUME NEW u \in Nat \ {0}, \A k \in Regions : Blocks[k].size % u = 0,
         NEW x \in Nat, x % u = 0, NEW a \in FlashBytes, x <= a, SectorAt[a] < x + u
  PROVE  SectorAt[a] <= x
<1>1. PICK s \in Nat : SectorAt[a] = u * s
  BY SectorsWhole DEF Whole
<1>2. PICK t \in Nat : x = u * t
  <2>1. x \div u \in Nat /\ x = u * (x \div u) + 0
    BY Divide
  <2>2. x = u * (x \div u)
    <3>1. u * (x \div u) \in Nat
      BY <2>1
    <3> QED BY <2>1, <3>1
  <2> QED BY <2>1, <2>2
<1>3. ASSUME t < s PROVE FALSE
  <2>1. u * (s - t) >= u /\ u * (s - t) = u * s - u * t
    BY <1>3, Multiply
  <2> QED BY <1>1, <1>2, <2>1
<1>4. s <= t
  BY <1>3
<1>5. CASE s = t
  BY <1>1, <1>2, <1>5
<1>6. CASE s < t
  <2>1. u * (t - s) >= u /\ u * (t - s) = u * t - u * s
    BY <1>6, Multiply
  <2> QED BY <1>1, <1>2, <2>1
<1> QED
  BY <1>4, <1>5, <1>6

-----------------------------------------------------------------------------
(* A write: what is known of the chip, the erase ahead and the image begun.  *)

\* A chunk in progress belongs to a write that was begun, on the chip that was found.
ChunkShape ==
  /\ Calm => chunk = Rest2
  /\ ~Calm => /\ writing.active /\ probed = "chip"
              /\ chunk.done < chunk.length
              /\ writing.offset + chunk.length <= FlashSize
              /\ writing.total # 0 => writing.offset + chunk.length <= writing.total
              /\ At % 2 = 0
  /\ writing.active => image # 0

\* The chip erases the sector the code erases ahead: the next one to be written.
AheadShape ==
  ~stray =>
    /\ busy # Nowhere => busy = ahead
    /\ ahead # Nowhere =>
         /\ SectorAt[ahead] = ahead /\ writing.total # 0 /\ ahead < writing.total
         /\ writing.active => ahead = writing.offset /\ chunk.done = 0 /\ ~chunk.ready
         /\ ~writing.active => ahead = 0 /\ taken = 0
         /\ busy = Nowhere => \A a \in FlashBytes : SectorAt[a] = ahead => cells[a] = Blank

\* Behind what was written, the rest of its last sector is blank, or has been written before.
BegunShape ==
  ~stray /\ writing.active =>
    /\ taken = writing.offset
    /\ \A a \in FlashBytes : writing.offset <= a /\ a < At => cells[a] = image
    /\ \A a \in FlashBytes :
         At <= a /\ (SectorAt[a] < At \/ (SectorAt[a] = At /\ chunk.ready))
           => cells[a] \in {Blank, image}

RomInv == RomTypeOK /\ ChunkShape /\ AheadShape /\ BegunShape /\ TakenIsThere

LEMMA RomFacts ==
  /\ FlashSize \in Nat \ {0} /\ Nowhere \notin Nat /\ MaxImages \in Nat /\ Totals \subseteq Nat
  /\ ChunkLengths \subseteq Nat \ {0} /\ BufferSize \in Nat
  /\ \A a : a \in FlashBytes <=> a \in Nat /\ a < FlashSize
<1>1. FlashSize \in Nat \ {0}
  <2>1. 1 \in Regions
    <3>1. \A n \in Nat \ {0} : 1 \in 1 .. n
      OBVIOUS
    <3> QED BY <3>1, RomConstants, Zenon DEF Regions
  <2>2. /\ FirstOf(1) \in Nat /\ FirstOf(1) + Extent(1) <= FlashSize
        /\ FlashSize \in Nat /\ Extent(1) \in Nat \ {0}
    BY <2>1, RegionPlaces
  <2> QED BY <2>2
<1> QED
  BY <1>1, RomAssumption DEF FlashBytes

LEMMA SectorFacts ==
  /\ \A a \in FlashBytes : /\ SectorAt[a] \in FlashBytes /\ SectorAt[a] \in Nat /\ a \in Nat
                           /\ SectorAt[a] <= a /\ SectorAt[SectorAt[a]] = SectorAt[a]
  /\ 0 \in FlashBytes /\ SectorAt[0] = 0
<1>1. \A a \in FlashBytes : /\ SectorAt[a] \in FlashBytes /\ SectorAt[a] <= a
                            /\ SectorAt[SectorAt[a]] = SectorAt[a]
  BY SectorAtIs
<1>2. 0 \in FlashBytes
  BY RomFacts
<1>3. SectorAt[0] \in Nat /\ SectorAt[0] <= 0
  BY <1>1, <1>2, RomFacts
<1> QED
  BY <1>1, <1>2, <1>3, RomFacts

LEMMA RomTypes ==
  ASSUME RomTypeOK
  PROVE  /\ DOMAIN cells = FlashBytes
         /\ \A a \in FlashBytes : cells[a] \in {Blank, Mixed} \cup 1 .. MaxImages
         /\ writing = [active |-> writing.active, offset |-> writing.offset, total |-> writing.total]
         /\ writing.active \in BOOLEAN /\ writing.offset \in Nat /\ writing.offset <= FlashSize
         /\ writing.total \in Nat /\ writing.total \in Totals \cup {0}
         /\ chunk = [length |-> chunk.length, done |-> chunk.done, ready |-> chunk.ready]
         /\ chunk.length \in Nat /\ chunk.length <= FlashSize
         /\ chunk.done \in Nat /\ chunk.done <= FlashSize /\ chunk.ready \in BOOLEAN
         /\ image \in Nat /\ image <= MaxImages /\ taken \in Nat /\ taken <= FlashSize
         /\ (busy # Nowhere => busy \in FlashBytes /\ busy \in Nat)
         /\ (ahead # Nowhere => ahead \in FlashBytes /\ ahead \in Nat)
         /\ At \in Nat
<1>1. cells \in [FlashBytes -> {Blank, Mixed} \cup 1 .. MaxImages]
  BY DEF RomTypeOK
<1>2. writing \in [active : BOOLEAN, offset : 0 .. FlashSize, total : Totals \cup {0}]
  BY DEF RomTypeOK
<1>3. chunk \in [length : 0 .. FlashSize, done : 0 .. FlashSize, ready : BOOLEAN]
  BY DEF RomTypeOK
<1>4. /\ writing = [active |-> writing.active, offset |-> writing.offset, total |-> writing.total]
      /\ writing.active \in BOOLEAN /\ writing.offset \in Nat /\ writing.offset <= FlashSize
      /\ writing.total \in Nat /\ writing.total \in Totals \cup {0}
  <2>1. /\ writing = [active |-> writing.active, offset |-> writing.offset, total |-> writing.total]
        /\ writing.active \in BOOLEAN /\ writing.offset \in 0 .. FlashSize
        /\ writing.total \in Totals \cup {0}
    BY <1>2
  <2>2. Totals \cup {0} \subseteq Nat /\ FlashSize \in Nat
    BY RomFacts
  <2> QED BY <2>1, <2>2
<1>5. /\ chunk = [length |-> chunk.length, done |-> chunk.done, ready |-> chunk.ready]
      /\ chunk.length \in Nat /\ chunk.length <= FlashSize
      /\ chunk.done \in Nat /\ chunk.done <= FlashSize /\ chunk.ready \in BOOLEAN
  BY <1>3, RomFacts
<1>6. At \in Nat
  BY <1>4, <1>5 DEF At
<1>7. image \in 0 .. MaxImages /\ taken \in 0 .. FlashSize
  BY DEF RomTypeOK
<1>8. busy \in FlashBytes \cup {Nowhere} /\ ahead \in FlashBytes \cup {Nowhere}
  BY DEF RomTypeOK
<1>9. image \in Nat /\ image <= MaxImages /\ taken \in Nat /\ taken <= FlashSize
  BY <1>7, RomFacts
<1>10. (busy # Nowhere => busy \in FlashBytes /\ busy \in Nat)
         /\ (ahead # Nowhere => ahead \in FlashBytes /\ ahead \in Nat)
  BY <1>8, RomFacts
<1>11. DOMAIN cells = FlashBytes /\ \A a \in FlashBytes : cells[a] \in {Blank, Mixed} \cup 1 .. MaxImages
  BY <1>1
<1> QED
  BY <1>4, <1>5, <1>6, <1>9, <1>10, <1>11

\* Erasing a sector changes none of the others.
LEMMA ErasedIs ==
  ASSUME RomTypeOK, NEW b \in FlashBytes
  PROVE  /\ \A a \in FlashBytes :
              /\ Erased(b)[a] = IF SectorAt[a] = SectorAt[b] THEN Blank ELSE cells[a]
              /\ Ruined(b)[a] = IF SectorAt[a] = SectorAt[b] THEN Mixed ELSE cells[a]
         /\ Erased(b) \in [FlashBytes -> {Blank, Mixed} \cup 1 .. MaxImages]
         /\ Ruined(b) \in [FlashBytes -> {Blank, Mixed} \cup 1 .. MaxImages]
<1> DEFINE V == {Blank, Mixed} \cup 1 .. MaxImages
<1>1. \A a \in FlashBytes : cells[a] \in V
  BY RomTypes
<1>2. Blank \in V /\ Mixed \in V
  OBVIOUS
<1> HIDE DEF V
<1>3. Erased(b) \in [FlashBytes -> V] /\ Ruined(b) \in [FlashBytes -> V]
  BY <1>1, <1>2 DEF Erased, Ruined
<1>4. \A a \in FlashBytes :
              /\ Erased(b)[a] = IF SectorAt[a] = SectorAt[b] THEN Blank ELSE cells[a]
              /\ Ruined(b)[a] = IF SectorAt[a] = SectorAt[b] THEN Mixed ELSE cells[a]
  BY DEF Erased, Ruined
<1> QED
  BY <1>3, <1>4 DEF V

LEMMA RomAtFirst == RomInit => RomInv
<1> SUFFICES ASSUME RomInit PROVE RomInv
  OBVIOUS
<1>1. RomTypeOK
  <2>1. 0 \in 0 .. FlashSize /\ 0 \in 0 .. MaxImages
    BY RomFacts
  <2>2. cells \in [FlashBytes -> {Blank, Mixed} \cup 1 .. MaxImages]
    BY DEF RomInit
  <2>3. /\ writing \in [active : BOOLEAN, offset : 0 .. FlashSize, total : Totals \cup {0}]
        /\ chunk \in [length : 0 .. FlashSize, done : 0 .. FlashSize, ready : BOOLEAN]
    BY <2>1 DEF RomInit, NoImage, Rest2
  <2> QED BY <2>1, <2>2, <2>3 DEF RomInit, RomTypeOK
<1>2. ChunkShape /\ AheadShape /\ BegunShape
  BY DEF RomInit, ChunkShape, AheadShape, BegunShape, NoImage, Rest2, Calm
<1>3. TakenIsThere
  BY DEF RomInit, TakenIsThere
<1> QED
  BY <1>1, <1>2, <1>3 DEF RomInv

LEMMA EraseEndsKeeps == ASSUME RomInv, EraseEnds PROVE RomInv'
<1>0. /\ RomTypeOK /\ ChunkShape /\ AheadShape /\ BegunShape /\ TakenIsThere
      /\ busy # Nowhere /\ cells' = Erased(busy) /\ busy' = Nowhere
      /\ probed' = probed /\ writing' = writing /\ ahead' = ahead /\ chunk' = chunk
      /\ image' = image /\ taken' = taken /\ stray' = stray /\ At' = At
  BY DEF RomInv, EraseEnds, At
<1>1. busy \in FlashBytes
  BY <1>0, RomTypes
<1>2. /\ \A a \in FlashBytes : cells'[a] = IF SectorAt[a] = SectorAt[busy] THEN Blank ELSE cells[a]
      /\ cells' \in [FlashBytes -> {Blank, Mixed} \cup 1 .. MaxImages]
  BY <1>0, <1>1, ErasedIs
<1>3. RomTypeOK'
  BY <1>0, <1>2 DEF RomTypeOK
<1>4. ChunkShape'
  BY <1>0 DEF ChunkShape, Calm
<1>5. ASSUME ~stray
      PROVE  /\ busy = ahead /\ SectorAt[busy] = busy /\ taken <= busy
             /\ writing.active => busy = At
             /\ writing.active => ~chunk.ready
  BY <1>0, <1>1, <1>5, RomTypes DEF AheadShape, BegunShape, At
<1>6. AheadShape'
  BY <1>0, <1>2, <1>5 DEF AheadShape
<1>7. TakenIsThere'
  <2> SUFFICES ASSUME ~stray, NEW a \in 0 .. taken - 1 PROVE cells'[a] = image
    BY <1>0 DEF TakenIsThere
  <2>1. a \in FlashBytes /\ a < busy /\ cells[a] = image
    BY <1>0, <1>1, <1>5, RomTypes, RomFacts DEF TakenIsThere
  <2>2. SectorAt[a] # SectorAt[busy]
    BY <1>1, <1>5, <2>1, SectorFacts
  <2> QED BY <1>2, <2>1, <2>2
<1>8. BegunShape'
  <2> SUFFICES ASSUME ~stray, writing.active PROVE BegunShape'
    BY <1>0 DEF BegunShape
  <2>1. \A a \in FlashBytes : a < At => SectorAt[a] # SectorAt[busy]
    BY <1>1, <1>5, SectorFacts, RomTypes, <1>0
  <2>2. \A a \in FlashBytes : cells'[a] = cells[a] \/ cells'[a] = Blank
    BY <1>2
  <2>3. \A a \in FlashBytes : a < At => cells'[a] = cells[a]
    BY <1>2, <2>1
  <2> QED BY <1>0, <2>2, <2>3 DEF BegunShape
<1> QED
  BY <1>3, <1>4, <1>6, <1>7, <1>8 DEF RomInv

LEMMA InvalidateKeeps == ASSUME RomInv, Invalidate PROVE RomInv'
<1>0. /\ RomTypeOK /\ ChunkShape /\ AheadShape /\ TakenIsThere
      /\ Calm /\ probed' = "no" /\ writing' = NoImage /\ ahead' = Nowhere
      /\ stray' = (busy # Nowhere) /\ taken' = IF stray THEN 0 ELSE taken
      /\ cells' = cells /\ busy' = busy /\ chunk' = chunk /\ image' = image
  BY DEF RomInv, Invalidate
<1>1. RomTypeOK'
  BY <1>0, RomFacts, RomTypes DEF RomTypeOK, NoImage
<1>2. ChunkShape' /\ AheadShape' /\ BegunShape'
  BY <1>0 DEF ChunkShape, AheadShape, BegunShape, Calm, NoImage
<1>3. TakenIsThere'
  BY <1>0 DEF TakenIsThere
<1> QED
  BY <1>1, <1>2, <1>3 DEF RomInv

LEMMA WriteRefusedKeeps == ASSUME RomInv, WriteRefused PROVE RomInv'
<1>0. /\ RomTypeOK /\ ChunkShape /\ AheadShape /\ BegunShape /\ TakenIsThere
      /\ Calm /\ probed' \in {"no", "chip", "none"}
      /\ cells' = cells /\ busy' = busy /\ chunk' = chunk /\ image' = image /\ At' = At
      /\ writing' = writing /\ ahead' = ahead /\ taken' = taken /\ stray' = stray
  BY DEF RomInv, WriteRefused, ProbeNor, RomTypeOK, At
<1>1. RomTypeOK'
  BY <1>0 DEF RomTypeOK
<1>2. ChunkShape'
  BY <1>0 DEF ChunkShape, Calm
<1>3. AheadShape' /\ BegunShape' /\ TakenIsThere'
  BY <1>0 DEF AheadShape, BegunShape, TakenIsThere
<1> QED
  BY <1>1, <1>2, <1>3 DEF RomInv

\* The sector erased ahead begins behind everything that was accepted.
LEMMA AheadIs ==
  ASSUME RomInv, ~stray, busy # Nowhere
  PROVE  /\ busy = ahead /\ busy \in FlashBytes /\ SectorAt[busy] = busy /\ taken <= busy
         /\ writing.total # 0 /\ busy < writing.total
         /\ writing.active => busy = At
         /\ \A a \in FlashBytes : SectorAt[a] = SectorAt[busy] => busy <= a
<1>1. /\ RomTypeOK /\ AheadShape /\ BegunShape
  BY DEF RomInv
<1>2. busy \in FlashBytes
  BY <1>1, RomTypes
<1>3. /\ busy = ahead /\ SectorAt[busy] = busy /\ taken <= busy
      /\ writing.total # 0 /\ busy < writing.total
      /\ writing.active => busy = At
  BY <1>1, <1>2, RomTypes DEF AheadShape, BegunShape, At
<1>4. \A a \in FlashBytes : SectorAt[a] = SectorAt[busy] => busy <= a
  BY <1>2, <1>3, SectorFacts
<1> QED
  BY <1>2, <1>3, <1>4

LEMMA FlushKeeps == ASSUME RomInv, Flush PROVE RomInv'
<1>0. /\ RomTypeOK /\ ChunkShape /\ AheadShape /\ BegunShape /\ TakenIsThere
      /\ Calm /\ writing' = NoImage /\ ahead' = Nowhere
      /\ probed' = probed /\ chunk' = chunk /\ image' = image /\ taken' = taken /\ stray' = stray
      /\ \/ (ahead = Nowhere \/ busy = Nowhere) /\ cells' = cells /\ busy' = busy
         \/ ahead # Nowhere /\ busy # Nowhere /\ busy' = Nowhere /\ cells' \in {Erased(busy), Ruined(busy)}
  BY DEF RomInv, Flush
<1>1. NoImage \in [active : BOOLEAN, offset : 0 .. FlashSize, total : Totals \cup {0}]
  <2>1. 0 \in 0 .. FlashSize
    BY RomFacts
  <2> QED BY <2>1 DEF NoImage
<1>2. /\ cells' \in [FlashBytes -> {Blank, Mixed} \cup 1 .. MaxImages]
      /\ busy' \in {busy, Nowhere}
  <2>1. CASE cells' = cells /\ busy' = busy
    BY <1>0, <2>1 DEF RomTypeOK
  <2>2. CASE busy # Nowhere /\ busy' = Nowhere /\ cells' \in {Erased(busy), Ruined(busy)}
    <3>1. busy \in FlashBytes
      BY <1>0, <2>2, RomTypes
    <3> QED BY <1>0, <2>2, <3>1, ErasedIs
  <2> QED BY <1>0, <2>1, <2>2
<1>3. RomTypeOK'
  BY <1>0, <1>1, <1>2 DEF RomTypeOK
<1>4. ChunkShape' /\ BegunShape'
  BY <1>0 DEF ChunkShape, BegunShape, Calm, NoImage
<1>5. AheadShape'
  BY <1>0 DEF AheadShape
<1>6. TakenIsThere'
  <2> SUFFICES ASSUME ~stray, NEW a \in 0 .. taken - 1 PROVE cells'[a] = image
    BY <1>0 DEF TakenIsThere
  <2>1. a \in FlashBytes /\ a < taken /\ cells[a] = image /\ a \in Nat
    BY <1>0, RomTypes, RomFacts DEF TakenIsThere
  <2>2. CASE cells' = cells
    BY <2>1, <2>2
  <2>3. CASE busy # Nowhere /\ cells' \in {Erased(busy), Ruined(busy)}
    <3>1. /\ busy \in FlashBytes /\ taken <= busy /\ busy \in Nat
          /\ \A c \in FlashBytes : SectorAt[c] = SectorAt[busy] => busy <= c
      BY <2>3, AheadIs, RomFacts
    <3>2. SectorAt[a] # SectorAt[busy]
      BY <1>0, <2>1, <3>1, RomTypes
    <3> QED BY <1>0, <2>1, <2>3, <3>1, <3>2, ErasedIs
  <2> QED BY <1>0, <2>2, <2>3
<1> QED
  BY <1>3, <1>4, <1>5, <1>6 DEF RomInv

LEMMA SetSizeKeeps == ASSUME RomInv, NEW total \in Totals, SetSize(total) PROVE RomInv'
<1>0. /\ RomTypeOK /\ ChunkShape /\ AheadShape /\ BegunShape /\ TakenIsThere
      /\ Calm /\ writing' = [NoImage EXCEPT !.total = total] /\ stray' = (busy # Nowhere)
      /\ cells' = cells /\ chunk' = chunk /\ image' = image
      /\ probed' \in {"no", "chip", "none"}
      /\ \/ total # 0 /\ ahead' = 0 /\ taken' = 0 /\ busy' = IF busy = Nowhere THEN 0 ELSE busy
         \/ ahead' = Nowhere /\ taken' = (IF stray THEN 0 ELSE taken) /\ busy' = busy
  BY DEF RomInv, SetSize, ProbeNor, RomTypeOK
<1>1. /\ writing' = [active |-> FALSE, offset |-> 0, total |-> total]
      /\ total \in Nat /\ 0 \in 0 .. FlashSize
  <2>1. writing' = [active |-> FALSE, offset |-> 0, total |-> total]
    BY <1>0 DEF NoImage
  <2>2. total \in Nat /\ 0 \in 0 .. FlashSize
    BY RomFacts
  <2> QED BY <2>1, <2>2
<1>2. /\ writing' \in [active : BOOLEAN, offset : 0 .. FlashSize, total : Totals \cup {0}]
      /\ writing'.active = FALSE /\ writing'.offset = 0 /\ writing'.total = total
  BY <1>1
<1>3. RomTypeOK'
  <2>1. /\ busy' \in FlashBytes \cup {Nowhere} /\ ahead' \in FlashBytes \cup {Nowhere}
        /\ taken' \in 0 .. FlashSize
    <3>1. 0 \in FlashBytes /\ busy \in FlashBytes \cup {Nowhere} /\ taken \in 0 .. FlashSize
      BY <1>0, SectorFacts DEF RomTypeOK
    <3> QED BY <1>0, <1>1, <3>1
  <2> QED BY <1>0, <1>2, <2>1 DEF RomTypeOK
<1>4. ChunkShape' /\ BegunShape'
  BY <1>0, <1>2 DEF ChunkShape, BegunShape, Calm
<1>5. AheadShape'
  <2> SUFFICES ASSUME busy = Nowhere PROVE AheadShape'
    BY <1>0 DEF AheadShape
  <2>1. CASE total # 0 /\ ahead' = 0 /\ taken' = 0 /\ busy' = 0
    <3>1. SectorAt[0] = 0 /\ 0 < total /\ 0 # Nowhere
      BY <1>1, <2>1, SectorFacts, RomFacts
    <3> QED BY <1>2, <2>1, <3>1 DEF AheadShape
  <2>2. CASE ahead' = Nowhere /\ busy' = busy
    BY <2>2 DEF AheadShape
  <2> QED BY <1>0, <2>1, <2>2
<1>6. TakenIsThere'
  <2>1. taken' = 0 \/ (~stray /\ taken' = taken)
    BY <1>0
  <2> QED BY <1>0, <2>1 DEF TakenIsThere
<1> QED
  BY <1>3, <1>4, <1>5, <1>6 DEF RomInv

LEMMA ClipIs ==
  ASSUME RomTypeOK, NEW offset \in 0 .. FlashSize, NEW length \in ChunkLengths
  PROVE  /\ Clip(offset, length) \in Nat
         /\ Clip(offset, length) # 0 =>
              /\ offset + Clip(offset, length) <= FlashSize
              /\ writing.total # 0 => offset + Clip(offset, length) <= writing.total
<1> DEFINE end == IF writing.total = 0 THEN FlashSize ELSE Lesser(FlashSize, writing.total)
<1>1. /\ offset \in Nat /\ length \in Nat /\ FlashSize \in Nat /\ writing.total \in Nat
  BY RomFacts, RomTypes
<1>2. end \in Nat /\ end <= FlashSize /\ (writing.total # 0 => end <= writing.total)
  BY <1>1 DEF Lesser
<1>3. Clip(offset, length) = IF offset >= end THEN 0 ELSE Lesser(length, end - offset)
  BY DEF Clip
<1> HIDE DEF end
<1> QED
  BY <1>1, <1>2, <1>3 DEF Lesser

LEMMA WriteBeginKeeps ==
  ASSUME RomInv, NEW offset \in 0 .. FlashSize, NEW length \in ChunkLengths,
         WriteBegin(offset, length)
  PROVE  RomInv'
<1>0. /\ RomTypeOK /\ ChunkShape /\ AheadShape /\ BegunShape /\ TakenIsThere
      /\ Calm /\ probed' = "chip" /\ chunk = Rest2
      /\ \/ writing.active /\ writing' = writing /\ image' = image /\ taken' = taken
         \/ /\ ~writing.active /\ offset = 0 /\ image < MaxImages
            /\ writing' = [writing EXCEPT !.active = TRUE, !.offset = 0]
            /\ image' = image + 1 /\ taken' = 0
      /\ offset % 2 = 0 /\ offset = writing'.offset
      /\ chunk' = [Rest2 EXCEPT !.length = Clip(offset, length)]
      /\ cells' = cells /\ busy' = busy /\ ahead' = ahead /\ stray' = stray
  BY DEF RomInv, WriteBegin, ChunkShape
<1> DEFINE n == Clip(offset, length)
<1>1. /\ n \in Nat /\ offset \in Nat /\ FlashSize \in Nat
      /\ n # 0 => offset + n <= FlashSize /\ (writing.total # 0 => offset + n <= writing.total)
  BY <1>0, ClipIs, RomFacts
<1> HIDE DEF n
<1>2. /\ chunk' = [length |-> n, done |-> 0, ready |-> FALSE]
      /\ chunk'.length = n /\ chunk'.done = 0 /\ chunk'.ready = FALSE
      /\ chunk.length = 0 /\ chunk.done = 0 /\ chunk.ready = FALSE
  BY <1>0 DEF Rest2, n
<1>3. /\ writing' = [active |-> TRUE, offset |-> offset, total |-> writing.total]
      /\ writing'.active = TRUE /\ writing'.offset = offset /\ writing'.total = writing.total
  <2>1. writing = [active |-> writing.active, offset |-> writing.offset, total |-> writing.total]
        /\ writing.active \in BOOLEAN
    BY <1>0, RomTypes
  <2>2. CASE writing.active /\ writing' = writing
    BY <1>0, <2>1, <2>2
  <2>3. CASE ~writing.active /\ offset = 0 /\ writing' = [writing EXCEPT !.active = TRUE, !.offset = 0]
    <3>1. writing' = [active |-> TRUE, offset |-> 0, total |-> writing.total]
      BY <2>1, <2>3
    <3> QED BY <2>3, <3>1
  <2> QED BY <1>0, <2>2, <2>3
<1>4. At' = offset
  BY <1>1, <1>2, <1>3 DEF At
<1>5. image' \in Nat /\ image' # 0 /\ image' <= MaxImages /\ taken' \in 0 .. FlashSize
  <2>1. image \in Nat /\ image <= MaxImages /\ taken \in 0 .. FlashSize /\ MaxImages \in Nat
    BY <1>0, RomTypes, RomFacts
  <2>2. writing.active => image # 0
    BY <1>0 DEF ChunkShape
  <2> QED BY <1>0, <1>1, <2>1, <2>2
<1>6. RomTypeOK'
  <2>1. writing' \in [active : BOOLEAN, offset : 0 .. FlashSize, total : Totals \cup {0}]
    <3>1. writing.total \in Totals \cup {0}
      BY <1>0, RomTypes
    <3> QED BY <1>3, <3>1
  <2>2. chunk' \in [length : 0 .. FlashSize, done : 0 .. FlashSize, ready : BOOLEAN]
    <3>1. n \in 0 .. FlashSize /\ 0 \in 0 .. FlashSize
      BY <1>1
    <3> QED BY <1>2, <3>1
  <2>3. image' \in 0 .. MaxImages
    BY <1>5, RomFacts
  <2> QED BY <1>0, <1>5, <2>1, <2>2, <2>3 DEF RomTypeOK
<1>7. ChunkShape'
  <2>1. n = 0 => chunk' = Rest2
    BY <1>2 DEF Rest2
  <2> QED BY <1>0, <1>1, <1>2, <1>3, <1>4, <1>5, <2>1 DEF ChunkShape, Calm
<1>8. AheadShape'
  <2> SUFFICES ASSUME ~stray, ahead # Nowhere PROVE AheadShape'
    BY <1>0 DEF AheadShape
  <2>1. /\ SectorAt[ahead] = ahead /\ writing.total # 0 /\ ahead < writing.total
        /\ writing.active => ahead = writing.offset
        /\ ~writing.active => ahead = 0
        /\ busy = Nowhere => \A a \in FlashBytes : SectorAt[a] = ahead => cells[a] = Blank
        /\ busy # Nowhere => busy = ahead
    BY <1>0 DEF AheadShape
  <2>2. ahead = offset
    BY <1>0, <2>1
  <2> QED BY <1>0, <1>2, <1>3, <2>1, <2>2 DEF AheadShape
<1>9. BegunShape' /\ TakenIsThere'
  <2>1. CASE writing.active /\ writing' = writing /\ image' = image /\ taken' = taken
    <3>1. At = At'
      <4>1. At = offset
        BY <1>0, <1>1, <1>2, <2>1 DEF At
      <4> QED BY <1>4, <4>1
    <3> QED BY <1>0, <1>2, <2>1, <3>1 DEF BegunShape, TakenIsThere
  <2>2. CASE offset = 0 /\ taken' = 0
    <3>1. TakenIsThere'
      BY <2>2 DEF TakenIsThere
    <3>2. \A a \in FlashBytes : ~(a < 0) /\ ~(SectorAt[a] < 0)
      BY SectorFacts
    <3> QED BY <1>2, <1>3, <1>4, <2>2, <3>1, <3>2 DEF BegunShape
  <2> QED BY <1>0, <2>1, <2>2
<1> QED
  BY <1>6, <1>7, <1>8, <1>9 DEF RomInv

LEMMA EraseHereKeeps == ASSUME RomInv, EraseHere PROVE RomInv'
<1> DEFINE b == IF busy # Nowhere THEN busy ELSE At
<1>0. /\ RomTypeOK /\ ChunkShape /\ AheadShape /\ BegunShape /\ TakenIsThere
      /\ ~Calm /\ ~chunk.ready /\ IsBoundary(At)
      /\ \/ /\ cells' = IF busy # Nowhere THEN Erased(busy)
                        ELSE IF ahead = At THEN cells ELSE Erased(At)
            /\ chunk' = [chunk EXCEPT !.ready = TRUE]
         \/ cells' = Ruined(b) /\ chunk' = Rest2
      /\ busy' = Nowhere /\ ahead' = (IF ahead = At THEN Nowhere ELSE ahead)
      /\ probed' = probed /\ writing' = writing /\ image' = image /\ taken' = taken /\ stray' = stray
  BY DEF RomInv, EraseHere, Gives
<1>1. At \in FlashBytes /\ SectorAt[At] = At /\ At \in Nat
  BY <1>0, RomTypes, BoundaryIs
<1>2. b \in FlashBytes
  BY <1>0, <1>1, RomTypes
<1>3. /\ writing.active /\ probed = "chip" /\ chunk.done < chunk.length
      /\ writing.offset + chunk.length <= FlashSize
      /\ writing.total # 0 => writing.offset + chunk.length <= writing.total
      /\ At % 2 = 0 /\ image # 0
      /\ At = writing.offset + chunk.done
      /\ writing.offset \in Nat /\ chunk.done \in Nat /\ chunk.length \in Nat
      /\ chunk = [length |-> chunk.length, done |-> chunk.done, ready |-> chunk.ready]
  BY <1>0, RomTypes DEF ChunkShape, At
<1>4. ASSUME ~stray
      PROVE  /\ busy # Nowhere => busy = At
             /\ ahead # Nowhere => ahead = At
             /\ taken = writing.offset
  BY <1>0, <1>3, <1>4, RomTypes DEF AheadShape, BegunShape
<1>5. cells' \in [FlashBytes -> {Blank, Mixed} \cup 1 .. MaxImages]
  <2>1. cells \in [FlashBytes -> {Blank, Mixed} \cup 1 .. MaxImages]
    BY <1>0 DEF RomTypeOK
  <2>2. /\ Ruined(b) \in [FlashBytes -> {Blank, Mixed} \cup 1 .. MaxImages]
        /\ Erased(At) \in [FlashBytes -> {Blank, Mixed} \cup 1 .. MaxImages]
        /\ busy # Nowhere => Erased(busy) \in [FlashBytes -> {Blank, Mixed} \cup 1 .. MaxImages]
    BY <1>0, <1>1, <1>2, RomTypes, ErasedIs
  <2> QED BY <1>0, <2>1, <2>2
<1>6. ASSUME ~stray, NEW a \in FlashBytes, SectorAt[a] # At PROVE cells'[a] = cells[a]
  <2>1. b = At
    BY <1>4, <1>6
  <2>2. Erased(At)[a] = cells[a] /\ Ruined(At)[a] = cells[a]
    BY <1>0, <1>1, <1>6, ErasedIs
  <2> HIDE DEF b
  <2> QED BY <1>0, <1>4, <1>6, <2>1, <2>2
<1>7. \/ /\ chunk' = [length |-> chunk.length, done |-> chunk.done, ready |-> TRUE]
         /\ chunk'.length = chunk.length /\ chunk'.done = chunk.done /\ chunk'.ready = TRUE
         /\ At' = At
         /\ ~stray => \A a \in FlashBytes : SectorAt[a] = At => cells'[a] = Blank
      \/ /\ chunk' = Rest2 /\ chunk'.length = 0 /\ chunk'.done = 0 /\ chunk'.ready = FALSE
         /\ At' = writing.offset
  <2>1. CASE chunk' = Rest2
    <3>1. chunk'.length = 0 /\ chunk'.done = 0 /\ chunk'.ready = FALSE
      BY <2>1 DEF Rest2
    <3>2. At' = writing.offset
      BY <1>0, <1>3, <3>1 DEF At
    <3> QED BY <2>1, <3>1, <3>2
  <2>2. CASE /\ cells' = IF busy # Nowhere THEN Erased(busy)
                         ELSE IF ahead = At THEN cells ELSE Erased(At)
             /\ chunk' = [chunk EXCEPT !.ready = TRUE]
    <3>1. chunk' = [length |-> chunk.length, done |-> chunk.done, ready |-> TRUE]
      BY <1>3, <2>2
    <3>2. chunk'.length = chunk.length /\ chunk'.done = chunk.done /\ chunk'.ready = TRUE
      BY <3>1
    <3>3. At' = At
      BY <1>0, <3>2 DEF At
    <3>4. ASSUME ~stray, NEW a \in FlashBytes, SectorAt[a] = At PROVE cells'[a] = Blank
      <4>1. Erased(At)[a] = Blank
        BY <1>0, <1>1, <3>4, ErasedIs
      <4>2. CASE busy = Nowhere /\ ahead = At
        <5>1. \A c \in FlashBytes : SectorAt[c] = ahead => cells[c] = Blank
          <6>1. ahead # Nowhere
            BY <1>1, <4>2, RomFacts
          <6> QED BY <1>0, <3>4, <4>2, <6>1 DEF AheadShape
        <5> QED BY <2>2, <3>4, <4>2, <5>1
      <4> QED BY <1>4, <2>2, <3>4, <4>1, <4>2
    <3> QED BY <3>1, <3>2, <3>3, <3>4
  <2> QED BY <1>0, <2>1, <2>2
<1>8. RomTypeOK'
  <2>1. chunk' \in [length : 0 .. FlashSize, done : 0 .. FlashSize, ready : BOOLEAN]
    <3>1. chunk.length \in 0 .. FlashSize /\ chunk.done \in 0 .. FlashSize /\ 0 \in 0 .. FlashSize
      BY <1>0, RomTypes, RomFacts
    <3>2. Rest2 \in [length : 0 .. FlashSize, done : 0 .. FlashSize, ready : BOOLEAN]
      BY <3>1 DEF Rest2
    <3> QED BY <1>7, <3>1, <3>2
  <2> QED BY <1>0, <1>5, <2>1 DEF RomTypeOK
<1>9. ChunkShape'
  <2>1. CASE chunk' = Rest2 /\ chunk'.length = 0
    BY <1>0, <1>3, <2>1 DEF ChunkShape, Calm
  <2>2. CASE /\ chunk'.length = chunk.length /\ chunk'.done = chunk.done /\ chunk'.ready = TRUE
             /\ At' = At
    BY <1>0, <1>3, <2>2 DEF ChunkShape, Calm
  <2> QED BY <1>7, <2>1, <2>2
<1>10. AheadShape'
  <2> SUFFICES ASSUME ~stray PROVE ahead' = Nowhere
    BY <1>0 DEF AheadShape
  <2> QED BY <1>0, <1>4
<1>11. TakenIsThere'
  <2> SUFFICES ASSUME ~stray, NEW a \in 0 .. taken - 1 PROVE cells'[a] = image
    BY <1>0 DEF TakenIsThere
  <2>1. a \in FlashBytes /\ a < taken /\ cells[a] = image /\ a \in Nat
    BY <1>0, RomTypes, RomFacts DEF TakenIsThere
  <2>2. SectorAt[a] # At
    BY <1>1, <1>3, <1>4, <2>1, SectorFacts
  <2> QED BY <1>6, <2>1, <2>2
<1>12. BegunShape'
  <2> SUFFICES ASSUME ~stray PROVE BegunShape'
    BY <1>0 DEF BegunShape
  <2>1. /\ taken = writing.offset
        /\ \A a \in FlashBytes : writing.offset <= a /\ a < At => cells[a] = image
        /\ \A a \in FlashBytes : At <= a /\ SectorAt[a] < At => cells[a] \in {Blank, image}
    <3>1. /\ taken = writing.offset
          /\ \A a \in FlashBytes : writing.offset <= a /\ a < At => cells[a] = image
          /\ \A a \in FlashBytes :
               At <= a /\ ((SectorAt[a] < At) \/ (SectorAt[a] = At /\ chunk.ready))
                 => cells[a] \in {Blank, image}
      <4> HIDE DEF At
      <4> QED BY <1>0, <1>3 DEF BegunShape
    <3> QED BY <3>1, Zenon
  <2>2. \A a \in FlashBytes : a \in Nat /\ SectorAt[a] \in Nat /\ SectorAt[a] <= a
    BY SectorFacts
  <2>3. \A a \in FlashBytes : writing.offset <= a /\ a < At => cells'[a] = image
    BY <1>1, <1>6, <2>1, <2>2
  <2>4. \A a \in FlashBytes : At <= a /\ SectorAt[a] < At => cells'[a] \in {Blank, image}
    BY <1>1, <1>6, <2>1, <2>2
  <2>5. CASE /\ chunk'.done = chunk.done /\ chunk'.ready = TRUE /\ At' = At
             /\ \A a \in FlashBytes : SectorAt[a] = At => cells'[a] = Blank
    BY <1>0, <2>1, <2>3, <2>4, <2>5 DEF BegunShape
  <2>6. CASE /\ chunk' = Rest2 /\ chunk'.ready = FALSE /\ At' = writing.offset
    <3>1. ASSUME NEW a \in FlashBytes, writing.offset <= a, SectorAt[a] < writing.offset
          PROVE  cells'[a] \in {Blank, image}
      <4>1. CASE a < At
        BY <2>3, <3>1, <4>1
      <4>2. CASE At <= a
        BY <1>3, <2>2, <2>4, <3>1, <4>2
      <4> QED BY <1>1, <2>2, <4>1, <4>2
    <3>2. \A a \in FlashBytes : ~(writing.offset <= a /\ a < writing.offset)
      BY <1>3, <2>2
    <3> QED BY <1>0, <2>1, <2>6, <3>1, <3>2 DEF BegunShape
  <2> QED BY <1>7, <2>5, <2>6
<1> QED
  BY <1>8, <1>9, <1>10, <1>11, <1>12 DEF RomInv

\* choose_write_unit: no more than the chunk has left, and within the sector it begins in.
LEMMA UnitIs ==
  ASSUME RomInv, ~Calm
  PROVE  LET n == Unit
         IN  /\ n \in Nat \ {0} /\ chunk.done + n <= chunk.length
             /\ chunk.done + n < chunk.length => (At + n) % 2 = 0
             /\ \A a \in FlashBytes : At <= a /\ SectorAt[a] < At + n => SectorAt[a] <= At
<1> DEFINE over == chunk.length - chunk.done
           n == Unit
<1>0. RomTypeOK /\ ChunkShape
  BY DEF RomInv
<1>1. /\ chunk.length \in Nat /\ chunk.done \in Nat /\ chunk.done < chunk.length
      /\ At \in Nat /\ At % 2 = 0
  BY <1>0, RomTypes DEF ChunkShape
<1>2. over \in Nat \ {0} /\ chunk.done + over = chunk.length
  BY <1>1
<1>3. n = IF BufferSize = 0 \/ BufferSize % 2 = 1 \/ At % BufferSize # 0 \/ over < BufferSize
          THEN Lesser(2, over) ELSE BufferSize
  BY DEF Unit
<1>4. \A k \in Regions : Blocks[k].size % 2 = 0 /\ (BufferSize # 0 => Blocks[k].size % BufferSize = 0)
  BY SectorsAssumption DEF Regions
<1>5. \A a \in FlashBytes : a \in Nat /\ SectorAt[a] \in Nat
  BY SectorFacts
<1> HIDE DEF over, n
<1>6. CASE /\ n = BufferSize /\ BufferSize # 0 /\ BufferSize % 2 # 1
            /\ At % BufferSize = 0 /\ ~(over < BufferSize)
  <2>1. BufferSize \in Nat \ {0}
    BY <1>6, RomFacts
  <2>2. \A a \in FlashBytes : At <= a /\ SectorAt[a] < At + n => SectorAt[a] <= At
    BY <1>1, <1>4, <1>6, <2>1, UnitWhole
  <2>3. (At + n) % 2 = 0
    BY <1>1, <1>6, <2>1
  <2> QED BY <1>1, <1>2, <1>6, <2>1, <2>2, <2>3 DEF n
<1>7. CASE n = 2 /\ 2 <= over
  <2>1. 2 \in Nat \ {0}
    OBVIOUS
  <2>2. \A a \in FlashBytes : At <= a /\ SectorAt[a] < At + 2 => SectorAt[a] <= At
    BY <1>1, <1>4, <2>1, UnitWhole
  <2>3. (At + 2) % 2 = 0
    BY <1>1
  <2> QED BY <1>1, <1>2, <1>7, <2>2, <2>3 DEF n
<1>8. CASE n = 1 /\ over = 1
  BY <1>1, <1>2, <1>5, <1>8 DEF n
<1>9. \/ Lesser(2, over) = 2 /\ 2 <= over
      \/ Lesser(2, over) = 1 /\ over = 1
  <2>1. CASE over = 1
    BY <2>1 DEF Lesser
  <2>2. CASE over # 1
    <3>1. 2 <= over
      BY <1>2, <2>2
    <3>2. Lesser(2, over) = 2
      BY <1>2, <3>1 DEF Lesser
    <3> QED BY <3>1, <3>2
  <2> QED BY <2>1, <2>2
<1>10. BufferSize # 0 \/ BufferSize = 0
  OBVIOUS
<1> QED
  BY <1>3, <1>6, <1>7, <1>8, <1>9, Zenon

\* Programming turns blank bytes into the image's, and leaves the others as they are.
LEMMA BurntIs ==
  ASSUME RomTypeOK, image # 0, NEW n \in Nat
  PROVE  /\ Burnt(n) \in [FlashBytes -> {Blank, Mixed} \cup 1 .. MaxImages]
         /\ \A a \in FlashBytes :
              /\ ~(At <= a /\ a < At + n) => Burnt(n)[a] = cells[a]
              /\ cells[a] \in {Blank, image} /\ At <= a /\ a < At + n => Burnt(n)[a] = image
              /\ cells[a] = image => Burnt(n)[a] = image
              /\ cells[a] \in {Blank, image} => Burnt(n)[a] \in {Blank, image}
<1> DEFINE V == {Blank, Mixed} \cup 1 .. MaxImages
<1>1. \A a \in FlashBytes : cells[a] \in V
  BY RomTypes
<1>2. image \in V /\ Mixed \in V
  <2>1. image \in 1 .. MaxImages
    BY RomTypes, RomFacts
  <2> QED BY <2>1
<1> HIDE DEF V
<1>3. Burnt(n) \in [FlashBytes -> V]
  BY <1>1, <1>2 DEF Burnt
<1>4. At \in Nat /\ \A a \in FlashBytes : a \in Nat
  BY RomTypes, RomFacts
<1>5. \A a \in FlashBytes : a \in At .. At + n - 1 <=> At <= a /\ a < At + n
  <2> HIDE DEF At
  <2> QED BY <1>4
<1>6. \A a \in FlashBytes :
        Burnt(n)[a] = IF a \notin At .. At + n - 1 THEN cells[a]
                      ELSE IF cells[a] \in {Blank, image} THEN image ELSE Mixed
  BY DEF Burnt
<1>7. \A a \in FlashBytes :
              /\ ~(At <= a /\ a < At + n) => Burnt(n)[a] = cells[a]
              /\ cells[a] \in {Blank, image} /\ At <= a /\ a < At + n => Burnt(n)[a] = image
              /\ cells[a] = image => Burnt(n)[a] = image
              /\ cells[a] \in {Blank, image} => Burnt(n)[a] \in {Blank, image}
  <2> TAKE a \in FlashBytes
  <2>1. CASE a \in At .. At + n - 1 /\ cells[a] \in {Blank, image}
    BY <1>5, <1>6, <2>1
  <2>2. CASE a \in At .. At + n - 1 /\ cells[a] \notin {Blank, image}
    BY <1>5, <1>6, <2>2
  <2>3. CASE a \notin At .. At + n - 1
    BY <1>5, <1>6, <2>3
  <2> QED BY <2>1, <2>2, <2>3
<1> QED
  BY <1>3, <1>7 DEF V

LEMMA ProgramKeeps == ASSUME RomInv, Program PROVE RomInv'
<1> DEFINE n == Unit
           done == chunk.done + n
           next == writing.offset + done
<1>0. /\ RomTypeOK /\ ChunkShape /\ AheadShape /\ BegunShape /\ TakenIsThere
      /\ ~Calm /\ (IsBoundary(At) => chunk.ready)
      /\ \/ /\ cells' = Burnt(n) /\ done < chunk.length
            /\ chunk' = [chunk EXCEPT !.done = done, !.ready = FALSE]
            /\ writing' = writing /\ taken' = taken /\ ahead' = ahead /\ busy' = busy
         \/ /\ cells' = Burnt(n) /\ ~(done < chunk.length)
            /\ chunk' = Rest2 /\ writing' = [writing EXCEPT !.offset = next] /\ taken' = next
            /\ IF AheadOf(next) THEN ahead' = next /\ busy' = next
               ELSE ahead' = ahead /\ busy' = busy
         \/ /\ cells' \in {cells, Burnt(n)} /\ chunk' = Rest2
            /\ writing' = writing /\ taken' = taken /\ ahead' = ahead /\ busy' = busy
      /\ probed' = probed /\ image' = image /\ stray' = stray
  BY DEF RomInv, Program
<1>1. /\ n \in Nat \ {0} /\ chunk.done + n <= chunk.length
      /\ chunk.done + n < chunk.length => (At + n) % 2 = 0
      /\ \A a \in FlashBytes : At <= a /\ SectorAt[a] < At + n => SectorAt[a] <= At
  BY <1>0, UnitIs
<1> HIDE DEF n
<1>2. /\ writing.active /\ probed = "chip" /\ chunk.done < chunk.length
      /\ writing.offset + chunk.length <= FlashSize
      /\ writing.total # 0 => writing.offset + chunk.length <= writing.total
      /\ At % 2 = 0 /\ image # 0
      /\ At = writing.offset + chunk.done /\ At \in Nat
      /\ writing.offset \in Nat /\ chunk.done \in Nat /\ chunk.length \in Nat
      /\ writing.total \in Nat /\ FlashSize \in Nat /\ writing.total \in Totals \cup {0}
      /\ chunk = [length |-> chunk.length, done |-> chunk.done, ready |-> chunk.ready]
      /\ writing = [active |-> TRUE, offset |-> writing.offset, total |-> writing.total]
  <2>1. writing.active
    BY <1>0 DEF ChunkShape
  <2>2. writing = [active |-> writing.active, offset |-> writing.offset, total |-> writing.total]
        /\ writing.active = TRUE
    BY <1>0, <2>1, RomTypes
  <2>3. writing = [active |-> TRUE, offset |-> writing.offset, total |-> writing.total]
    BY <2>2
  <2> QED BY <1>0, <2>3, RomTypes, RomFacts DEF ChunkShape, At
<1>3. done \in Nat /\ next \in Nat /\ next = At + n /\ next <= FlashSize /\ done <= chunk.length
  BY <1>1, <1>2
<1> HIDE DEF done, next
<1>4. At \in FlashBytes /\ \A a \in FlashBytes : a \in Nat /\ SectorAt[a] \in Nat /\ SectorAt[a] <= a
  BY <1>2, SectorFacts, RomFacts
\* the sectors that reach behind At have been erased
<1>5. ASSUME ~stray, NEW a \in FlashBytes, At <= a, SectorAt[a] <= At
      PROVE  cells[a] \in {Blank, image}
  <2>1. CASE SectorAt[a] < At
    <3>1. ~stray /\ writing.active /\ BegunShape
      BY <1>0, <1>2, <1>5
    <3> QED BY <1>5, <2>1, <3>1 DEF BegunShape
  <2>2. CASE SectorAt[a] = At
    <3>1. SectorAt[At] = At
      BY <2>2, SectorFacts
    <3>2. chunk.ready
      BY <1>0, <1>2, <1>4, <3>1, BoundaryIs
    <3>3. ~stray /\ writing.active /\ BegunShape
      BY <1>0, <1>2, <1>5
    <3> QED BY <1>5, <2>2, <3>2, <3>3 DEF BegunShape
  <2> QED BY <1>2, <1>4, <1>5, <2>1, <2>2
<1>6. /\ cells' \in [FlashBytes -> {Blank, Mixed} \cup 1 .. MaxImages]
      /\ \A a \in FlashBytes :
           /\ ~(At <= a /\ a < next) => cells'[a] = cells[a]
           /\ cells[a] = image => cells'[a] = image
           /\ cells[a] \in {Blank, image} => cells'[a] \in {Blank, image}
  <2>1. cells \in [FlashBytes -> {Blank, Mixed} \cup 1 .. MaxImages]
    BY <1>0 DEF RomTypeOK
  <2>2. /\ Burnt(n) \in [FlashBytes -> {Blank, Mixed} \cup 1 .. MaxImages]
        /\ \A a \in FlashBytes :
              /\ ~(At <= a /\ a < next) => Burnt(n)[a] = cells[a]
              /\ cells[a] = image => Burnt(n)[a] = image
              /\ cells[a] \in {Blank, image} => Burnt(n)[a] \in {Blank, image}
    BY <1>0, <1>1, <1>2, <1>3, BurntIs
  <2> QED BY <1>0, <2>1, <2>2
<1>7. ASSUME ~stray PROVE ahead = Nowhere /\ busy = Nowhere
  <2>1. SUFFICES ASSUME ahead # Nowhere PROVE FALSE
    BY <1>0, <1>7 DEF AheadShape
  <2>2. /\ SectorAt[ahead] = ahead /\ ahead = writing.offset /\ chunk.done = 0 /\ ~chunk.ready
    BY <1>0, <1>2, <1>7, <2>1 DEF AheadShape
  <2>3. ahead = At
    BY <1>2, <2>2
  <2> QED BY <1>0, <1>2, <1>4, <2>2, <2>3, BoundaryIs
<1>8. ASSUME ~stray
      PROVE  /\ taken = writing.offset
             /\ \A a \in FlashBytes : writing.offset <= a /\ a < At => cells'[a] = image
             /\ \A a \in FlashBytes : At <= a /\ SectorAt[a] < next => cells'[a] \in {Blank, image}
             /\ \A a \in FlashBytes : a < taken => cells'[a] = image
  <2>1. /\ taken = writing.offset
        /\ \A a \in FlashBytes : writing.offset <= a /\ a < At => cells[a] = image
    BY <1>0, <1>2, <1>8 DEF BegunShape
  <2>2. \A a \in FlashBytes : At <= a /\ SectorAt[a] < next => cells[a] \in {Blank, image}
    BY <1>1, <1>3, <1>5, <1>8
  <2>3. \A a \in FlashBytes : a < taken => cells[a] = image
    <3>1. \A a \in FlashBytes : a < taken => a \in 0 .. taken - 1
      BY <1>2, <1>4, <2>1
    <3> QED BY <1>0, <1>8, <3>1 DEF TakenIsThere
  <2> QED BY <1>6, <2>1, <2>2, <2>3
<1>9. ASSUME ~stray, cells' = Burnt(n), NEW a \in FlashBytes, At <= a, a < next
      PROVE  cells'[a] = image
  <2>1. cells[a] \in {Blank, image}
    <3>1. SectorAt[a] <= At
      BY <1>1, <1>2, <1>3, <1>4, <1>9
    <3> QED BY <1>5, <1>9, <3>1
  <2> QED BY <1>0, <1>1, <1>2, <1>3, <1>9, <2>1, BurntIs
<1>10. CASE /\ cells' = Burnt(n) /\ done < chunk.length
            /\ chunk' = [chunk EXCEPT !.done = done, !.ready = FALSE]
            /\ writing' = writing /\ taken' = taken /\ ahead' = ahead /\ busy' = busy
  <2>1. /\ chunk' = [length |-> chunk.length, done |-> done, ready |-> FALSE]
        /\ chunk'.length = chunk.length /\ chunk'.done = done /\ chunk'.ready = FALSE
    <3>1. chunk' = [length |-> chunk.length, done |-> done, ready |-> FALSE]
      BY <1>2, <1>10
    <3> QED BY <3>1
  <2>2. At' = next
    BY <1>10, <2>1 DEF At, next
  <2>3. RomTypeOK'
    <3>1. chunk' \in [length : 0 .. FlashSize, done : 0 .. FlashSize, ready : BOOLEAN]
      <4>1. chunk.length \in 0 .. FlashSize /\ done \in 0 .. FlashSize
        BY <1>2, <1>3
      <4> QED BY <2>1, <4>1
    <3> QED BY <1>0, <1>6, <1>10, <3>1 DEF RomTypeOK
  <2>4. ChunkShape'
    <3>1. (At + n) % 2 = 0
      BY <1>1, <1>10 DEF done
    <3> QED BY <1>0, <1>2, <1>3, <1>10, <2>1, <2>2, <3>1 DEF ChunkShape, Calm
  <2>5. AheadShape'
    BY <1>0, <1>7, <1>10 DEF AheadShape
  <2>6. TakenIsThere'
    <3> SUFFICES ASSUME ~stray, NEW a \in 0 .. taken - 1 PROVE cells'[a] = image
      BY <1>0, <1>10 DEF TakenIsThere
    <3>1. a \in FlashBytes /\ a < taken
      BY <1>0, RomTypes, RomFacts
    <3> QED BY <1>8, <3>1
  <2>7. BegunShape'
    <3> SUFFICES ASSUME ~stray PROVE BegunShape'
      BY <1>0 DEF BegunShape
    <3>1. ASSUME NEW a \in FlashBytes, writing.offset <= a, a < next PROVE cells'[a] = image
      <4>1. CASE a < At
        BY <1>8, <3>1, <4>1
      <4>2. CASE At <= a
        BY <1>9, <1>10, <3>1, <4>2
      <4> QED BY <1>2, <1>4, <4>1, <4>2
    <3>2. \A a \in FlashBytes : next <= a /\ SectorAt[a] < next => cells'[a] \in {Blank, image}
      BY <1>1, <1>2, <1>3, <1>4, <1>8
    <3> QED BY <1>0, <1>8, <1>10, <2>1, <2>2, <3>1, <3>2 DEF BegunShape
  <2> QED BY <2>3, <2>4, <2>5, <2>6, <2>7 DEF RomInv
<1>11. CASE /\ cells' = Burnt(n) /\ ~(done < chunk.length)
            /\ chunk' = Rest2 /\ writing' = [writing EXCEPT !.offset = next] /\ taken' = next
            /\ IF AheadOf(next) THEN ahead' = next /\ busy' = next
               ELSE ahead' = ahead /\ busy' = busy
  <2>1. /\ chunk'.length = 0 /\ chunk'.done = 0 /\ chunk'.ready = FALSE
        /\ writing' = [active |-> TRUE, offset |-> next, total |-> writing.total]
        /\ writing'.active = TRUE /\ writing'.offset = next /\ writing'.total = writing.total
    <3>1. writing' = [active |-> TRUE, offset |-> next, total |-> writing.total]
      BY <1>2, <1>11
    <3>2. /\ writing'.active = TRUE /\ writing'.offset = next /\ writing'.total = writing.total
      BY <3>1
    <3>3. chunk'.length = 0 /\ chunk'.done = 0 /\ chunk'.ready = FALSE
      BY <1>11 DEF Rest2
    <3> QED BY <3>1, <3>2, <3>3
  <2>2. At' = next
    BY <1>3, <2>1 DEF At
  <2>3. AheadOf(next) => /\ next \in FlashBytes /\ SectorAt[next] = next /\ next < writing.total
                         /\ writing.total # 0
    BY <1>2, <1>3, BoundaryIs DEF AheadOf
  <2>4. RomTypeOK'
    <3>1. /\ chunk' \in [length : 0 .. FlashSize, done : 0 .. FlashSize, ready : BOOLEAN]
          /\ writing' \in [active : BOOLEAN, offset : 0 .. FlashSize, total : Totals \cup {0}]
      <4>1. 0 \in 0 .. FlashSize /\ next \in 0 .. FlashSize
        BY <1>2, <1>3
      <4>2. Rest2 \in [length : 0 .. FlashSize, done : 0 .. FlashSize, ready : BOOLEAN]
        BY <4>1 DEF Rest2
      <4> QED BY <1>2, <1>11, <2>1, <4>1, <4>2
    <3>2. taken' \in 0 .. FlashSize
      BY <1>2, <1>3, <1>11
    <3>3. busy' \in FlashBytes \cup {Nowhere} /\ ahead' \in FlashBytes \cup {Nowhere}
      BY <1>0, <1>11, <2>3 DEF RomTypeOK
    <3> QED BY <1>0, <1>6, <3>1, <3>2, <3>3 DEF RomTypeOK
  <2>5. ChunkShape'
    BY <1>0, <1>2, <1>11, <2>1 DEF ChunkShape, Calm
  <2>6. AheadShape'
    <3> SUFFICES ASSUME ~stray PROVE AheadShape'
      BY <1>0 DEF AheadShape
    <3>1. CASE AheadOf(next)
      <4>1. ahead' = next /\ busy' = next /\ next # Nowhere
        BY <1>3, <1>11, <3>1, RomFacts
      <4> QED BY <2>1, <2>3, <3>1, <4>1 DEF AheadShape
    <3>2. CASE ~AheadOf(next)
      <4>1. ahead' = Nowhere /\ busy' = Nowhere
        BY <1>7, <1>11, <3>2
      <4> QED BY <4>1 DEF AheadShape
    <3> QED BY <3>1, <3>2
  <2>7. ASSUME ~stray, NEW a \in FlashBytes, a < next PROVE cells'[a] = image
    <3>1. CASE a < At
      <4>1. CASE a < taken
        BY <1>8, <2>7, <4>1
      <4>2. CASE writing.offset <= a
        BY <1>8, <2>7, <3>1, <4>2
      <4> QED BY <1>2, <1>4, <1>8, <2>7, <4>1, <4>2
    <3>2. CASE At <= a
      BY <1>9, <1>11, <2>7, <3>2
    <3> QED BY <1>2, <1>4, <3>1, <3>2
  <2>8. TakenIsThere'
    <3> SUFFICES ASSUME ~stray, NEW a \in 0 .. next - 1 PROVE cells'[a] = image
      BY <1>0, <1>11 DEF TakenIsThere
    <3>1. a \in FlashBytes /\ a < next
      BY <1>2, <1>3, RomFacts
    <3> QED BY <2>7, <3>1
  <2>9. BegunShape'
    <3> SUFFICES ASSUME ~stray PROVE BegunShape'
      BY <1>0 DEF BegunShape
    <3>1. \A a \in FlashBytes : ~(next <= a /\ a < next)
      BY <1>3, <1>4
    <3>2. \A a \in FlashBytes : next <= a /\ SectorAt[a] < next => cells'[a] \in {Blank, image}
      BY <1>1, <1>2, <1>3, <1>4, <1>8
    <3> QED BY <1>0, <1>11, <2>1, <2>2, <3>1, <3>2 DEF BegunShape
  <2> QED BY <2>4, <2>5, <2>6, <2>8, <2>9 DEF RomInv
<1>12. CASE /\ cells' \in {cells, Burnt(n)} /\ chunk' = Rest2
            /\ writing' = writing /\ taken' = taken /\ ahead' = ahead /\ busy' = busy
  <2>1. chunk'.length = 0 /\ chunk'.done = 0 /\ chunk'.ready = FALSE
    BY <1>12 DEF Rest2
  <2>2. At' = writing.offset
    BY <1>2, <1>12, <2>1 DEF At
  <2>3. RomTypeOK'
    <3>1. chunk' \in [length : 0 .. FlashSize, done : 0 .. FlashSize, ready : BOOLEAN]
      <4>1. 0 \in 0 .. FlashSize
        BY <1>2
      <4> QED BY <1>12, <4>1 DEF Rest2
    <3> QED BY <1>0, <1>6, <1>12, <3>1 DEF RomTypeOK
  <2>4. ChunkShape'
    BY <1>0, <1>2, <1>12, <2>1 DEF ChunkShape, Calm
  <2>5. AheadShape'
    BY <1>0, <1>7, <1>12 DEF AheadShape
  <2>6. TakenIsThere'
    <3> SUFFICES ASSUME ~stray, NEW a \in 0 .. taken - 1 PROVE cells'[a] = image
      BY <1>0, <1>12 DEF TakenIsThere
    <3>1. a \in FlashBytes /\ a < taken
      BY <1>0, RomTypes, RomFacts
    <3> QED BY <1>8, <3>1
  <2>7. BegunShape'
    <3> SUFFICES ASSUME ~stray PROVE BegunShape'
      BY <1>0 DEF BegunShape
    <3>1. ASSUME NEW a \in FlashBytes, writing.offset <= a, SectorAt[a] < writing.offset
          PROVE  cells'[a] \in {Blank, image}
      <4>1. CASE a < At
        BY <1>8, <3>1, <4>1
      <4>2. CASE At <= a
        <5>1. SectorAt[a] < next
          BY <1>1, <1>2, <1>3, <1>4, <3>1
        <5> QED BY <1>8, <3>1, <4>2, <5>1
      <4> QED BY <1>2, <1>4, <4>1, <4>2
    <3>2. \A a \in FlashBytes : ~(writing.offset <= a /\ a < writing.offset)
      BY <1>2, <1>4
    <3> QED BY <1>0, <1>8, <1>12, <2>1, <2>2, <3>1, <3>2 DEF BegunShape
  <2> QED BY <2>3, <2>4, <2>5, <2>6, <2>7 DEF RomInv
<1> QED
  BY <1>0, <1>10, <1>11, <1>12

LEMMA RomStep == RomInv /\ [RomNext]_romVars => RomInv'
<1> SUFFICES ASSUME RomInv, [RomNext]_romVars PROVE RomInv'
  OBVIOUS
<1>1. CASE UNCHANGED romVars
  BY <1>1 DEF romVars, RomInv, RomTypeOK, ChunkShape, AheadShape, BegunShape, TakenIsThere, Calm, At
<1>2. ASSUME NEW total \in Totals, SetSize(total) PROVE RomInv'
  BY <1>2, SetSizeKeeps
<1>3. ASSUME NEW offset \in 0 .. FlashSize, NEW length \in ChunkLengths, WriteBegin(offset, length)
      PROVE  RomInv'
  BY <1>3, WriteBeginKeeps
<1> QED
  BY <1>1, <1>2, <1>3, EraseEndsKeeps, InvalidateKeeps, WriteRefusedKeeps, EraseHereKeeps,
     ProgramKeeps, FlushKeeps DEF RomNext

LEMMA RomInvariant == RomSpec => []RomInv
  BY RomAtFirst, RomStep, PTL DEF RomSpec

\* For chips with any regions, sizes of sectors and buffers, chunks of any lengths, whichever
\* erase or programming fails and whatever is tried again: the part of an image that
\* cl_cart_nor_write_stream accepted is on the chip (cart_nor.c:606-697).
THEOREM ImagesAreThere == RomSpec => []TakenIsThere
<1>1. RomInv => TakenIsThere
  BY DEF RomInv
<1> QED
  BY <1>1, RomInvariant, PTL

\* With the size of the image announced, neither programming nor the erase ahead touches a
\* sector that begins behind it (cart_nor.c:325-336, 643-650).
THEOREM RestOfRomStays == RomSpec => BeyondStays
<1> DEFINE Stays ==
      ~stray /\ writing.total # 0 =>
        \A a \in FlashBytes : SectorAt[a] >= writing.total => cells'[a] = cells[a]
<1>1. RomInv /\ [RomNext]_romVars => [Stays]_romVars
  <2> SUFFICES ASSUME RomInv, RomNext, ~stray, writing.total # 0,
                      NEW a \in FlashBytes, SectorAt[a] >= writing.total
               PROVE  cells'[a] = cells[a]
    OBVIOUS
  <2>0. RomTypeOK /\ ChunkShape /\ SectorAt[a] \in Nat /\ writing.total \in Nat /\ a \in Nat
        /\ SectorAt[a] <= a
    BY RomTypes, SectorFacts DEF RomInv
  <2>1. ASSUME busy # Nowhere, cells' \in {Erased(busy), Ruined(busy)} PROVE cells'[a] = cells[a]
    <3>1. busy \in FlashBytes /\ SectorAt[busy] = busy /\ busy < writing.total /\ busy \in Nat
      BY <2>1, AheadIs, RomFacts
    <3>2. SectorAt[a] # SectorAt[busy]
      BY <2>0, <3>1
    <3> QED BY <2>0, <2>1, <3>1, <3>2, ErasedIs
  <2>2. CASE EraseEnds
    BY <2>1, <2>2 DEF EraseEnds
  <2>3. CASE Flush
    BY <2>1, <2>3 DEF Flush
  <2>4. ASSUME ~Calm PROVE At \in Nat /\ At < writing.total /\ image # 0
                          /\ writing.offset + chunk.length <= writing.total
                          /\ At = writing.offset + chunk.done
                          /\ writing.offset \in Nat /\ chunk.length \in Nat /\ chunk.done \in Nat
    BY <2>0, <2>4, RomTypes DEF ChunkShape, At
  <2>5. CASE EraseHere
    <3>1. ~Calm /\ IsBoundary(At)
      BY <2>5 DEF EraseHere
    <3>2. At \in FlashBytes /\ SectorAt[At] = At /\ At < writing.total /\ At \in Nat
      BY <2>4, <3>1, BoundaryIs
    <3>3. SectorAt[a] # SectorAt[At]
      BY <2>0, <3>2
    <3>4. Erased(At)[a] = cells[a] /\ Ruined(At)[a] = cells[a]
      BY <2>0, <3>2, <3>3, ErasedIs
    <3>5. CASE busy = Nowhere
      BY <2>5, <3>4, <3>5 DEF EraseHere
    <3>6. CASE busy # Nowhere
      BY <2>1, <2>5, <3>6 DEF EraseHere
    <3> QED BY <3>5, <3>6
  <2>6. CASE Program
    <3> DEFINE n == Unit
    <3>1. ~Calm /\ cells' \in {cells, Burnt(n)}
      BY <2>6 DEF Program
    <3>2. n \in Nat \ {0} /\ chunk.done + n <= chunk.length
      BY <3>1, UnitIs
    <3> HIDE DEF n
    <3>3. ~(At <= a /\ a < At + n)
      BY <2>0, <2>4, <3>1, <3>2
    <3> QED BY <2>0, <2>4, <3>1, <3>2, <3>3, BurntIs
  <2>7. CASE Invalidate \/ WriteRefused \/ \E total \in Totals : SetSize(total)
    BY <2>7 DEF Invalidate, WriteRefused, SetSize
  <2>8. CASE \E offset \in 0 .. FlashSize : \E length \in ChunkLengths : WriteBegin(offset, length)
    BY <2>8 DEF WriteBegin
  <2> QED BY <2>2, <2>3, <2>5, <2>6, <2>7, <2>8 DEF RomNext
<1> QED
  BY <1>1, RomInvariant, PTL DEF RomSpec, BeyondStays
=============================================================================
