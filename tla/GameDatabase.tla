----------------------------- MODULE GameDatabase -----------------------------
(***************************************************************************)
(* The kind of save memory a cartridge has, looked up by its game code in   *)
(* the sorted records of a database file, which is read record by record    *)
(* (common/chislink_proto/src/gamedb.c, gba/sdk/src/cart_gba.c).            *)
(***************************************************************************)
EXTENDS Integers

CONSTANTS
  Codes,       \* game codes, in the order memcmp gives them
  SaveOf,      \* of each: the byte after the code, and the word after that, if there is one
  MaxRecords   \* bound on the records of a file

ASSUME DatabaseAssumption ==
  /\ Codes \subseteq Int /\ MaxRecords \in Nat
  /\ SaveOf \in [Codes -> [short : 0 .. 255, size : Nat]]

VARIABLES
  records,     \* the codes of the file's records
  width,       \* bytes of a record
  game_code,   \* that of the cartridge
  db_open,     \* the file is open
  left, right, \* the records that may have the code: from left to before right
  saved,       \* how the save memory is configured
  found        \* what is returned; none while searching

dbVars == <<records, width, game_code, db_open, left, right, saved, found>>

Sorted(f) == \A i, j \in DOMAIN f : i < j => f[i] < f[j]
Databases == {f \in UNION {[0 .. n - 1 -> Codes] : n \in 0 .. MaxRecords} : Sorted(f)}

-----------------------------------------------------------------------------
\* save_type_from_short_code
FromShort(short) ==
  CASE short \in {1, 2} -> [type |-> "EEPROM", size |-> IF short = 1 THEN 512 ELSE 8192]
    [] short \in {4, 5} -> [type |-> "FLASH", size |-> IF short = 4 THEN 65536 ELSE 131072]
    [] short \in {3, 6, 7, 8} ->
         [type |-> "SRAM",
          size |-> CASE short = 3 -> 32768 [] short = 6 -> 1048576
                     [] short = 7 -> 65536 [] short = 8 -> 131072]
    [] OTHER -> [type |-> "NONE", size |-> 0]

\* cl_gamedb_decode_record
Decoded(code, bytes) ==
  [FromShort(SaveOf[code].short) EXCEPT !.size = IF bytes = 9 THEN SaveOf[code].size ELSE @]

\* apply_save_config
Applied(info) == IF info.size = 0 \/ info.type = "NONE" THEN [type |-> "NONE", size |-> 0] ELSE info

\* cl_gamedb_record_size of a file of n bytes
RecordSize(n) ==
  IF n < 5 THEN -1 ELSE IF n % 5 = 0 THEN 5 ELSE IF n % 9 = 0 THEN 9 ELSE -2

-----------------------------------------------------------------------------
Count(f) == IF DOMAIN f = {} THEN 0 ELSE CHOOSE n \in 1 .. MaxRecords : DOMAIN f = 0 .. n - 1
Bytes == Count(records) * width
TakenWidth == RecordSize(Bytes)

DbBegins ==
  /\ db_open = FALSE /\ left = 0 /\ right = 0
  /\ saved = [type |-> "unknown", size |-> 0] /\ found = "none"

DbInit ==
  /\ records \in Databases /\ width \in {5, 9} /\ game_code \in Codes
  /\ DbBegins

\* Everything up to the open file: the information on the cartridge, the size of the file,
\* the width of its records and its opening, each of which may fail.
OpenDatabase(fails) ==
  /\ found = "none" /\ ~db_open
  /\ IF fails \/ TakenWidth < 0
     THEN found' = "error" /\ UNCHANGED <<db_open, left, right>>
     ELSE db_open' = TRUE /\ left' = 0 /\ right' = Bytes \div TakenWidth /\ UNCHANGED found
  /\ UNCHANGED <<records, width, game_code, saved>>

Mid == left + ((right - left) \div 2)
\* The record at mid; the bytes there may be those of any, when its width is not the file's.
RecordsAt(i) == IF TakenWidth = width THEN {records[i]} ELSE Codes

\* One record is read and compared, or that fails. The mutant leaves out the one before mid.
NarrowedTooFar(code) ==
  IF code < game_code THEN [left |-> Mid + 1, right |-> right]
  ELSE [left |-> left, right |-> Mid - 1]
Narrowed(code) ==
  IF code < game_code THEN [left |-> Mid + 1, right |-> right]
  ELSE [left |-> left, right |-> Mid]

Probe(code) ==
  /\ db_open /\ left < right /\ code \in RecordsAt(Mid)
  /\ IF code = game_code
     THEN /\ found' = "ok" /\ db_open' = FALSE
          /\ saved' = Applied(Decoded(code, TakenWidth))
          /\ UNCHANGED <<left, right>>
     ELSE /\ left' = Narrowed(code).left /\ right' = Narrowed(code).right
          /\ UNCHANGED <<db_open, saved, found>>
  /\ UNCHANGED <<records, width, game_code>>

\* read_exact_record fails, or gives too few bytes.
ProbeFails ==
  /\ db_open /\ left < right
  /\ found' = "error" /\ db_open' = FALSE
  /\ UNCHANGED <<records, width, game_code, left, right, saved>>

Absent ==
  /\ db_open /\ left >= right
  /\ found' = "absent" /\ db_open' = FALSE
  /\ UNCHANGED <<records, width, game_code, left, right, saved>>

DbNext ==
  \/ \E fails \in BOOLEAN : OpenDatabase(fails)
  \/ \E code \in Codes : Probe(code)
  \/ ProbeFails \/ Absent

DbSpec == DbInit /\ [][DbNext]_dbVars

-----------------------------------------------------------------------------
\* cart_gba.c, cl_cart_gba_configure_save_from_gamedb: where the width of the records is
\* taken for what it is, the save memory is configured as the record of the cartridge's game
\* says, that there is no record is said only where there is none, and after a failure the
\* configuration is what it was; the file is closed again whatever happened.
SearchFinds ==
  /\ found # "none" => ~db_open
  /\ found \in {"error", "absent"} => saved.type = "unknown"
  /\ found = "absent" /\ TakenWidth = width => \A i \in DOMAIN records : records[i] # game_code
  /\ found = "ok" /\ TakenWidth = width =>
       \E i \in DOMAIN records :
         records[i] = game_code /\ saved = Applied(Decoded(records[i], width))
=============================================================================
