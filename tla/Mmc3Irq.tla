-------------------------------- MODULE Mmc3Irq --------------------------------
(***************************************************************************)
(* The line counter of PocketNES's MMC3 (emulators/pocketnes/src/mappers/    *)
(* map4.s).  The chip counts the rises of an address line of the picture     *)
(* unit, once a line at a place that depends on the tables background and    *)
(* sprites use.  The code counts them only when it has to, by dividing times *)
(* by the length of a line, and sets a time-out for the next that matters.   *)
(* real and asked are the counter and the interrupt of a chip that counts    *)
(* each rise when it comes.                                                  *)
(*                                                                          *)
(* Times are in steps of which a line has Line, fewer than an instruction    *)
(* takes: a sprite DMA while a picture is drawn is longer, and left out.     *)
(***************************************************************************)
EXTENDS Integers

CONSTANTS
  Line,          \* timestamp_mult: steps of a line
  SprLead,       \* mmc3_spr_subtract: how far before a line's end sprites raise the line
  BgLead,        \* mmc3_bg_subtract
  IrqDelay,      \* irq_time_add
  LatchValues,       \* what a game writes to C000
  MaxDots,     \* bound on the time
  NotSet

ASSUME Mmc3Assumption ==
  /\ Line \in Nat \ {0} /\ SprLead \in 1 .. Line - 1 /\ BgLead \in 1 .. Line - 1
  /\ IrqDelay \in 1 .. Line - 1 /\ LatchValues \subseteq 0 .. 255 /\ MaxDots \in Nat
  /\ NotSet \notin Int

VARIABLES
  dot,        \* the time
  drawing,       \* ~screen_off
  source,        \* which table's fetches raise the line: "spr", "bg", or "none"
  irq_counter, irq_latch, irq_enable,
  last_mmc3_timestamp,
  mapper_timeout, mapper_irq_timeout,    \* when, or NotSet
  wantirq,       \* IRQ_MAPPER in wantirq
  real, asked,
  strays         \* what the code does not count as the chip does

mmcIrqVars ==
  <<dot, drawing, source, irq_counter, irq_latch, irq_enable, last_mmc3_timestamp,
    mapper_timeout, mapper_irq_timeout, wantirq, real, asked, strays>>

counterVars == <<irq_counter, irq_latch, irq_enable, last_mmc3_timestamp, mapper_timeout,
                 mapper_irq_timeout>>

Lead(s) == IF s = "spr" THEN SprLead ELSE BgLead
LineOf(time) == (time + Lead(source)) \div Line
Rises(from, to) == LineOf(to) - LineOf(from)

\* mmc3_clock_irq_entry: the counter after n rises, and whether an interrupt is asked for.
Clocked(counter, n) ==
  CASE n = 0 -> [counter |-> counter, asks |-> FALSE]
    [] n # 0 /\ counter = 0 -> [counter |-> irq_latch, asks |-> irq_latch = 0 /\ irq_enable]
    [] OTHER -> [counter |-> (counter - n) % 256, asks |-> counter = n /\ irq_enable]

\* run_mmc3: the rises since it last ran.
run_mmc3 ==
  Clocked(irq_counter,
          IF drawing /\ source # "none" THEN Rises(last_mmc3_timestamp, dot) ELSE 0)

\* mmc3_set_next_timeout: when the counter is loaded, or reaches 0.
mmc3_set_next_timeout(draws, counter, last) ==
  IF ~draws \/ source = "none" \/ (counter = 0 /\ irq_latch = 0 /\ ~irq_enable) THEN NotSet
  ELSE Line * (LineOf(last) + IF counter = 0 THEN 1 ELSE counter) - Lead(source)

Counts(c) ==
  /\ irq_counter' = c.counter /\ last_mmc3_timestamp' = dot
  /\ mapper_irq_timeout' = IF c.asks THEN dot + IrqDelay ELSE mapper_irq_timeout

Overdue(t) == t # NotSet /\ t < dot

\* A history ends with its first stray.
Ready == strays = {} /\ ~Overdue(mapper_timeout) /\ ~Overdue(mapper_irq_timeout)
Strays(condition, name) == strays' = IF condition THEN strays \cup {name} ELSE strays

Mmc3IrqInit ==
  /\ dot = 0 /\ drawing = FALSE /\ source \in {"spr", "bg", "none"}
  /\ irq_counter = 0 /\ irq_latch = 0 /\ irq_enable = FALSE /\ last_mmc3_timestamp = 0
  /\ mapper_timeout = NotSet /\ mapper_irq_timeout = NotSet /\ wantirq = FALSE
  /\ real = 0 /\ asked = FALSE /\ strays = {}

\* An instruction goes by; the chip counts.
Elapse(k) ==
  LET rises == IF drawing /\ source # "none" THEN Rises(dot, dot + k) ELSE 0
      counts == Clocked(real, rises)
  IN  /\ Ready /\ dot + k <= MaxDots
      /\ dot' = dot + k
      /\ real' = counts.counter /\ asked' = (asked \/ counts.asks)
      /\ UNCHANGED <<drawing, source, wantirq, strays, counterVars>>

mmc3_timeout_handler ==
  /\ Overdue(mapper_timeout)
  /\ Overdue(mapper_irq_timeout) => mapper_timeout <= mapper_irq_timeout
  /\ Counts(run_mmc3)
  /\ mapper_timeout' = mmc3_set_next_timeout(drawing, run_mmc3.counter, dot)
  /\ UNCHANGED <<dot, drawing, source, irq_latch, irq_enable, wantirq, real, asked, strays>>

mapper_irq_handler ==
  /\ Overdue(mapper_irq_timeout)
  /\ Overdue(mapper_timeout) => mapper_irq_timeout <= mapper_timeout
  /\ mapper_irq_timeout' = NotSet /\ wantirq' = TRUE
  /\ UNCHANGED <<dot, drawing, source, irq_counter, irq_latch, irq_enable,
                 last_mmc3_timestamp, mapper_timeout, real, asked, strays>>

-----------------------------------------------------------------------------
(* The game writes.  A time-out that is due right now comes after the write, *)
(* though its rise came before ("tie").  None is set while counter, latch    *)
(* and enable are all 0, and these two writes set none ("unset").            *)

WriteLatch(v) ==
  /\ Ready /\ irq_latch' = v
  /\ strays' = strays \cup (IF mapper_timeout = dot THEN {"tie"} ELSE {})
                      \cup (IF drawing /\ mapper_timeout = NotSet THEN {"unset"} ELSE {})
  /\ UNCHANGED <<dot, drawing, source, irq_counter, irq_enable, last_mmc3_timestamp,
                 mapper_timeout, mapper_irq_timeout, wantirq, real, asked>>

\* C001: loaded at the next rise.
ClearedAt(last) ==
  /\ irq_counter' = 0 /\ last_mmc3_timestamp' = last
  /\ mapper_timeout' = mmc3_set_next_timeout(drawing, 0, last)

\* The mutant goes on from the time of the last count.
ClearCounterOnly == ClearedAt(last_mmc3_timestamp)

ClearCounter == ClearedAt(dot)

WriteReload ==
  /\ Ready /\ ClearCounter /\ real' = 0
  /\ Strays(mapper_timeout = dot, "tie")
  /\ UNCHANGED <<dot, drawing, source, irq_latch, irq_enable, mapper_irq_timeout, wantirq,
                 asked>>

\* E001.
WriteEnable ==
  /\ Ready /\ irq_enable' = TRUE
  /\ strays' = strays \cup (IF mapper_timeout = dot THEN {"tie"} ELSE {})
                      \cup (IF drawing /\ mapper_timeout = NotSet THEN {"unset"} ELSE {})
  /\ UNCHANGED <<dot, drawing, source, irq_counter, irq_latch, last_mmc3_timestamp,
                 mapper_timeout, mapper_irq_timeout, wantirq, real, asked>>

\* E000 takes an interrupt back, but not one that is on its way ("late").
WriteDisable ==
  /\ Ready /\ irq_enable' = FALSE /\ wantirq' = FALSE /\ asked' = FALSE
  /\ Strays(mapper_irq_timeout # NotSet, "late")
  /\ UNCHANGED <<dot, drawing, source, irq_counter, irq_latch, last_mmc3_timestamp,
                 mapper_timeout, mapper_irq_timeout, real>>

\* ctrl0_W: nothing is counted and no time-out is set anew ("table").
WriteTables(s) ==
  /\ Ready /\ s # source /\ source' = s
  /\ Strays(drawing, "table")
  /\ UNCHANGED <<dot, drawing, wantirq, real, asked, counterVars>>

\* turn_screen_on: mmc3_screen_on, which counts a rise if the first fetch raises the line,
\* then mmc3_set_next_timeout.
ScreenOn(raises) ==
  LET n == IF raises THEN 1 ELSE 0
      c == Clocked(irq_counter, n)
      counts == Clocked(real, n)
  IN  /\ Ready /\ ~drawing /\ drawing' = TRUE
      /\ raises => source # "none"
      /\ Counts(c) /\ mapper_timeout' = mmc3_set_next_timeout(TRUE, c.counter, dot)
      /\ real' = counts.counter /\ asked' = (asked \/ counts.asks)
      /\ UNCHANGED <<dot, source, irq_latch, irq_enable, wantirq, strays>>

\* turn_screen_off: run_mmc3, then mmc3_set_next_timeout.
ScreenOff ==
  /\ Ready /\ drawing /\ drawing' = FALSE
  /\ Counts(run_mmc3)
  /\ mapper_timeout' = mmc3_set_next_timeout(FALSE, run_mmc3.counter, dot)
  /\ UNCHANGED <<dot, source, irq_latch, irq_enable, wantirq, real, asked, strays>>

Mmc3IrqNext ==
  \/ \E k \in 1 .. Line - 1 : Elapse(k)
  \/ mmc3_timeout_handler \/ mapper_irq_handler
  \/ \E v \in LatchValues : WriteLatch(v)
  \/ WriteReload \/ WriteEnable \/ WriteDisable
  \/ \E s \in {"spr", "bg", "none"} : WriteTables(s)
  \/ \E raises \in BOOLEAN : ScreenOn(raises)
  \/ ScreenOff

\* map4.s:290-531: counting late is counting: whenever the code counts, its counter is the
\* chip's, and an interrupt is wanted or on its way when and only when the chip asks for one.
CountsEachLine ==
  strays = {} =>
    /\ run_mmc3.counter = real
    /\ (wantirq \/ mapper_irq_timeout # NotSet \/ run_mmc3.asks) = asked
=============================================================================
