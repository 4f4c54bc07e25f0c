------------------------------ MODULE MCDevices ------------------------------
(***************************************************************************)
(* What a game or an emulator keeps in its own memory or on its cartridge,  *)
(* one component at a time: part says which of them moves; the others stay  *)
(* as they are after their initialisation.                                  *)
(*                                                                          *)
(* GoombaSave moves through two kinds of histories: those that write the    *)
(* battery file and save no state of the game ("battery"), and those that   *)
(* save and load states and leave the battery file alone ("states").        *)
(***************************************************************************)
EXTENDS MCBanks, StreamRing, RomFlash, SaveMemory, GoombaCache, GoombaSave, Mbc, Timeouts,
        Mmc3Banks, TLC

-----------------------------------------------------------------------------
(* The devices, one at a time.                                               *)

VARIABLE part

devicesVars ==
  <<part, bankVars, allRingVars, romVars, saveVars, cacheVars, goombaVars, mbcVars,
    timeoutVars, mmcIrqVars, mmcBankVars>>

\* A cartridge of each bank controller, with writes that tell the registers and their bits
\* apart.
Tried(enables, lows, selects, modes) ==
  ({0} \X {FALSE, TRUE} \X enables) \cup ({1} \X {FALSE, TRUE} \X lows)
    \cup ({2} \X {FALSE} \X selects) \cup ({3} \X {FALSE} \X modes)

Cart(type, pages, rams, tried) ==
  [type |-> type, rom |-> pages, ram |-> rams, color |-> type \in {3, 27}, tried |-> tried]

OneOfEach ==
  {Cart(3, 64, 4, Tried({0, 10}, {0, 33}, {0, 2}, {0, 1})),
   Cart(6, 16, 1, Tried({0, 26}, {0, 3}, {1}, {1})),
   Cart(16, 128, 4, Tried({0, 10}, {5}, {2, 9}, {0, 1, 3})),
   Cart(23, 4, 1, Tried({0, 10}, {0, 5}, {}, {})),
   Cart(27, 512, 4, Tried({10, 16}, {0, 255}, {1, 9}, {})),
   Cart(34, 128, 1, Tried({10}, {0, 129}, {8, 9}, {})),
   Cart(254, 64, 4, Tried({0, 10}, {0, 5}, {1}, {1})),
   Cart(255, 64, 4, Tried({0, 10}, {0, 35}, {1}, {0, 1})),
   Cart(8, 2, 1, Tried({0, 10}, {0, 1}, {}, {}))}

TwoMoments == {<<31, 23, 59, 8>>, <<9, 7, 10, 45>>}

\* A region of small sectors below one of large sectors.
TwoRegions == <<[count |-> 2, size |-> 4], [count |-> 1, size |-> 8]>>

DevicesInit ==
  /\ part \in {"prg", "chr", "ring", "rom", "save", "cache", "battery", "states", "mbc",
              "timeouts", "lines", "boards"}
  /\ BankInit /\ RingInit /\ RomInit /\ SaveInit /\ CacheInit /\ GoombaInit
  /\ MbcInit /\ TimeoutsInit /\ Mmc3Init
  /\ part # "ring" => \E b \in Byte : buffer = [s \in Index |-> [at \in 1 .. SlotSize |-> b]]
  /\ part # "save" => chip = [kind |-> "sram", banks |-> 1]
  /\ part # "lines" => source = "none"
  /\ part # "boards" => board = 4
  /\ part # "mbc" => cart = CHOOSE c \in Cartridges : c.type = 3

DevicesNext ==
  \/ /\ part = "prg" /\ BankNext
     /\ call' = None
     /\ UNCHANGED <<part, allRingVars, romVars, saveVars, cacheVars, goombaVars,
                   mbcVars, timeoutVars, mmcIrqVars, mmcBankVars>>
  \/ /\ part = "chr" /\ BankNext
     /\ ~ (op = "idle" /\ op' = "idle")
     /\ UNCHANGED <<part, allRingVars, romVars, saveVars, cacheVars, goombaVars,
                   mbcVars, timeoutVars, mmcIrqVars, mmcBankVars>>
  \/ /\ part = "ring" /\ RingNext
     /\ UNCHANGED <<part, bankVars, romVars, saveVars, cacheVars, goombaVars, mbcVars,
                   timeoutVars, mmcIrqVars, mmcBankVars>>
  \/ /\ part = "rom" /\ RomNext
     /\ UNCHANGED <<part, bankVars, allRingVars, saveVars, cacheVars, goombaVars,
                   mbcVars, timeoutVars, mmcIrqVars, mmcBankVars>>
  \/ /\ part = "save" /\ SaveNext
     /\ UNCHANGED <<part, bankVars, allRingVars, romVars, cacheVars, goombaVars,
                   mbcVars, timeoutVars, mmcIrqVars, mmcBankVars>>
  \/ /\ part = "cache" /\ CacheNext
     /\ UNCHANGED <<part, bankVars, allRingVars, romVars, saveVars, goombaVars,
                   mbcVars, timeoutVars, mmcIrqVars, mmcBankVars>>
  \/ /\ part = "battery" /\ GoombaNext
     /\ moments' = {} /\ state' = 0
     /\ UNCHANGED <<part, bankVars, allRingVars, romVars, saveVars, cacheVars, mbcVars,
                   timeoutVars, mmcIrqVars, mmcBankVars>>
  \/ /\ part = "states" /\ GoombaNext
     /\ battery' = battery /\ idle' = idle
     /\ UNCHANGED <<part, bankVars, allRingVars, romVars, saveVars, cacheVars, mbcVars,
                   timeoutVars, mmcIrqVars, mmcBankVars>>
  \/ /\ part = "mbc" /\ MbcNext
     /\ UNCHANGED <<part, bankVars, allRingVars, romVars, saveVars, cacheVars,
                   goombaVars, timeoutVars, mmcIrqVars, mmcBankVars>>
  \/ /\ part = "timeouts" /\ TimeoutsNext
     /\ UNCHANGED <<part, bankVars, allRingVars, romVars, saveVars, cacheVars,
                   goombaVars, mbcVars, mmcIrqVars, mmcBankVars>>
  \/ /\ part = "lines" /\ Mmc3IrqNext
     /\ UNCHANGED <<part, bankVars, allRingVars, romVars, saveVars, cacheVars,
                   goombaVars, mbcVars, timeoutVars, mmcBankVars>>
  \/ /\ part = "boards" /\ Mmc3BanksNext
     /\ UNCHANGED <<part, bankVars, allRingVars, romVars, saveVars, cacheVars,
                   goombaVars, mbcVars, timeoutVars, mmcIrqVars>>

DevicesSpec == DevicesInit /\ [][DevicesNext]_devicesVars

\* The values of all the variables are of their types.
DevicesTypeOK ==
  BankTypeOK /\ RingTypeOK /\ RomTypeOK /\ SaveTypeOK /\ CacheTypeOK /\ GoombaTypeOK

\* cart_gba.c:530-832, cart_nor.c:325-650: what lies beside the bytes of a write stays, in a
\* ROM flash with sectors erased ahead as in save memories with units and probes.
BesideStays == BeyondStays /\ OthersStay

DevicesSymmetry == Permutations(Byte) \cup Permutations(Games)
=============================================================================
