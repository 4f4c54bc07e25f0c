------------------------------- MODULE MCBanks -------------------------------
(* A small game: two windows of each kind, four CHR slots (17 for 8 windows    *)
(* on the GBA), 5 CHR pages in a table of 8: bank 5 aliases page 0, bank 6 is   *)
(* RAM.  A CNROM game, at the sizes of the code: 32 KiB of PRG, four banks of   *)
(* 8 KiB of CHR, nine slots.                                                   *)
EXTENDS BankCache

Switch(first, width, page) == [first |-> first, width |-> width, page |-> page]

SmallPrg == {Switch(1, 1, 0), Switch(1, 1, 4), Switch(1, 2, 2)}
SmallChr == {Switch(1, 2, 2), Switch(1, 2, 4), Switch(2, 1, 1), Switch(2, 1, 6)}
SmallPrgSaved == {<<4, 3>>}
SmallChrSaved == {<<2, 6>>, <<4, 5>>}

CnromPrg == {Switch(1, 4, 0)}
CnromChr == {Switch(1, 8, p) : p \in {0, 8, 16, 24}}
CnromPrgSaved == {<<0, 1, 2, 3>>}
CnromChrSaved == {[w \in 1 .. 8 |-> p + w - 1] : p \in {0, 8, 16, 24}}
=============================================================================
