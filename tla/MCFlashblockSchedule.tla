------------------------ MODULE MCFlashblockSchedule ------------------------
(* FlashblockSchedule for TLC: half-millisecond ticks and short jobs. *)
EXTENDS FlashblockSchedule

ShortDeadlines == 0..26
ShortBlockTimes == {12, 16, 26}
=============================================================================
