---------------------------- MODULE SlidingWindow ----------------------------
(***************************************************************************)
(* The anti-replay window of SessionInfo::decrypt (src/src/session.rs) as  *)
(* pure operators.  `remote_seq_high' is a number; the bit mask            *)
(* `remote_seq_window' is the set of the offsets whose bit is set, so      *)
(* offset o stands for sequence number high - o, and bits shifted out of   *)
(* the word fall out of the set.                                           *)
(***************************************************************************)
EXTENDS Integers

CONSTANT Window          \* WINDOW: 64 in the code, the width of the bit mask

ASSUME WindowAssumption == Window \in Nat \ {0}

Offsets == 0 .. Window - 1

\* A bug that lets one number more pass than the mask can remember.
MutantTooOldOffByOne(high, seq) == seq <= high /\ high - seq > Window

\* remote_seq_high.saturating_sub(seq) >= WINDOW
TooOld(high, seq) == seq <= high /\ high - seq >= Window

Seen(high, win, seq) == seq <= high /\ (high - seq) \in win

Admits(high, win, seq) == ~TooOld(high, seq) /\ ~Seen(high, win, seq)

SlideHigh(high, seq) == IF seq > high THEN seq ELSE high

\* A bug that advances the mask without shifting the old bits.
MutantSlideNoShift(high, win, seq) ==
    IF seq > high THEN win \cup {0} ELSE win \cup {high - seq}

SlideWindow(high, win, seq) ==
    IF seq > high
    THEN {o \in Offsets : o = 0 \/ o - (seq - high) \in win}
    ELSE win \cup {high - seq}

=============================================================================
