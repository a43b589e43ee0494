---------------------------- MODULE RoundWindow ----------------------------
(***************************************************************************)
(* The time arithmetic of a periodic leaderboard: periodic/state.go.       *)
(*                                                                         *)
(* A PeriodicState is the record [cycle, base, cur, open, close]: the      *)
(* present and the initial cycle length, the current round and its window. *)
(* A window is half open, [open, close).  Times are in a unit the caller   *)
(* chooses; a cycle is positive (Register and cycleProvider refuse others, *)
(* so the CycleMinutes <= 0 guards of the code are never taken).  A zero   *)
(* open or close means "not set yet", which only NewState builds.          *)
(***************************************************************************)
EXTENDS Integers

CONSTANTS TotalOpen,   \* when the activity opens
          TotalClose   \* when the activity closes

ASSUME ActivitySpan ==
    /\ TotalOpen \in Nat \ {0}
    /\ TotalClose \in Nat
    /\ TotalOpen < TotalClose

PeriodicState == [cycle : Nat \ {0}, base : Nat \ {0}, cur : Nat \ {0},
                  open : Nat, close : Nat]

(* A window of the given length, cut off where the activity closes. *)
CutWindow(open, cycle) ==
    [open  |-> open,
     close |-> IF open + cycle > TotalClose THEN TotalClose ELSE open + cycle]

(* Mutants of Window.  The next round follows the start of the current one; *)
(* past rounds are numbered from 0.                                        *)
WindowFromOpen(p, round) ==
    IF round <= p.cur /\ p.open > 0
    THEN [open |-> p.open, close |-> p.close]
    ELSE CutWindow(p.open + (round - p.cur - 1) * p.cycle, p.cycle)
HistoryFromZero(p, round) ==
    IF round = p.cur /\ p.open > 0
    THEN [open |-> p.open, close |-> p.close]
    ELSE CutWindow(IF round > p.cur
                   THEN p.close + (round - p.cur - 1) * p.cycle
                   ELSE TotalOpen + (IF round < p.cur THEN round ELSE round - 1)
                                    * p.cycle, p.cycle)

(* computeRoundWindow: the current round has its saved window, later rounds *)
(* follow it in steps of the present cycle, and earlier rounds are placed  *)
(* from the start of the activity with the initial cycle.                  *)
Window(p, round) ==
    IF round = p.cur /\ p.open > 0
    THEN [open |-> p.open, close |-> p.close]
    ELSE IF round > p.cur /\ p.close > 0
    THEN CutWindow(p.close + (round - p.cur - 1) * p.cycle, p.cycle)
    ELSE LET cycle == IF round < p.cur THEN p.base ELSE p.cycle
         IN  CutWindow(TotalOpen + (round - 1) * cycle, cycle)

(* maxRound *)
MaxRound(cycle) == ((TotalClose - TotalOpen - 1) \div cycle) + 1

(* computeRoundAt: the round the wall clock is in, on the grid of cycle.   *)
RoundAt(cycle, t) ==
    IF t <= TotalOpen THEN 1
    ELSE LET round == ((t - TotalOpen) \div cycle) + 1
         IN  IF round > MaxRound(cycle) THEN MaxRound(cycle) ELSE round

(* Mutant: a round is taken to be over one unit early. *)
ExpiredEarly(p, t) == t + 1 >= p.close
(* isRoundExpired, isActivityFinished *)
Expired(p, t) == t >= p.close
Finished(t) == t >= TotalClose

(* Mutant: one round further than the clock. *)
NextRoundTooFar(p, t) == RoundAt(p.cycle, t) + 1

(* nextAdvanceRound: the round of the wall clock, and at least one further. *)
NextAdvanceRound(p, t) ==
    IF RoundAt(p.cycle, t) <= p.cur THEN p.cur + 1 ELSE RoundAt(p.cycle, t)

(* advanceToRound, which writes the window first and the number second.    *)
(* It refuses to go back or past the end of the activity.                  *)
CanAdvanceTo(p, round) == round > p.cur /\ Window(p, round).open < TotalClose
WithWindowOf(p, round) == [p EXCEPT !.open = Window(p, round).open,
                                    !.close = Window(p, round).close]

(* NewPeriodicState: registration goes straight to the round of the clock. *)
NewState(cycle, t) ==
    LET round == RoundAt(cycle, t)
        blank == [cycle |-> cycle, base |-> cycle, cur |-> round,
                  open |-> 0, close |-> 0]
    IN  WithWindowOf(blank, round)
=============================================================================
