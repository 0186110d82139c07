----------------------- MODULE ModeSelectorProofs -----------------------
(***************************************************************************)
(* The safety of the mode selector for every value of its thresholds.      *)
(***************************************************************************)
EXTENDS ModeSelector, TLAPS

(* Nothing is shown before the selector is armed, and what is shown after  *)
(* is where the ring stands.                                               *)
RingIsShown ==
    /\ pc \in {"guard", "arm"} => shown = Nothing /\ mode_idx = 1
    /\ pc \in {"armed", "loop", "press"} => shown = Display(mode_idx)

(* The interaction loop is entered on a high sample; in it press_ms counts *)
(* the low samples after the first.                                        *)
LoopAfterRelease == pc \in {"loop", "press"} => released

PressIsMeasured ==
    /\ pc = "loop" => run = 0
    /\ pc = "press" => run = held + 1 /\ held < Long

SelectorInv ==
    /\ TypeOK /\ RingIsShown /\ LoopAfterRelease /\ PressIsMeasured
    /\ ExecutesWhatItShows /\ ReleaseBeforeExecute

(* The thresholds are positive numbers in the order of the code.           *)
LEMMA Thresholds ==
    /\ Arm \in Nat /\ ShortMin \in Nat /\ ShortMax \in Nat /\ Long \in Nat
    /\ 0 < Arm /\ 0 < ShortMin /\ ShortMin <= ShortMax /\ ShortMax < Long
    /\ RunBound \in Nat /\ RunBound = Long + 2
  BY TimingAssumption DEF RunBound

(* The type invariant, one variable at a time, the numbers apart.          *)
Numbers ==
    /\ held \in Nat /\ (held < Arm \/ held < Long)
    /\ mode_idx \in 1 .. 3
    /\ run \in 0 .. RunBound

Displays == {Display(1), Display(2), Display(3)}

Names ==
    /\ pc \in {"guard", "arm", "armed", "loop", "press", "done"}
    /\ shown \in Displays \cup {Nothing}
    /\ mode \in Modes \cup {"none"}
    /\ released \in BOOLEAN /\ stuck \in BOOLEAN

(* The ring has three modes, and shows each of them as what it means.      *)
LEMMA RingModes ==
    /\ Len(s_mode_ring) = 3
    /\ \A i \in 1 .. 3 : /\ s_mode_ring[i] \in Modes
                         /\ Display(i) \in Displays
                         /\ Display(i) # Nothing
                         /\ Display(i) = Meaning[s_mode_ring[i]]
    /\ "BOOT_MODE_NORMAL" \in Modes
  BY DEF s_mode_ring, s_mode_ring_names, s_mode_ring_colors, Modes, Display, Displays, Nothing,
     Meaning

(* The two halves of the type invariant are the type invariant.            *)
LEMMA TypesIsTypeOK == TypeOK <=> Numbers /\ Names
<1>1. {Display(i) : i \in 1 .. Len(s_mode_ring)} = Displays
      BY RingModes DEF Displays
<1> QED BY <1>1, RingModes DEF TypeOK, Numbers, Names

(* The selector starts in the invariant.                                   *)
LEMMA SelectorInvInit == Init => SelectorInv
<1> SUFFICES ASSUME Init PROVE SelectorInv
    OBVIOUS
<1>1. Numbers
      BY Thresholds DEF Init, Numbers
<1>2. Names /\ RingIsShown /\ LoopAfterRelease /\ PressIsMeasured
      BY RingModes
      DEF Init, Names, RingIsShown, LoopAfterRelease, PressIsMeasured
<1>3. ExecutesWhatItShows /\ ReleaseBeforeExecute
      BY DEF Init, ExecutesWhatItShows, ReleaseBeforeExecute
<1> QED BY <1>1, <1>2, <1>3, TypesIsTypeOK DEF SelectorInv

(* A sample keeps the run of low samples in its bounds and counts it       *)
(* exactly as long as a press lasts.                                       *)
Counted(low) == /\ run' \in 0 .. RunBound /\ (stuck' = stuck)
                /\ ~low => run' = 0
                /\ low /\ run <= Long => run' = run + 1

LEMMA SampleCounts ==
    Numbers => \A low \in BOOLEAN : Sample(low) => Counted(low)
  BY Thresholds DEF Numbers, Sample, Counted

(* The invariant with its types spelled out.                               *)
Parts ==
    /\ Numbers /\ Names /\ RingIsShown /\ LoopAfterRelease /\ PressIsMeasured
    /\ ExecutesWhatItShows /\ ReleaseBeforeExecute

(* Every sample keeps it, one step for each action.                        *)
LEMMA PartsNext == Parts /\ [Next]_vars => Parts'
<1> SUFFICES ASSUME Parts, [Next]_vars PROVE Parts'
    OBVIOUS
<1>0. \A low \in BOOLEAN : Sample(low) => Counted(low)
      BY SampleCounts DEF Parts
<1> USE Thresholds, RingModes DEF Parts
<1>1. CASE BootNormal
  <2>sample. Counted(FALSE)
        BY <1>1, <1>0 DEF BootNormal
  <2>1. Numbers'
        BY <1>1, <2>sample
        DEF BootNormal, Return, Counted, RunBound, Numbers, PressIsMeasured
  <2>2. Names' /\ LoopAfterRelease'
        BY <1>1, <2>sample
        DEF Counted, BootNormal, Return, Names, LoopAfterRelease
  <2>3. RingIsShown'
        BY <1>1, <2>sample DEF BootNormal, Return, RingIsShown
  <2>4. PressIsMeasured'
        BY <1>1, <2>sample
        DEF BootNormal, Return, Counted, RunBound, Numbers, PressIsMeasured
  <2>5. ExecutesWhatItShows' /\ ReleaseBeforeExecute'
        BY <1>1, <2>sample
        DEF BootNormal, Return, Names, RingIsShown, LoopAfterRelease,
            ExecutesWhatItShows, ReleaseBeforeExecute
  <2> QED BY <2>1, <2>2, <2>3, <2>4, <2>5
<1>2. CASE GuardPressed
  <2>sample. Counted(TRUE)
        BY <1>2, <1>0 DEF GuardPressed
  <2>1. Numbers'
        BY <1>2, <2>sample
        DEF GuardPressed, Counted, RunBound, Numbers, PressIsMeasured
  <2>2. Names' /\ LoopAfterRelease'
        BY <1>2, <2>sample DEF Counted, GuardPressed, Names, LoopAfterRelease
  <2>3. RingIsShown'
        BY <1>2, <2>sample DEF GuardPressed, RingIsShown
  <2>4. PressIsMeasured'
        BY <1>2, <2>sample
        DEF GuardPressed, Counted, RunBound, Numbers, PressIsMeasured
  <2>5. ExecutesWhatItShows' /\ ReleaseBeforeExecute'
        BY <1>2, <2>sample
        DEF GuardPressed, Names, RingIsShown, LoopAfterRelease,
            ExecutesWhatItShows, ReleaseBeforeExecute
  <2> QED BY <2>1, <2>2, <2>3, <2>4, <2>5
<1>3. CASE HoldToArm
  <2>sample. Counted(TRUE)
        BY <1>3, <1>0 DEF HoldToArm
  <2>1. Numbers'
        BY <1>3, <2>sample
        DEF HoldToArm, Counted, RunBound, Numbers, PressIsMeasured
  <2>2. Names' /\ LoopAfterRelease'
        BY <1>3, <2>sample DEF Counted, HoldToArm, Names, LoopAfterRelease
  <2>3. RingIsShown'
        BY <1>3, <2>sample DEF HoldToArm, RingIsShown
  <2>4. PressIsMeasured'
        BY <1>3, <2>sample
        DEF HoldToArm, Counted, RunBound, Numbers, PressIsMeasured
  <2>5. ExecutesWhatItShows' /\ ReleaseBeforeExecute'
        BY <1>3, <2>sample
        DEF HoldToArm, Names, RingIsShown, LoopAfterRelease,
            ExecutesWhatItShows, ReleaseBeforeExecute
  <2> QED BY <2>1, <2>2, <2>3, <2>4, <2>5
<1>4. CASE Armed
  <2>sample. Counted(TRUE)
        BY <1>4, <1>0 DEF Armed
  <2>1. Numbers'
        BY <1>4, <2>sample
        DEF Armed, AfterArming, Counted, RunBound, Numbers, PressIsMeasured
  <2>2. Names' /\ LoopAfterRelease'
        BY <1>4, <2>sample
        DEF Counted, Armed, AfterArming, Names, LoopAfterRelease
  <2>3. RingIsShown'
        BY <1>4, <2>sample DEF Armed, AfterArming, RingIsShown
  <2>4. PressIsMeasured'
        BY <1>4, <2>sample
        DEF Armed, AfterArming, Counted, RunBound, Numbers, PressIsMeasured
  <2>5. ExecutesWhatItShows' /\ ReleaseBeforeExecute'
        BY <1>4, <2>sample
        DEF Armed, AfterArming, Names, RingIsShown, LoopAfterRelease,
            ExecutesWhatItShows, ReleaseBeforeExecute
  <2> QED BY <2>1, <2>2, <2>3, <2>4, <2>5
<1>5. ASSUME NEW low \in BOOLEAN, AwaitRelease(low) PROVE Parts'
  <2>sample. Counted(low)
        BY <1>5, <1>0 DEF AwaitRelease
  <2>1. Numbers'
        BY <1>5, <2>sample
        DEF AwaitRelease, Counted, RunBound, Numbers, PressIsMeasured
  <2>2. Names' /\ LoopAfterRelease'
        BY <1>5, <2>sample DEF Counted, AwaitRelease, Names, LoopAfterRelease
  <2>3. RingIsShown'
        BY <1>5, <2>sample DEF AwaitRelease, RingIsShown
  <2>4. PressIsMeasured'
        BY <1>5, <2>sample
        DEF AwaitRelease, Counted, RunBound, Numbers, PressIsMeasured
  <2>5. ExecutesWhatItShows' /\ ReleaseBeforeExecute'
        BY <1>5, <2>sample
        DEF AwaitRelease, Names, RingIsShown, LoopAfterRelease,
            ExecutesWhatItShows, ReleaseBeforeExecute
  <2> QED BY <2>1, <2>2, <2>3, <2>4, <2>5
<1>6. ASSUME NEW low \in BOOLEAN, LoopPoll(low) PROVE Parts'
  <2>sample. Counted(low)
        BY <1>6, <1>0 DEF LoopPoll
  <2>1. Numbers'
        BY <1>6, <2>sample
        DEF LoopPoll, FreshPress, Counted, RunBound, Numbers, PressIsMeasured
  <2>2. Names' /\ LoopAfterRelease'
        BY <1>6, <2>sample
        DEF Counted, LoopPoll, FreshPress, Names, LoopAfterRelease
  <2>3. RingIsShown'
        BY <1>6, <2>sample DEF LoopPoll, FreshPress, RingIsShown
  <2>4. PressIsMeasured'
        BY <1>6, <2>sample
        DEF LoopPoll, FreshPress, Counted, RunBound, Numbers, PressIsMeasured
  <2>5. ExecutesWhatItShows' /\ ReleaseBeforeExecute'
        BY <1>6, <2>sample
        DEF LoopPoll, FreshPress, Names, RingIsShown, LoopAfterRelease,
            ExecutesWhatItShows, ReleaseBeforeExecute
  <2> QED BY <2>1, <2>2, <2>3, <2>4, <2>5
<1>7. CASE PressHeld
  <2>sample. Counted(TRUE)
        BY <1>7, <1>0 DEF PressHeld
  <2>1. Numbers'
        BY <1>7, <2>sample
        DEF PressHeld, LongEnough, OneDelayMore, Counted, RunBound, Numbers,
            PressIsMeasured
  <2>2. Names' /\ LoopAfterRelease'
        BY <1>7, <2>sample
        DEF Counted, PressHeld, LongEnough, OneDelayMore, Names,
            LoopAfterRelease
  <2>3. RingIsShown'
        BY <1>7, <2>sample DEF PressHeld, LongEnough, OneDelayMore, RingIsShown
  <2>4. PressIsMeasured'
        BY <1>7, <2>sample
        DEF PressHeld, LongEnough, OneDelayMore, Counted, RunBound, Numbers,
            PressIsMeasured
  <2>5. ExecutesWhatItShows' /\ ReleaseBeforeExecute'
        BY <1>7, <2>sample
        DEF PressHeld, LongEnough, OneDelayMore, Names, RingIsShown,
            LoopAfterRelease, ExecutesWhatItShows, ReleaseBeforeExecute
  <2> QED BY <2>1, <2>2, <2>3, <2>4, <2>5
<1>8. CASE LongPress
  <2>sample. Counted(TRUE)
        BY <1>8, <1>0 DEF LongPress
  <2>ring. /\ s_mode_ring[mode_idx] \in Modes
           /\ Display(mode_idx) = Meaning[s_mode_ring[mode_idx]]
           /\ Display(mode_idx) # Nothing
        BY DEF Numbers
  <2>1. Numbers'
        BY <1>8, <2>sample
        DEF LongPress, Return, LongEnough, OneDelayMore, Counted, RunBound,
            Numbers, PressIsMeasured
  <2>2. Names' /\ LoopAfterRelease'
        BY <1>8, <2>sample, <2>ring
        DEF LongPress, Return, Counted, Names, LoopAfterRelease
  <2>3. RingIsShown'
        BY <1>8, <2>sample
        DEF LongPress, Return, LongEnough, OneDelayMore, RingIsShown
  <2>4. PressIsMeasured'
        BY <1>8, <2>sample
        DEF LongPress, Return, LongEnough, OneDelayMore, Counted, RunBound,
            Numbers, PressIsMeasured
  <2>5. ExecutesWhatItShows' /\ ReleaseBeforeExecute'
        BY <1>8, <2>ring
        DEF LongPress, Return, Names, RingIsShown, LoopAfterRelease,
            ExecutesWhatItShows, ReleaseBeforeExecute
  <2> QED BY <2>1, <2>2, <2>3, <2>4, <2>5
<1>9. CASE PressReleased
  <2>sample. Counted(FALSE)
        BY <1>9, <1>0 DEF PressReleased
  <2>ring. mode_idx' \in 1 .. 3 /\ shown' = Display(mode_idx')
        BY <1>9 DEF PressReleased, NextMode, ShowMode, RingIsShown, Numbers
  <2>shown. shown' \in Displays
        BY <2>ring
  <2>1. Numbers'
        BY <1>9, <2>sample, <2>ring
        DEF PressReleased, Counted, RunBound, Numbers, PressIsMeasured
  <2>2. Names' /\ LoopAfterRelease'
        BY <1>9, <2>sample, <2>shown
        DEF Counted, PressReleased, Names, LoopAfterRelease
  <2>3. RingIsShown'
        BY <1>9, <2>sample, <2>ring DEF PressReleased, RingIsShown
  <2>4. PressIsMeasured'
        BY <1>9, <2>sample, <2>ring
        DEF PressReleased, Counted, RunBound, Numbers, PressIsMeasured
  <2>5. ExecutesWhatItShows' /\ ReleaseBeforeExecute'
        BY <1>9, <2>sample, <2>ring
        DEF PressReleased, Names, RingIsShown, LoopAfterRelease,
            ExecutesWhatItShows, ReleaseBeforeExecute
  <2> QED BY <2>1, <2>2, <2>3, <2>4, <2>5
<1>10. CASE HoldForGood
  <2>1. Numbers'
        BY <1>10 DEF HoldForGood, Numbers, PressIsMeasured
  <2>2. Names' /\ LoopAfterRelease'
        BY <1>10 DEF HoldForGood, Names, LoopAfterRelease
  <2>3. RingIsShown'
        BY <1>10 DEF HoldForGood, RingIsShown
  <2>4. PressIsMeasured'
        BY <1>10 DEF HoldForGood, Numbers, PressIsMeasured
  <2>5. ExecutesWhatItShows' /\ ReleaseBeforeExecute'
        BY <1>10
        DEF HoldForGood, Names, RingIsShown, LoopAfterRelease,
            ExecutesWhatItShows, ReleaseBeforeExecute
  <2> QED BY <2>1, <2>2, <2>3, <2>4, <2>5
<1>11. CASE UNCHANGED vars
  <2>1. Numbers'
        BY <1>11 DEF vars, Numbers, PressIsMeasured
  <2>2. Names' /\ LoopAfterRelease'
        BY <1>11 DEF vars, Names, LoopAfterRelease
  <2>3. RingIsShown'
        BY <1>11 DEF vars, RingIsShown
  <2>4. PressIsMeasured'
        BY <1>11 DEF vars, Numbers, PressIsMeasured
  <2>5. ExecutesWhatItShows' /\ ReleaseBeforeExecute'
        BY <1>11
        DEF vars, Names, RingIsShown, LoopAfterRelease, ExecutesWhatItShows,
            ReleaseBeforeExecute
  <2> QED BY <2>1, <2>2, <2>3, <2>4, <2>5
<1> QED BY <1>1, <1>2, <1>3, <1>4, <1>5, <1>6, <1>7, <1>8, <1>9, <1>10, <1>11
        DEF Next, Polls

(* SelectorInv is an invariant.                                            *)
LEMMA SelectorInvariant == Spec => []SelectorInv
<1>1. SelectorInv <=> Parts
      BY TypesIsTypeOK DEF SelectorInv, Parts
<1> QED BY <1>1, SelectorInvInit, PartsNext, PTL DEF Spec

(* The type invariant, for every value of the thresholds.                  *)
THEOREM SelectorTypes == Spec => []TypeOK
  BY SelectorInvariant, PTL DEF SelectorInv

(* What the selector executes is what it announced last, or the normal     *)
(* boot of a selector that never armed.                                    *)
THEOREM SelectorExecutes == Spec => []ExecutesWhatItShows
  BY SelectorInvariant, PTL DEF SelectorInv

(* Without a release after arming nothing is executed.                     *)
THEOREM SelectorNeedsRelease == Spec => []ReleaseBeforeExecute
  BY SelectorInvariant, PTL DEF SelectorInv

(* The step that moves the ring ends a press as long as a short one.       *)
LEMMA MoveIsShortPress ==
    SelectorInv /\ [Next]_vars
        => [mode_idx' # mode_idx => run - 1 \in ShortMin .. ShortMax]_vars
<1> SUFFICES ASSUME SelectorInv, Next, mode_idx' # mode_idx
             PROVE  run - 1 \in ShortMin .. ShortMax
    OBVIOUS
<1>1. Numbers /\ RingIsShown /\ PressIsMeasured
      BY TypesIsTypeOK DEF SelectorInv
<1>2. PressReleased /\ IsShortPress
      BY <1>1
      DEF RingIsShown, Next, Polls, BootNormal, GuardPressed, HoldToArm, Armed,
          AwaitRelease, LoopPoll, PressHeld, LongPress, PressReleased, HoldForGood
<1> QED BY <1>1, <1>2, Thresholds
        DEF Numbers, PressIsMeasured, PressReleased, IsShortPress

(* Only a single press of the right length moves the ring.                 *)
THEOREM SelectorMoves == Spec => OnlyShortPressMoves
  BY SelectorInvariant, MoveIsShortPress, PTL DEF Spec, OnlyShortPressMoves
=============================================================================
