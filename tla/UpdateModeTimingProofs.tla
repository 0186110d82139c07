--------------------- MODULE UpdateModeTimingProofs ---------------------
(***************************************************************************)
(* The clock of UpdateModeTiming changes nothing about the session, and    *)
(* bounds the wait for a payload, for every timeout.                       *)
(***************************************************************************)
EXTENDS UpdateModeTiming, UpdateModeProofs

(* The clock of a payload is the code's own: no byte restarts it.          *)
ClockIsWaited ==
    /\ elapsed \in 0 .. ElapsedBound
    /\ phase = "payload" => elapsed = waited

TimingInv == TypeOK /\ ClockIsWaited

(* The smaller of the time and its bound.                                  *)
LEMMA CappedClock ==
    ASSUME NEW t \in Nat
    PROVE  /\ Min({t, ElapsedBound}) \in 0 .. ElapsedBound
           /\ t <= ElapsedBound => Min({t, ElapsedBound}) = t
<1>1. ElapsedBound \in Nat
      BY LimitsAssumption DEF ElapsedBound
<1>2. Min({t, ElapsedBound}) = IF t <= ElapsedBound THEN t ELSE ElapsedBound
      BY <1>1 DEF Min
<1> QED BY <1>1, <1>2

(* What a step does to the clock: a new wait starts at zero, and nothing   *)
(* but a poll moves the clock of a wait that goes on.                      *)
LEMMA ClockStep ==
    ASSUME ClockIsWaited, NEW ms \in {0, 1}, Clock(ms)
    PROVE  /\ elapsed' \in 0 .. ElapsedBound
           /\ WaitBegins => elapsed' = 0
           /\ ~WaitBegins /\ elapsed < Timeout => elapsed' = elapsed + ms
<1>1. ElapsedBound = Timeout + 1 /\ Timeout \in Nat
      BY LimitsAssumption DEF ElapsedBound
<1>2. elapsed \in Nat /\ elapsed + ms \in Nat
      BY <1>1 DEF ClockIsWaited
<1>3. CASE WaitBegins
      BY <1>1, <1>3 DEF Clock
<1>4. CASE ~WaitBegins
  <2>1. elapsed' = Min({elapsed + ms, ElapsedBound})
        BY <1>4 DEF Clock
  <2>2. elapsed < Timeout => elapsed + ms <= ElapsedBound
        BY <1>1, <1>2
  <2> QED BY <1>2, <1>4, <2>1, <2>2, CappedClock
<1> QED BY <1>3, <1>4

(* A step into or inside of a payload wait: the first is a header's, in    *)
(* the others a byte leaves waited_ms as it is and a poll adds to it.      *)
Begins == phase # "payload" /\ waited' = 0
Continues(ms) == phase = "payload" /\ out' = <<>> /\ waited' = waited + ms

LEMMA IntoPayload ==
    ASSUME TypeOK, phase' = "payload"
    PROVE  /\ Wait => Continues(1)
           /\ Receive => Begins \/ Continues(0)
           /\ ~Call /\ ~Work
<1> USE DEF Fail, Return, NextChunk, LineFails, Begins, Continues
<1>1. waited = waited + 0
      BY LimitsAssumption DEF TypeOK
<1>2. ~Call
      BY DEF Call, RefuseSetup, Enter
<1>3. Wait => Continues(1)
      BY DEF Wait, LineIdle, PayloadIdle
<1>4. Receive => Begins \/ Continues(0)
      BY <1>1
      DEF Receive, LineByte, LineComplete, StartLine, EndLine, BadHeader, HeaderLine,
          PayloadByte, WaitedAfterPayloadByte
<1>5. ~Work
      BY DEF Work, SkipErased, EraseSector, NextSector, EraseFails, WriteChunk,
             WriteFails, Verify
<1> QED BY <1>2, <1>3, <1>4, <1>5

LEMMA TimingStep == TimingInv /\ [TimingNext]_timingVars => ClockIsWaited'
<1> SUFFICES ASSUME TimingInv, TimingNext \/ UNCHANGED timingVars
             PROVE  ClockIsWaited'
    OBVIOUS
<1>1. waited \in 0 .. Timeout - 1 /\ Timeout \in Nat /\ ClockIsWaited /\ TypeOK
      BY LimitsAssumption DEF TimingInv, TypeOK
<1>2. ASSUME NEW ms \in {0, 1}, Clock(ms),
             phase' = "payload" => Begins \/ Continues(ms)
      PROVE  ClockIsWaited'
  <2>1. /\ elapsed' \in 0 .. ElapsedBound
        /\ WaitBegins => elapsed' = 0
        /\ ~WaitBegins /\ elapsed < Timeout => elapsed' = elapsed + ms
        BY <1>1, <1>2, ClockStep
  <2>2. ASSUME phase' = "payload" PROVE elapsed' = waited'
        BY <1>1, <1>2, <2>1, <2>2 DEF Begins, Continues, WaitBegins, ClockIsWaited
  <2> QED BY <2>1, <2>2 DEF ClockIsWaited, ElapsedBound
<1>3. CASE Poll
      BY <1>1, <1>2, <1>3, IntoPayload DEF Poll
<1>4. CASE HostTalks
      BY <1>1, <1>2, <1>4, IntoPayload DEF HostTalks
<1>5. CASE Compute \/ Called
      BY <1>1, <1>2, <1>5, IntoPayload DEF Compute, Called
<1>6. CASE HostFallsSilent \/ UNCHANGED timingVars
      BY <1>1, <1>6
      DEF HostFallsSilent, timingVars, vars, locals, ClockIsWaited, ElapsedBound
<1> QED BY <1>3, <1>4, <1>5, <1>6 DEF TimingNext

LEMMA TimingStart == TimingInit => ClockIsWaited
<1>1. ElapsedBound \in Nat
      BY LimitsAssumption DEF ElapsedBound
<1> QED BY <1>1 DEF TimingInit, Init, ClockIsWaited

(* A clock beside it and a host that may fall silent change nothing about  *)
(* the session: what is proved of it holds here.                           *)
THEOREM TimingImplementsSession == TimingSpec => Spec
<1>1. TimingInit => Init
      BY DEF TimingInit
<1>2. [TimingNext]_timingVars => [Next]_vars
      BY DEF TimingNext, Poll, Compute, Called, HostTalks, HostFallsSilent, Next,
             timingVars
<1> QED BY <1>1, <1>2, PTL DEF TimingSpec, Spec

(* A wait for a payload that goes on is shorter than the timeout, for      *)
(* every host, however slowly its bytes come.                              *)
THEOREM PayloadWaits == TimingSpec => []PayloadWaitBounded
<1>1. TimingSpec => []TypeOK
      BY TimingImplementsSession, UpdateTypes
<1>2. TypeOK /\ ClockIsWaited => PayloadWaitBounded
      BY LimitsAssumption DEF TypeOK, ClockIsWaited, PayloadWaitBounded
<1>3. TypeOK /\ ClockIsWaited /\ [TimingNext]_timingVars => ClockIsWaited'
      BY TimingStep DEF TimingInv
<1> QED BY <1>1, <1>2, <1>3, TimingStart, PTL DEF TimingSpec
=============================================================================
