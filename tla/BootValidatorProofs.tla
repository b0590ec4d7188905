------------------------ MODULE BootValidatorProofs ------------------------
(***************************************************************************)
(* Proofs about BootValidator, for guests that read any amount and any     *)
(* number of observations.                                                 *)
(***************************************************************************)
EXTENDS BootValidator, TLAPS

Settled == {"screendump", "convert", "conclude", "done"}

\* What the first reading says of the guest while the observation waits.
Waiting ==
    /\ pc = "read before" => ~hasLoaded /\ ~restarted
    /\ pc = "read after" /\ before.answered /\ ~restarted =>
         /\ before.diskread <= diskread
         /\ hasLoaded => before.diskread < diskread
    /\ pc = "read after" /\ stayedFrozen =>
         guest = "frozen" /\ (before.answered => before.diskread = diskread)

\* What the two readings say of it once both are taken.
Compared ==
    pc \in Settled /\ before.answered /\ after.answered =>
        /\ hasLoaded /\ ~restarted => before.diskread < after.diskread
        /\ after.cpu = "idle" => doing \notin {"computing", "spinning"}
        /\ stayedFrozen => after.diskread = before.diskread /\ after.cpu = "idle"

\* What became of the pictures once both steps are over.
Pictured ==
    pc \in {"conclude", "done"} /\ ~noted /\ wantsPng => png \in {NoPicture, ppm}

Judged == pc = "done" => likely_hung = Verdict(before, after)

BootInv == TypeOK /\ Waiting /\ Compared /\ Pictured /\ Judged
-----------------------------------------------------------------------------
\* A reading is well-formed, of the counter as it is, and of a guest that may
\* use the processor that much.
LEMMA ActivityIs ==
    ASSUME TypeOK, NEW reading \in Activity
    PROVE  /\ reading \in Readings
           /\ reading.answered =>
                /\ reading.diskread = diskread
                /\ reading.cpu = "idle" => guest \notin {"computing", "spinning"}
                /\ guest = "frozen" => reading.cpu = "idle"
<1>1. diskread \in Nat /\ guest \in Guests
  BY BootBounds DEF TypeOK
<1>2. NoReading \in Readings /\ ~NoReading.answered
  BY DEF NoReading, Readings
<1>3. CASE reading = NoReading
  BY <1>2, <1>3
<1>4. ASSUME NEW c \in CpuOf[guest],
             reading = [answered |-> TRUE, cpu |-> c, diskread |-> diskread]
      PROVE  /\ reading \in Readings
             /\ reading.diskread = diskread
             /\ reading.cpu = "idle" => guest \notin {"computing", "spinning"}
             /\ guest = "frozen" => reading.cpu = "idle"
  <2>1. c \in IF guest \in {"computing", "spinning"} THEN {"busy"}
              ELSE IF guest = "loading" THEN {"idle", "busy"} ELSE {"idle"}
    BY <1>1, <1>4 DEF CpuOf
  <2> QED
    BY <1>1, <1>4, <2>1 DEF Readings
<1> QED
  BY <1>3, <1>4 DEF Activity

\* Before the first observation there is no reading and no picture.
LEMMA BootInit == Init => BootInv
<1> SUFFICES ASSUME Init PROVE BootInv
  OBVIOUS
<1>1. NoReading \in Readings
  BY DEF NoReading, Readings
<1>2. 0 \in 0..MaxReads /\ 0 \in 0..MaxObservations
  BY BootBounds
<1>3. TypeOK
  BY <1>1, <1>2 DEF Init, TypeOK, Guests, NoPicture, Pictures, Ended
<1>4. Waiting /\ Compared /\ Pictured /\ Judged
  BY DEF Init, Waiting, Compared, Pictured, Judged, Settled
<1> QED
  BY <1>3, <1>4 DEF BootInv

\* The guest going on, and whoever starts and stops it, respect the invariant.
LEMMA GuestStep == BootInv /\ (Start \/ Stop \/ Load \/ Turn) => BootInv'
<1> SUFFICES ASSUME BootInv, Start \/ Stop \/ Load \/ Turn PROVE BootInv'
  OBVIOUS
<1>1. TypeOK /\ diskread \in Nat /\ MaxReads \in Nat
  BY BootBounds DEF BootInv, TypeOK
<1>2. before.diskread \in Nat
  BY <1>1 DEF TypeOK, Readings
<1>3. Compared' /\ Pictured' /\ Judged'
  <2>1. UNCHANGED <<pc, before, after, ppm, png, wantsPng, noted, likely_hung, doing>>
    BY DEF Start, Stop, Load, Turn, pictures, readings, history
  <2>2. ~(pc = "read after") => UNCHANGED <<hasLoaded, restarted, stayedFrozen>>
    BY <1>1 DEF Start, Stop, Load, Turn, history, Settling, TypeOK
  <2>3. Verdict(before, after)' = Verdict(before, after)
    BY <2>1 DEF Verdict
  <2>4. Compared'
    <3>1. pc \in Settled => UNCHANGED <<hasLoaded, restarted, stayedFrozen>>
      BY <2>2 DEF Settled
    <3> QED
      BY <2>1, <3>1 DEF BootInv, Compared
  <2>5. Pictured'
    BY <2>1 DEF BootInv, Pictured
  <2>6. Judged'
    BY <2>1, <2>3 DEF BootInv, Judged
  <2> QED
    BY <2>4, <2>5, <2>6
<1>4. CASE Start
  <2>1. TypeOK'
    BY <1>1, <1>4 DEF Start, TypeOK, Guests, Alive, pictures, readings, Settling
  <2>2. Waiting'
    BY <1>1, <1>4 DEF BootInv, Start, Waiting, readings, Settling
  <2> QED
    BY <1>3, <2>1, <2>2 DEF BootInv
<1>5. CASE Stop
  <2>3. restarted' \in BOOLEAN /\ stayedFrozen' \in BOOLEAN
    BY <1>5, Zenon DEF Stop
  <2>4. guest' \in Guests /\ diskread' \in 0..MaxReads /\ diskread' = 0
    BY <1>1, <1>5 DEF Stop, Guests
  <2>1. TypeOK'
    BY <1>1, <1>5, <2>3, <2>4 DEF Stop, TypeOK, pictures, readings
  <2>2. Waiting'
    BY <1>1, <1>5 DEF BootInv, Stop, Waiting, readings, Settling
  <2> QED
    BY <1>3, <2>1, <2>2 DEF BootInv
<1>6. CASE Load
  <2>3. hasLoaded' \in BOOLEAN
    BY <1>6, Zenon DEF Load
  <2>4. diskread' \in 0..MaxReads /\ diskread < diskread' /\ guest # "off" /\ guest # "frozen"
    BY <1>1, <1>6 DEF Load, TypeOK
  <2>1. TypeOK'
    BY <1>1, <1>6, <2>3, <2>4 DEF Load, TypeOK, pictures, readings
  <2>2. Waiting'
    <3>1. /\ pc' = pc /\ before' = before /\ restarted' = restarted
          /\ stayedFrozen' = stayedFrozen /\ guest' = guest
      BY <1>6 DEF Load, readings
    <3>2. pc = "read before" => ~hasLoaded' /\ ~restarted
      BY <1>6, Zenon DEF BootInv, Waiting, Load, Settling
    <3>5. before.diskread <= diskread => before.diskread < diskread' /\ before.diskread <= diskread'
      BY <1>1, <1>2, <2>4
    <3>3. pc = "read after" /\ before.answered /\ ~restarted
            => before.diskread < diskread' /\ before.diskread <= diskread'
      BY <3>5, Zenon DEF BootInv, Waiting
    <3>4. ~(pc = "read after" /\ stayedFrozen)
      BY <2>4 DEF BootInv, Waiting
    <3> QED
      BY <3>1, <3>2, <3>3, <3>4, Zenon DEF Waiting
  <2> QED
    BY <1>3, <2>1, <2>2 DEF BootInv
<1>7. CASE Turn
  <2>1. TypeOK'
    BY <1>1, <1>7 DEF Turn, TypeOK, Guests, pictures, readings, history
  <2>2. Waiting'
    BY <1>1, <1>7 DEF BootInv, Turn, Waiting, Alive, readings, history
  <2> QED
    BY <1>3, <2>1, <2>2 DEF BootInv
<1> QED
  BY <1>4, <1>5, <1>6, <1>7

\* Every step of an observation does.
LEMMA ObserveStep == BootInv /\ (Begin \/ Observe) => BootInv'
<1> SUFFICES ASSUME BootInv, Begin \/ Observe PROVE BootInv'
  OBVIOUS
<1> USE DEF BootInv
<1>1. TypeOK /\ diskread \in Nat /\ observations \in Nat
  BY BootBounds DEF TypeOK
<1>2. CASE Begin
  <2>2. NoReading \in Readings
    BY DEF NoReading, Readings
  <2>5. observations' \in 0..MaxObservations
    <3>1. observations < MaxObservations /\ observations' = observations + 1
      BY <1>2, Zenon DEF Begin
    <3> QED
      BY <1>1, <3>1, BootBounds
  <2>6. ppm' \in Pictures /\ png' \in Pictures
    BY <1>1, <1>2 DEF Begin, TypeOK, pictures
  <2>3. TypeOK'
    BY <1>1, <1>2, <2>2, <2>5, <2>6 DEF Begin, TypeOK, Guests, Steps, theGuest
  <2>4. Waiting' /\ Compared' /\ Pictured' /\ Judged'
    BY <1>2 DEF Begin, Waiting, Compared, Pictured, Judged, Settled
  <2> QED
    BY <2>3, <2>4
<1>3. CASE ReadBefore
  <2>1. before' \in Activity
    BY <1>3 DEF ReadBefore
  <2>2. /\ before' \in Readings
        /\ before'.answered => before'.diskread = diskread
    BY <1>1, <2>1, ActivityIs
  <2>3. TypeOK'
    BY <1>1, <1>3, <2>2 DEF ReadBefore, TypeOK, Steps, theGuest, pictures
  <2>4. Waiting'
    <3>1. pc' = "read after" /\ ~hasLoaded' /\ diskread' = diskread /\ guest' = guest
      BY <1>3 DEF ReadBefore, Waiting, theGuest
    <3>2. stayedFrozen' => guest = "frozen"
      BY <1>3, Zenon DEF ReadBefore
    <3>3. before'.answered => before'.diskread = diskread' /\ before'.diskread <= diskread'
      <4>1. diskread <= diskread
        BY <1>1
      <4> QED
        BY <2>2, <3>1, <4>1, Zenon
    <3> QED
      BY <3>1, <3>2, <3>3, Zenon DEF Waiting
  <2>5. Compared' /\ Pictured' /\ Judged'
    BY <1>3 DEF ReadBefore, Compared, Pictured, Judged, Settled
  <2> QED
    BY <2>3, <2>4, <2>5
<1>4. CASE ReadAfter
  <2>1. after' \in Activity
    BY <1>4 DEF ReadAfter
  <2>2. /\ after' \in Readings
        /\ after'.answered =>
             /\ after'.diskread = diskread
             /\ after'.cpu = "idle" => guest \notin {"computing", "spinning"}
             /\ guest = "frozen" => after'.cpu = "idle"
    BY <1>1, <2>1, ActivityIs
  <2>3. TypeOK'
    BY <1>1, <1>4, <2>2 DEF ReadAfter, TypeOK, Steps, theGuest, pictures
  <2>4. Compared'
    BY <1>1, <1>4, <2>2 DEF ReadAfter, Waiting, Compared
  <2>5. Waiting' /\ Pictured' /\ Judged'
    BY <1>4 DEF ReadAfter, Waiting, Pictured, Judged
  <2> QED
    BY <2>3, <2>4, <2>5
<1>5. CASE Screendump
  <2>5. ppm' \in Pictures
    <3>1. ppm' \in {ppm, NoPicture, observations}
      BY <1>5 DEF Screendump, Dumped
    <3> QED
      BY <1>1, <3>1, BootBounds DEF TypeOK, Pictures, NoPicture
  <2>1. TypeOK'
    BY <1>1, <1>5, <2>5 DEF Screendump, TypeOK, Steps, Ended, theGuest, readings, history
  <2>2. Waiting' /\ Judged'
    BY <1>1, <1>5 DEF Screendump, Waiting, Judged
  <2>3. Compared'
    BY <1>5 DEF Screendump, Compared, Settled, readings, history
  <2>4. Pictured'
    BY <1>5 DEF Screendump, Pictured
  <2> QED
    BY <2>1, <2>2, <2>3, <2>4
<1>6. CASE Convert
  <2>5. png' \in Pictures
    <3>1. png' \in {png, NoPicture, ppm}
      BY <1>6 DEF Convert
    <3> QED
      BY <1>1, <3>1, BootBounds DEF TypeOK, Pictures, NoPicture
  <2>1. TypeOK'
    BY <1>1, <1>6, <2>5 DEF Convert, TypeOK, Steps, Ended, theGuest, readings, history
  <2>2. Waiting' /\ Judged'
    BY <1>6 DEF Convert, Waiting, Judged
  <2>3. Compared'
    BY <1>6 DEF Convert, Compared, Settled, readings, history
  <2>4. Pictured'
    BY <1>6 DEF Convert, Pictured
  <2> QED
    BY <2>1, <2>2, <2>3, <2>4
<1>7. CASE Conclude
  <2>1. Verdict(before, after) \in {"yes", "no", "unknown"}
    BY DEF Verdict
  <2>2. TypeOK'
    BY <1>1, <1>7, <2>1 DEF Conclude, TypeOK, Ended, theGuest, pictures, readings, history
  <2>3. Verdict(before, after)' = Verdict(before, after)
    BY <1>7 DEF Conclude, readings, Verdict
  <2>4. Waiting' /\ Judged'
    BY <1>7, <2>3 DEF Conclude, Waiting, Judged
  <2>5. Compared'
    BY <1>7 DEF Conclude, Compared, Settled, readings, history
  <2>6. Pictured'
    BY <1>7 DEF Conclude, Pictured, pictures
  <2> QED
    BY <2>2, <2>4, <2>5, <2>6
<1> QED
  BY <1>2, <1>3, <1>4, <1>5, <1>6, <1>7 DEF Observe

\* The invariant holds in every reachable state.
LEMMA BootInvariant == Spec => []BootInv
<1>1. BootInv /\ UNCHANGED vars => BootInv'
  <2> SUFFICES ASSUME BootInv, UNCHANGED vars PROVE BootInv'
    OBVIOUS
  <2>1. Verdict(before, after)' = Verdict(before, after)
    BY DEF vars, Verdict
  <2> QED
    <3>1. TypeOK'
      BY DEF BootInv, vars, TypeOK
    <3>2. Waiting' /\ Compared'
      BY DEF BootInv, vars, Waiting, Compared
    <3>3. Pictured' /\ Judged'
      BY <2>1 DEF BootInv, vars, Pictured, Judged
    <3> QED
      BY <3>1, <3>2, <3>3 DEF BootInv
<1>2. BootInv /\ [Next]_vars => BootInv'
  BY <1>1, GuestStep, ObserveStep DEF Next
<1> QED
  BY <1>2, BootInit, PTL DEF Spec

\* observe_boot and the guest stay well-formed; in particular a stopped VM has
\* no counter, however often it is stopped and started.
THEOREM BootTyping == Spec => []TypeOK
<1>1. BootInv => TypeOK
  BY DEF BootInv
<1> QED
  BY <1>1, BootInvariant, PTL

\* A VM called hung was quiet: a guest that went on reading between the two
\* readings, or was computing at the second, is never called hung
\* (boot_validator.py 102-106, 125-131).
THEOREM HungVmWasQuiet == Spec => []HungMeansQuiet
<1>1. BootInv => HungMeansQuiet
  <2> SUFFICES ASSUME BootInv, pc = "done", likely_hung = "yes"
               PROVE  /\ hasLoaded => restarted
                      /\ doing \notin {"computing", "spinning"}
    BY DEF HungMeansQuiet
  <2>1. Verdict(before, after) = "yes"
    BY DEF BootInv, Judged
  <2>2. before.diskread \in Nat /\ after.diskread \in Nat
    BY DEF BootInv, TypeOK, Readings
  <2>3. /\ before.answered /\ after.answered
        /\ after.diskread - before.diskread = 0 /\ after.cpu = "idle"
    BY <2>1, Zenon DEF Verdict
  <2> QED
    BY <2>2, <2>3 DEF BootInv, Compared, Settled
<1> QED
  BY <1>1, BootInvariant, PTL

\* A guest that froze before the first reading is found, whatever it had read
\* by then (boot_validator.py 123-131).
THEOREM FrozenGuestIsFound == Spec => []FrozenIsFound
<1>1. BootInv => FrozenIsFound
  <2> SUFFICES ASSUME BootInv, pc = "done", stayedFrozen, before.answered, after.answered
               PROVE  likely_hung = "yes"
    BY DEF FrozenIsFound
  <2>1. after.diskread = before.diskread /\ after.cpu = "idle"
    BY DEF BootInv, Compared, Settled
  <2>2. after.diskread - before.diskread = 0
    BY <2>1 DEF BootInv, TypeOK, Readings
  <2>3. Verdict(before, after) = "yes"
    BY <2>1, <2>2 DEF Verdict
  <2> QED
    BY <2>3 DEF BootInv, Judged
<1> QED
  BY <1>1, BootInvariant, PTL

\* A PNG returned without a note shows what the PPM shows, or nothing: none of
\* an earlier observation is left standing for it (boot_validator.py 83-92,
\* 118-120, 135).
THEOREM PngIsNotLeftOver == Spec => []PngShowsThePpm
<1>1. BootInv => PngShowsThePpm
  BY DEF BootInv, Pictured, PngShowsThePpm
<1> QED
  BY <1>1, BootInvariant, PTL
=============================================================================
