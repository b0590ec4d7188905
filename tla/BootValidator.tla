--------------------------- MODULE BootValidator ---------------------------
(***************************************************************************)
(* observe_boot of pipeline/boot_validator.py, one action per command it   *)
(* runs, while the guest it looks at goes on, hangs, is stopped and is     *)
(* started again.  Observations of one VM follow each other and use the    *)
(* same paths for their pictures.                                          *)
(***************************************************************************)
EXTENDS Integers

CONSTANTS
    MaxReads,          \* bound on what a guest reads after one start
    MaxObservations    \* bound on the number of observations

ASSUME BootBounds == MaxReads \in Nat /\ MaxObservations \in Nat

VARIABLES
    guest,         \* what the guest is doing
    diskread,      \* QEMU's counter of what it has read since it was started
    ppm, png,      \* the observation whose picture is at each of the two paths
    pc,            \* the command observe_boot runs next, or how it ended
    observations,  \* how many observations were begun
    wantsPng,      \* whether the caller gave a path for a PNG
    before, after, \* the two readings
    noted,         \* whether the notes say that the screendump failed
    likely_hung,   \* the verdict
    hasLoaded,     \* between the two readings: whether the guest read anything,
    restarted,     \* whether it was stopped or started,
    stayedFrozen,  \* whether it was frozen at the first and until the second,
    doing          \* and what it was doing at the second

theGuest == <<guest, diskread>>
pictures == <<ppm, png>>
readings == <<before, after>>
history == <<hasLoaded, restarted, stayedFrozen, doing>>
vars == <<guest, diskread, ppm, png, pc, observations, wantsPng, before, after,
          noted, likely_hung, hasLoaded, restarted, stayedFrozen, doing>>

\* A guest makes progress with or without its disk, waits for a key or for
\* nothing, or is hung: frozen, or spinning in a loop.
Alive == {"loading", "computing", "waiting"}
Guests == Alive \cup {"frozen", "spinning", "off"}

Ended == {"idle", "done", "raised"}
Steps == {"read before", "read after", "screendump", "convert", "conclude"}

\* A picture is known by the number of the observation it was taken in.  No
\* picture is a file that is not there, is empty or was cut off.
NoPicture == 0
Pictures == 0..MaxObservations

Readings == [answered : BOOLEAN, cpu : {"idle", "busy"}, diskread : Nat]
NoReading == [answered |-> FALSE, cpu |-> "idle", diskread |-> 0]

TypeOK ==
    /\ guest \in Guests /\ diskread \in 0..MaxReads
    /\ guest = "off" => diskread = 0
    /\ ppm \in Pictures /\ png \in Pictures
    /\ pc \in Steps \cup Ended
    /\ observations \in 0..MaxObservations /\ wantsPng \in BOOLEAN
    /\ before \in Readings /\ after \in Readings
    /\ noted \in BOOLEAN
    /\ likely_hung \in {"yes", "no", "unknown"}
    /\ hasLoaded \in BOOLEAN /\ restarted \in BOOLEAN /\ stayedFrozen \in BOOLEAN
    /\ doing \in Guests
-----------------------------------------------------------------------------
Init ==
    /\ guest = "off" /\ diskread = 0
    /\ ppm = NoPicture /\ png = NoPicture
    /\ pc = "idle" /\ observations = 0 /\ wantsPng = FALSE
    /\ before = NoReading /\ after = NoReading
    /\ noted = FALSE /\ likely_hung = "unknown"
    /\ hasLoaded = FALSE /\ restarted = FALSE /\ stayedFrozen = FALSE /\ doing = "off"

Settling == pc = "read after"

\* start(), and anybody else's qm start.
Start ==
    /\ guest = "off"
    /\ guest' = "loading" /\ restarted' = (restarted \/ Settling)
    /\ UNCHANGED <<diskread, pictures, pc, observations, wantsPng, readings, noted, likely_hung,
                   hasLoaded, stayedFrozen, doing>>

\* stop(): the counter ends with the process.  A stopped VM is reported with
\* diskread 0 and cpu 0.
Stop ==
    /\ guest # "off"
    /\ guest' = "off" /\ diskread' = 0
    /\ restarted' = (restarted \/ Settling) /\ stayedFrozen' = (stayedFrozen /\ ~Settling)
    /\ UNCHANGED <<pictures, pc, observations, wantsPng, readings, noted, likely_hung,
                   hasLoaded, doing>>

Load ==
    /\ guest = "loading" /\ diskread < MaxReads
    /\ diskread' = diskread + 1 /\ hasLoaded' = (hasLoaded \/ Settling)
    /\ UNCHANGED <<guest, pictures, pc, observations, wantsPng, readings, noted, likely_hung,
                   restarted, stayedFrozen, doing>>

\* The guest goes on to something else, or hangs.
Turn ==
    /\ guest \in Alive
    /\ guest' \in Guests \ {guest, "off"}
    /\ UNCHANGED <<diskread, pictures, pc, observations, wantsPng, readings, noted, likely_hung,
                   history>>
-----------------------------------------------------------------------------
Begin ==
    /\ pc \in Ended /\ observations < MaxObservations
    /\ pc' = "read before" /\ observations' = observations + 1
    /\ wantsPng' \in BOOLEAN
    /\ before' = NoReading /\ after' = NoReading
    /\ noted' = FALSE /\ likely_hung' = "unknown"
    /\ hasLoaded' = FALSE /\ restarted' = FALSE /\ stayedFrozen' = FALSE /\ doing' = "off"
    /\ UNCHANGED <<theGuest, pictures>>

\* What pvesh can say of the VM.  One that reads may be at 0% for a while.
CpuOf == [g \in Guests |->
            IF g \in {"computing", "spinning"} THEN {"busy"}
            ELSE IF g = "loading" THEN {"idle", "busy"} ELSE {"idle"}]

\* (Mutant: a counter that a stopped VM does not have is -1.)
ActivityOrMinusOne ==
    {NoReading} \cup
    {[answered |-> TRUE, cpu |-> c, diskread |-> IF guest = "off" THEN -1 ELSE diskread] :
        c \in CpuOf[guest]}

\* _read_activity: None when pvesh fails, times out or prints no object.
Activity ==
    {NoReading} \cup {[answered |-> TRUE, cpu |-> c, diskread |-> diskread] : c \in CpuOf[guest]}

ReadBefore ==
    /\ pc = "read before"
    /\ before' \in Activity
    /\ pc' = "read after"
    /\ stayedFrozen' = (guest = "frozen")
    /\ UNCHANGED <<theGuest, pictures, observations, wantsPng, after, noted, likely_hung,
                   hasLoaded, restarted, doing>>

\* After the settle time.
ReadAfter ==
    /\ pc = "read after"
    /\ after' \in Activity
    /\ pc' = "screendump"
    /\ doing' = guest
    /\ UNCHANGED <<theGuest, pictures, observations, wantsPng, before, noted, likely_hung,
                   hasLoaded, restarted, stayedFrozen>>

\* What qm monitor leaves at the PPM's path, whatever it exits with: a refused
\* or unfinished screendump shows in its output at most.
Dumped == IF guest = "off" THEN {ppm} ELSE {ppm, NoPicture, observations}

\* (Mutant: only a running VM has a monitor, and there is no time limit.)
ScreendumpOfRunning ==
    /\ pc = "screendump" /\ guest # "off"
    /\ ppm' \in Dumped
    /\ \/ pc' = (IF wantsPng THEN "convert" ELSE "conclude") /\ UNCHANGED noted
       \/ pc' = "conclude" /\ noted' = TRUE
    /\ UNCHANGED <<theGuest, png, observations, wantsPng, readings, likely_hung, history>>

\* The exit code is all that is looked at: 0 leads on, anything else to the
\* note.  The time limit is not caught and ends observe_boot.
Screendump ==
    /\ pc = "screendump"
    /\ ppm' \in Dumped
    /\ \/ pc' = (IF wantsPng THEN "convert" ELSE "conclude") /\ UNCHANGED noted
       \/ pc' = "conclude" /\ noted' = TRUE
       \/ pc' = "raised" /\ UNCHANGED noted
    /\ UNCHANGED <<theGuest, png, observations, wantsPng, readings, likely_hung, history>>

\* (Mutant: the PNG is left alone when pnmtopng is not installed.)
ConvertIfInstalled ==
    /\ pc = "convert"
    /\ png' \in {png, ppm} /\ pc' = "conclude"
    /\ UNCHANGED <<theGuest, ppm, observations, wantsPng, readings, noted, likely_hung, history>>

\* The PNG is opened, and so emptied, before pnmtopng is looked for, and shows
\* what the PPM shows if pnmtopng gets to its end; what that exits with is
\* ignored.  Its time limit, and a PNG that cannot be opened, are not caught.
Convert ==
    /\ pc = "convert"
    /\ \/ png' \in {NoPicture, ppm} /\ pc' = "conclude"
       \/ png' \in {png, NoPicture, ppm} /\ pc' = "raised"
    /\ UNCHANGED <<theGuest, ppm, observations, wantsPng, readings, noted, likely_hung, history>>

\* (Mutant: the processor is not looked at.)
VerdictOnDisk(first, second) ==
    IF ~first.answered \/ ~second.answered THEN "unknown"
    ELSE IF second.diskread - first.diskread = 0 THEN "yes" ELSE "no"

\* (Mutant: what counts is that nothing was ever read.)
VerdictOnCounter(first, second) ==
    IF ~first.answered \/ ~second.answered THEN "unknown"
    ELSE IF second.diskread = 0 /\ second.cpu = "idle" THEN "yes" ELSE "no"

Verdict(first, second) ==
    IF ~first.answered \/ ~second.answered THEN "unknown"
    ELSE IF second.diskread - first.diskread = 0 /\ second.cpu = "idle" THEN "yes" ELSE "no"

Conclude ==
    /\ pc = "conclude"
    /\ pc' = "done"
    /\ likely_hung' = Verdict(before, after)
    /\ UNCHANGED <<theGuest, pictures, observations, wantsPng, readings, noted, history>>

Observe == ReadBefore \/ ReadAfter \/ Screendump \/ Convert \/ Conclude

Next == Start \/ Stop \/ Load \/ Turn \/ Begin \/ Observe

Spec == Init /\ [][Next]_vars

\* pvesh, qm monitor and pnmtopng all have time limits, and the sleep ends.
FairSpec == Spec /\ WF_vars(Observe)
-----------------------------------------------------------------------------
\* A VM that is called hung read nothing between the two readings, and was not
\* computing at the second: a boot that makes progress is not taken for a hang
\* (docstring, boot_validator.py 102-106), one that waits throughout is.  That
\* needs that nobody restarted it meanwhile: the counter then starts anew and
\* may come out the same.
HungMeansQuiet ==
    pc = "done" /\ likely_hung = "yes"
      => /\ hasLoaded => restarted
         /\ doing \notin {"computing", "spinning"}

\* A guest that was frozen from the first reading to the second is called hung
\* as soon as both readings were answered, however much it had read before it
\* froze (observe_boot, boot_validator.py 123-131).
FrozenIsFound ==
    pc = "done" /\ stayedFrozen /\ before.answered /\ after.answered
      => likely_hung = "yes"

\* A PNG returned without a note that the screendump failed shows the same as
\* the PPM it stands for, or nothing: if it could not be made, the one of an
\* earlier observation is gone (boot_validator.py 83-92, 118-120, 135).  Of
\* which observation the PPM is, the code does not know: it has the exit code
\* of qm monitor only.
PngShowsThePpm ==
    pc = "done" /\ ~noted /\ wantsPng => png \in {NoPicture, ppm}

\* An observation that was begun ends, with a result or an exception, whatever
\* the guest does: also when it is off and has no monitor.
ObservationEnds == pc \in Steps ~> pc \in Ended
=============================================================================
