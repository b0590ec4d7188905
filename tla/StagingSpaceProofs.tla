-------------------------- MODULE StagingSpaceProofs --------------------------
(***************************************************************************)
(* Proofs about the room on the staging file system, for any number of     *)
(* processes, VMs with any files, and any number of calls, failures and    *)
(* kills: a copy that was checked fits, and a file system with room for    *)
(* what every run may leave once never needs to be cleaned up.             *)
(***************************************************************************)
EXTENDS StagingProofs

Sizes(r) == [i \in DOMAIN Vm(r).files |-> File(r, i).size]

\* The sizes of a VM's files add up to at least each of them.
LEMMA SizesFacts ==
    ASSUME plan \in Plans, NEW r \in Runs
    PROVE  /\ IsFiniteSet(DOMAIN Vm(r).files) /\ DOMAIN Vm(r).files \subseteq Nat \ {0}
           /\ \A i \in DOMAIN Vm(r).files : Sizes(r)[i] = File(r, i).size /\ Sizes(r)[i] \in Nat \ {0}
           /\ SizeOfAll(Vm(r)) = SumFunctionOnSet(Sizes(r), DOMAIN Vm(r).files)
           /\ SizeOfAll(Vm(r)) \in Nat \ {0}
           /\ \A i \in DOMAIN Vm(r).files : File(r, i).size <= SizeOfAll(Vm(r))
<1> DEFINE all == DOMAIN Vm(r).files
<1>1. Vm(r).files \in Seq(Files) /\ WithRole(Vm(r).files, "base_descriptor") # {}
  BY PlanFacts
<1>2. PICK n \in Nat : all = 1..n
  BY <1>1
<1>3. IsFiniteSet(all) /\ all \subseteq Nat \ {0}
  <2>1. IsFiniteSet(1..n)
    BY FS_Interval
  <2>2. 1..n \subseteq Nat \ {0}
    OBVIOUS
  <2> HIDE DEF all
  <2> QED
    BY <1>2, <2>1, <2>2
<1>4. \A i \in all : Sizes(r)[i] = File(r, i).size /\ Sizes(r)[i] \in Nat \ {0}
  BY FileFacts DEF Sizes
<1>5. SizeOfAll(Vm(r)) = SumFunctionOnSet(Sizes(r), all)
  BY Zenon DEF SizeOfAll, SumFunction, Sizes, File
<1>6. ASSUME NEW i \in all
      PROVE  File(r, i).size <= SizeOfAll(Vm(r)) /\ SizeOfAll(Vm(r)) \in Nat \ {0}
  <2>1. IsFiniteSet(all \ {i}) /\ \A j \in all \ {i} : Sizes(r)[j] \in Nat
    BY <1>3, <1>4, FS_Subset
  <2>2. SumFunctionOnSet(Sizes(r), all \ {i}) \in Nat
    BY <2>1, SumIsNat
  <2>3. SumFunctionOnSet(Sizes(r), all) = Sizes(r)[i] + SumFunctionOnSet(Sizes(r), all \ {i})
    BY <1>3, <1>4, SumTakesOut
  <2> QED
    BY <1>4, <1>5, <2>2, <2>3
<1>7. \E i : i \in all
  BY <1>1 DEF WithRole
<1> QED
  BY <1>3, <1>4, <1>5, <1>6, <1>7

\* What is required is the sum over the files whose sizes are known.
LEMMA RequiredFacts ==
    ASSUME plan \in Plans, NEW r \in Runs, NEW unknown
    PROVE  /\ Required(r, unknown) = SumFunctionOnSet(Sizes(r), DOMAIN Vm(r).files \ unknown)
           /\ Required(r, unknown) \in Nat /\ Required(r, unknown) <= SizeOfAll(Vm(r))
<1> DEFINE all == DOMAIN Vm(r).files
           known == [i \in all \ unknown |-> Vm(r).files[i].size]
<1>1. IsFiniteSet(all) /\ \A i \in all : Sizes(r)[i] = File(r, i).size /\ Sizes(r)[i] \in Nat
  BY SizesFacts
<1>2. IsFiniteSet(all \ unknown)
  BY <1>1, FS_Subset
<1>3. Required(r, unknown) = SumFunctionOnSet(known, all \ unknown)
  BY Zenon DEF Required, SumFunction
<1>4. \A i \in all \ unknown : Sizes(r)[i] \in Nat /\ known[i] = Sizes(r)[i]
  BY <1>1 DEF File
<1>5. SumFunctionOnSet(Sizes(r), all \ unknown) = SumFunctionOnSet(known, all \ unknown)
  <2> HIDE DEF known
  <2> QED
    BY <1>2, <1>4, SumsAgree
<1>6. /\ SumFunctionOnSet(Sizes(r), all \ unknown) \in Nat
      /\ SumFunctionOnSet(Sizes(r), all \ unknown) <= SumFunctionOnSet(Sizes(r), all)
  BY <1>1, <1>2, <1>4, SumIsNat, SumOfPart
<1> QED
  BY <1>3, <1>5, <1>6, SizesFacts

\* The margin of the check is at least nothing, and at most all of it again.
LEMMA SufficientFacts ==
    ASSUME NEW n \in Nat, NEW m \in Nat
    PROVE  /\ Sufficient(n, m) => m < n
           /\ 2 * m < n => Sufficient(n, m)
<1>1. (m * 11) \div 10 >= m /\ (m * 11) \div 10 <= 2 * m /\ (m * 11) \div 10 \in Int
  OBVIOUS
<1> QED
  BY <1>1 DEF Sufficient, Padded

\* A file is pulled once.
LEMMA PullsDiffer ==
    ASSUME plan \in Plans, NEW r \in Runs,
           NEW k \in 1..Len(Pulls(r)), NEW l \in 1..Len(Pulls(r)), k # l
    PROVE  Pulls(r)[k] # Pulls(r)[l]
<1>1. CASE Chained(r)
  BY <1>1, PullsShape
<1>2. CASE ~Chained(r)
  <2>1. PICK d \in DOMAIN Vm(r).files :
            /\ Vm(r).files[d].role = "base_descriptor"
            /\ \/ Pulls(r) = <<d>>
               \/ \E f \in DOMAIN Vm(r).files : Vm(r).files[f].role = "base_flat" /\ Pulls(r) = <<f, d>>
    BY <1>2, PullsShape
  <2>2. CASE Pulls(r) = <<d>>
    <3>1. Len(Pulls(r)) = 1
      BY <2>2
    <3> QED
      BY <3>1
  <2>3. CASE \E f \in DOMAIN Vm(r).files : Vm(r).files[f].role = "base_flat" /\ Pulls(r) = <<f, d>>
    <3>1. PICK f \in DOMAIN Vm(r).files :
              Vm(r).files[f].role = "base_flat" /\ Pulls(r) = <<f, d>>
      BY <2>3
    <3>2. Len(Pulls(r)) = 2 /\ Pulls(r)[1] = f /\ Pulls(r)[2] = d /\ f # d
      BY <2>1, <3>1
    <3>3. (k = 1 /\ l = 2) \/ (k = 2 /\ l = 1)
      BY <3>2
    <3> QED
      BY <3>2, <3>3
  <2> QED
    BY <2>1, <2>2, <2>3
<1> QED
  BY <1>1, <1>2

-----------------------------------------------------------------------------
(***************************************************************************)
(* Why a checked copy fits.  What the check found room for is all files;   *)
(* a pull takes no more than the file's own size of what is left; so there *)
(* is always room for all files that were not pulled yet, as long as no    *)
(* other run writes, and only the capacity check can say that there is.    *)
(***************************************************************************)
Unpulled(r) == DOMAIN Vm(r).files \ {Pulls(r)[k] : k \in 1..pulled[r]}

FitInv(r) ==
    /\ pc[r] = "capacity" => ~assured[r]
    /\ pc[r] = "copy" => pulled[r] < Len(Pulls(r))
    /\ pc[r] = "copy" /\ assured[r] => SumFunctionOnSet(Sizes(r), Unpulled(r)) < free

CopyInv == FreshInv /\ \A r \in Runs : FitInv(r)

\* What is not yet pulled is the next file, and what is not pulled after it.
LEMMA UnpulledFacts ==
    ASSUME TypeInv, NEW r \in Runs, pulled[r] < Len(Pulls(r))
    PROVE  LET i == Pulls(r)[pulled[r] + 1]
               rest == DOMAIN Vm(r).files \ {Pulls(r)[k] : k \in 1..(pulled[r] + 1)}
           IN  /\ i \in DOMAIN Vm(r).files
               /\ SumFunctionOnSet(Sizes(r), Unpulled(r))
                    = File(r, i).size + SumFunctionOnSet(Sizes(r), rest)
               /\ File(r, i).size \in Nat /\ SumFunctionOnSet(Sizes(r), rest) \in Nat
<1> DEFINE i == Pulls(r)[pulled[r] + 1]
           all == DOMAIN Vm(r).files
           rest == all \ {Pulls(r)[k] : k \in 1..(pulled[r] + 1)}
<1>1. plan \in Plans /\ pulled[r] \in Nat /\ Len(Pulls(r)) \in Nat
  BY PullsCounted DEF TypeInv, TypeOK
<1>2. pulled[r] + 1 \in 1..Len(Pulls(r)) /\ 1..pulled[r] \subseteq 1..Len(Pulls(r))
  BY <1>1
<1>3. i \in all
  BY <1>1, <1>2, PullFacts
<1>4. \A k \in 1..pulled[r] : Pulls(r)[k] # i
  <2>1. \A k \in 1..pulled[r] : k \in 1..Len(Pulls(r)) /\ k # pulled[r] + 1
    BY <1>1, <1>2
  <2> QED
    BY <1>1, <1>2, <2>1, PullsDiffer
<1>5. i \in Unpulled(r)
  BY <1>3, <1>4 DEF Unpulled
<1>6. Unpulled(r) \ {i} = rest
  <2>1. \A k : k \in 1..(pulled[r] + 1) <=> k \in 1..pulled[r] \/ k = pulled[r] + 1
    BY <1>1
  <2> QED
    BY <2>1 DEF Unpulled
<1>7. /\ IsFiniteSet(all) /\ Unpulled(r) \in SUBSET all /\ rest \in SUBSET all
      /\ \A j \in all : Sizes(r)[j] = File(r, j).size /\ Sizes(r)[j] \in Nat
  BY <1>1, SizesFacts DEF Unpulled
<1>8. IsFiniteSet(Unpulled(r)) /\ IsFiniteSet(rest)
  BY <1>7, FS_Subset
<1> HIDE DEF i, rest
<1>9. SumFunctionOnSet(Sizes(r), Unpulled(r))
        = Sizes(r)[i] + SumFunctionOnSet(Sizes(r), Unpulled(r) \ {i})
  BY <1>5, <1>7, <1>8, SumTakesOut
<1>10. SumFunctionOnSet(Sizes(r), rest) \in Nat
  BY <1>7, <1>8, SumIsNat
<1> QED
  BY <1>3, <1>6, <1>7, <1>9, <1>10 DEF i, rest

-----------------------------------------------------------------------------
\* A run that stays where it is keeps its room if nobody else wrote, and else
\* no longer counts on it.
LEMMA FitKept ==
    ASSUME UNCHANGED world, NEW r \in Runs, FitInv(r), pc'[r] = pc[r], pulled'[r] = pulled[r],
           \/ assured'[r] = FALSE
           \/ assured'[r] = assured[r] /\ free' = free
    PROVE  FitInv(r)'
<1>1. /\ Pulls(r)' = Pulls(r) /\ Vm(r)' = Vm(r) /\ Sizes(r)' = Sizes(r)
      /\ Unpulled(r)' = Unpulled(r)
  BY Frozen DEF Sizes, File, Unpulled
<1> QED
  BY <1>1 DEF FitInv

\* Nothing is asked of a run that is neither checking nor copying.
LEMMA FitElsewhere ==
    ASSUME NEW r \in Runs, pc'[r] \notin {"capacity", "copy"}
    PROVE  FitInv(r)'
  BY DEF FitInv

\* A step that leaves all runs where they are, but one.
LEMMA FitOthers ==
    ASSUME CopyInv, UNCHANGED world, NEW r \in Runs,
           \A q \in Runs \ {r} : pc'[q] = pc[q] /\ pulled'[q] = pulled[q],
           \/ \A q \in Runs \ {r} : assured'[q] = FALSE
           \/ free' = free /\ \A q \in Runs \ {r} : assured'[q] = assured[q]
    PROVE  \A q \in Runs \ {r} : FitInv(q)'
  BY FitKept DEF CopyInv

\* No run is copying before the first call.
LEMMA FitInit == Init => CopyInv
<1> SUFFICES ASSUME Init PROVE CopyInv
  OBVIOUS
<1>1. \A r \in Runs : FitInv(r)
  BY DEF Init, FitInv
<1> QED
  BY <1>1, FreshInit DEF CopyInv

\* A new call is assured of nothing yet.
LEMMA FitBegin == ASSUME CopyInv, NEW r \in Runs, Begin(r) PROVE \A q \in Runs : FitInv(q)'
<1>1. TypeOK /\ UNCHANGED world
  BY DEF CopyInv, FreshInv, TypeInv, Begin
<1>2. /\ pc'[r] = "check" /\ free' = free
      /\ \A q \in Runs \ {r} :
           pc'[q] = pc[q] /\ pulled'[q] = pulled[q] /\ assured'[q] = assured[q]
  BY <1>1, GotoFacts DEF Begin, TypeOK
<1> QED
  BY <1>1, <1>2, FitOthers, FitElsewhere

\* A check that knows every size leaves room for all files.
LEMMA FitCheck == ASSUME CopyInv, NEW r \in Runs, Check(r) PROVE \A q \in Runs : FitInv(q)'
<1>1. /\ TypeOK /\ UNCHANGED world /\ plan \in Plans /\ free \in Nat
      /\ pulled' = pulled /\ free' = free /\ pc[r] = "check"
  BY DEF CopyInv, FreshInv, TypeInv, TypeOK, Check, disk
<1>2. PICK unknown :
          /\ Decide(r, "capacity", Sufficient(free, Required(r, unknown)))
          /\ assured' = [assured EXCEPT ![r] = Sufficient(free, Required(r, unknown)) /\ unknown = {}]
  BY Zenon DEF Check
<1>3. /\ \A q \in Runs \ {r} : pc'[q] = pc[q] /\ assured'[q] = assured[q]
      /\ assured'[r] <=> Sufficient(free, Required(r, unknown)) /\ unknown = {}
      /\ pc'[r] = IF Sufficient(free, Required(r, unknown)) THEN "copy" ELSE "capacity"
  BY <1>1, <1>2, GotoFacts DEF TypeOK, Decide, After
<1>4. pulled[r] = 0 /\ Len(Pulls(r)) > 0
  <2>1. Active(r)
    BY <1>1 DEF Active, Over
  <2> QED
    BY <1>1, <2>1, PullsCounted DEF CopyInv, FreshInv, RunInv, Progress
<1>5. assured'[r] => SumFunctionOnSet(Sizes(r), Unpulled(r)) < free
  <2> SUFFICES ASSUME assured'[r] PROVE SumFunctionOnSet(Sizes(r), Unpulled(r)) < free
    OBVIOUS
  <2>1. Unpulled(r) = DOMAIN Vm(r).files \ {}
    BY <1>4 DEF Unpulled
  <2>2. Required(r, {}) = SumFunctionOnSet(Sizes(r), Unpulled(r)) /\ Required(r, {}) \in Nat
    BY <1>1, <2>1, RequiredFacts
  <2>3. Sufficient(free, Required(r, {}))
    BY <1>3, Zenon
  <2>4. Required(r, {}) < free
    BY <1>1, <2>2, <2>3, SufficientFacts
  <2> QED
    BY <2>2, <2>4
<1>6. FitInv(r)'
  <2>1. /\ Pulls(r)' = Pulls(r) /\ Sizes(r)' = Sizes(r) /\ Unpulled(r)' = Unpulled(r)
    BY <1>1, Frozen DEF Sizes, File, Unpulled
  <2> QED
    BY <1>1, <1>3, <1>4, <1>5, <2>1 DEF FitInv
<1> QED
  BY <1>1, <1>3, <1>6, FitOthers

\* A pull takes the size of one file at most from what is free.
LEMMA FitPull == ASSUME CopyInv, NEW r \in Runs, Pull(r) PROVE \A q \in Runs : FitInv(q)'
<1> DEFINE i == Pulls(r)[pulled[r] + 1]
           p == <<Dir(r), LocalName(r, i)>>
<1>1. /\ TypeOK /\ TypeInv /\ UNCHANGED world /\ plan \in Plans /\ free \in Nat /\ pc[r] = "copy"
      /\ pulled[r] < Len(Pulls(r)) /\ pulled[r] \in Nat /\ Len(Pulls(r)) \in Nat
  BY PullsCounted DEF CopyInv, FreshInv, TypeInv, TypeOK, Pull
<1>2. /\ i \in DOMAIN Vm(r).files /\ p \in Places
      /\ File(r, i).size \in Nat /\ RoomFor(p) \in Nat /\ RoomFor(p) >= free
  <2>1. i \in DOMAIN Vm(r).files
    BY <1>1, UnpulledFacts
  <2>2. p \in Places /\ File(r, i).size \in Nat
    BY <1>1, <2>1, FileFacts
  <2>3. stored[p].size \in Nat
    BY <1>1, <2>2 DEF TypeOK, Contents
  <2> QED
    BY <1>1, <2>1, <2>2, <2>3 DEF RoomFor
<1>3. /\ \A q \in Runs \ {r} : pc'[q] = pc[q] /\ pulled'[q] = pulled[q] /\ assured'[q] = FALSE
      /\ assured'[r] = assured[r]
  BY <1>1, GotoFacts DEF Pull, Written, TypeOK
<1>4. ASSUME Goto(r, "copying") PROVE FitInv(r)'
  BY <1>1, <1>4, GotoFacts, FitElsewhere
<1>5. ASSUME /\ \E c \in Fetch(r, i) : Store(r, LocalName(r, i), c)
             /\ pulled' = [pulled EXCEPT ![r] = @ + 1]
             /\ Goto(r, IF pulled[r] + 1 # Len(Pulls(r)) THEN "copy"
                        ELSE IF ~Chained(r) /\ Len(Pulls(r)) = 2 THEN "rewrite"
                        ELSE "convert")
      PROVE  FitInv(r)'
  <2>1. pulled'[r] = pulled[r] + 1
    BY <1>1, <1>5 DEF TypeOK
  <2>2. pc'[r] = "copy" => pulled[r] + 1 # Len(Pulls(r))
    BY <1>1, <1>5, GotoFacts
  <2>3. free' = RoomFor(p) - File(r, i).size
    <3>1. PICK c \in Fetch(r, i) : Store(r, LocalName(r, i), c)
      BY <1>5
    <3>2. c.size = File(r, i).size
      BY <3>1 DEF Fetch
    <3> QED
      BY <3>1, <3>2 DEF Store
  <2> DEFINE rest == DOMAIN Vm(r).files \ {Pulls(r)[k] : k \in 1..(pulled[r] + 1)}
  <2>4. /\ SumFunctionOnSet(Sizes(r), Unpulled(r))
             = File(r, i).size + SumFunctionOnSet(Sizes(r), rest)
        /\ SumFunctionOnSet(Sizes(r), rest) \in Nat
    BY <1>1, UnpulledFacts
  <2>5. /\ Pulls(r)' = Pulls(r) /\ Sizes(r)' = Sizes(r) /\ Unpulled(r)' = rest
    BY <1>1, <2>1, Frozen DEF Sizes, File, Unpulled
  <2>6. pc'[r] = "copy" /\ assured'[r] => SumFunctionOnSet(Sizes(r), rest) < free'
    <3> SUFFICES ASSUME assured[r] PROVE SumFunctionOnSet(Sizes(r), rest) < free'
      BY <1>3
    <3>1. SumFunctionOnSet(Sizes(r), Unpulled(r)) < free
      BY <1>1 DEF CopyInv, FitInv
    <3> HIDE DEF i, p, rest
    <3> QED
      BY <1>1, <1>2, <2>3, <2>4, <3>1
  <2>7. pc'[r] = "copy" => pulled'[r] < Len(Pulls(r))
    BY <1>1, <2>1, <2>2
  <2>8. pc'[r] # "capacity"
    BY <1>1, <1>5, GotoFacts
  <2> HIDE DEF rest
  <2> QED
    BY <2>5, <2>6, <2>7, <2>8 DEF FitInv
<1>6. FitInv(r)'
  BY <1>4, <1>5, Zenon DEF Pull
<1> QED
  BY <1>1, <1>3, <1>6, FitOthers

\* The other steps write, or do not, but never leave a run at its copying.
LEMMA FitRewrite == ASSUME CopyInv, NEW r \in Runs, Rewrite(r) PROVE \A q \in Runs : FitInv(q)'
<1>1. TypeOK /\ UNCHANGED world /\ pulled' = pulled
  BY DEF CopyInv, FreshInv, TypeInv, Rewrite
<1>2. Written(r) /\ \E ok : Decide(r, "copying", ok)
  BY Zenon DEF Rewrite
<1>3. /\ pc'[r] \notin {"capacity", "copy"} /\ \A q \in Runs \ {r} : pc'[q] = pc[q]
  BY <1>1, <1>2, GotoFacts DEF Decide, After
<1>4. \A q \in Runs \ {r} : assured'[q] = FALSE
  BY <1>1, <1>2 DEF Written
<1> QED
  BY <1>1, <1>3, <1>4, FitOthers, FitElsewhere

\* A conversion writes, which ends the assurance of all others.
LEMMA FitConvertStage ==
    ASSUME CopyInv, NEW r \in Runs, ConvertStage(r) PROVE \A q \in Runs : FitInv(q)'
<1>1. TypeOK /\ UNCHANGED world /\ pulled' = pulled
  BY DEF CopyInv, FreshInv, TypeInv, ConvertStage
<1>2. \/ Goto(r, "raised") /\ UNCHANGED <<disk, assured>>
      \/ Written(r) /\ \E ok : Decide(r, "converting", ok)
  BY Zenon DEF ConvertStage
<1>3. /\ pc'[r] \notin {"capacity", "copy"} /\ \A q \in Runs \ {r} : pc'[q] = pc[q]
  BY <1>1, <1>2, GotoFacts DEF Decide, After
<1>4. \/ \A q \in Runs \ {r} : assured'[q] = FALSE
      \/ free' = free /\ \A q \in Runs \ {r} : assured'[q] = assured[q]
  BY <1>1, <1>2 DEF Written, disk
<1> QED
  BY <1>1, <1>3, <1>4, FitOthers, FitElsewhere

\* A killed run copies nothing any more.
LEMMA FitKill == ASSUME CopyInv, NEW r \in Runs, Kill(r) PROVE \A q \in Runs : FitInv(q)'
<1>1. TypeOK /\ TypeInv /\ UNCHANGED world /\ pulled' = pulled
  BY DEF CopyInv, FreshInv, TypeInv, Kill
<1>2. /\ pc'[r] \notin {"capacity", "copy"} /\ \A q \in Runs \ {r} : pc'[q] = pc[q]
  BY <1>1, GotoFacts DEF Kill
<1>3. \/ \A q \in Runs \ {r} : assured'[q] = FALSE
      \/ free' = free /\ \A q \in Runs \ {r} : assured'[q] = assured[q]
  BY <1>1, KillCuts DEF Written, disk
<1> QED
  BY <1>1, <1>2, <1>3, FitOthers, FitElsewhere

\* A human lets a copy begin that was not found to have room.
LEMMA FitAnswer == ASSUME CopyInv, NEW r \in Runs, Answer(r) PROVE \A q \in Runs : FitInv(q)'
<1>1. /\ TypeOK /\ UNCHANGED world /\ pulled' = pulled /\ free' = free /\ assured' = assured
      /\ pc[r] \in Stages /\ plan \in Plans
  BY DEF CopyInv, FreshInv, TypeInv, TypeOK, Answer, disk, ghosts
<1>2. /\ pc'[r] \in {After[pc[r]], "returned"} /\ \A q \in Runs \ {r} : pc'[q] = pc[q]
  BY <1>1, GotoFacts DEF Answer
<1>3. CASE pc[r] = "capacity"
  <2>1. ~assured[r]
    BY <1>3 DEF CopyInv, FitInv
  <2>2. pulled[r] = 0 /\ Len(Pulls(r)) > 0
    <3>1. Active(r)
      BY <1>3 DEF Active, Over
    <3> QED
      BY <1>1, <1>3, <3>1, PullsCounted DEF CopyInv, FreshInv, RunInv, Progress
  <2>3. pc'[r] # "capacity"
    BY <1>2, <1>3 DEF After
  <2>4. FitInv(r)'
    BY <1>1, <2>1, <2>2, <2>3, Frozen DEF FitInv
  <2> QED
    BY <1>1, <1>2, <2>4, FitOthers
<1>4. CASE pc[r] # "capacity"
  <2>1. pc'[r] \notin {"capacity", "copy"}
    BY <1>1, <1>2, <1>4 DEF Stages, After
  <2> QED
    BY <1>1, <1>2, <2>1, FitOthers, FitElsewhere
<1> QED
  BY <1>3, <1>4

\* Nor does one that is done.
LEMMA FitRegister == ASSUME CopyInv, NEW r \in Runs, Register(r) PROVE \A q \in Runs : FitInv(q)'
<1>1. /\ TypeOK /\ UNCHANGED world /\ pulled' = pulled /\ free' = free /\ assured' = assured
  BY DEF CopyInv, FreshInv, TypeInv, TypeOK, Register, disk, ghosts
<1>2. pc'[r] = "returned" /\ \A q \in Runs \ {r} : pc'[q] = pc[q]
  BY <1>1, GotoFacts DEF Register
<1> QED
  BY <1>1, <1>2, FitOthers, FitElsewhere

\* Every step keeps the room that was checked.
LEMMA CopyStep == ASSUME CopyInv, [Next]_vars PROVE CopyInv'
<1>1. FreshInv'
  BY FreshStep DEF CopyInv
<1>2. CASE TroubleEnds \/ UNCHANGED vars
  <2>1. /\ UNCHANGED world /\ pc' = pc /\ pulled' = pulled /\ free' = free /\ assured' = assured
    BY <1>2 DEF TroubleEnds, vars, world, disk, ghosts
  <2> QED
    BY <1>1, <2>1, FitKept DEF CopyInv
<1>3. CASE \E r \in Runs : Begin(r) \/ Step(r) \/ Answer(r) \/ Kill(r)
  <2>1. \A r \in Runs : FitInv(r)'
    BY <1>3, FitBegin, FitCheck, FitPull, FitRewrite, FitConvertStage, FitRegister, FitAnswer,
       FitKill DEF Step
  <2> QED
    BY <1>1, <2>1 DEF CopyInv
<1> QED
  BY <1>2, <1>3 DEF Next

\* The next pull is one of those there is room for.
LEMMA CopyInvImplies == CopyInv => CheckedCopyFits
<1> SUFFICES ASSUME CopyInv, NEW r \in Runs, pc[r] = "copy", assured[r]
             PROVE  LET i == Pulls(r)[pulled[r] + 1]
                    IN  File(r, i).size <= RoomFor(<<Dir(r), LocalName(r, i)>>)
  BY DEF CheckedCopyFits
<1> DEFINE i == Pulls(r)[pulled[r] + 1]
           p == <<Dir(r), LocalName(r, i)>>
           rest == DOMAIN Vm(r).files \ {Pulls(r)[k] : k \in 1..(pulled[r] + 1)}
<1>1. /\ TypeInv /\ TypeOK /\ plan \in Plans /\ free \in Nat /\ pulled[r] < Len(Pulls(r))
      /\ SumFunctionOnSet(Sizes(r), Unpulled(r)) < free
  BY DEF CopyInv, FitInv, FreshInv, TypeInv, TypeOK
<1>2. /\ i \in DOMAIN Vm(r).files /\ File(r, i).size \in Nat
      /\ SumFunctionOnSet(Sizes(r), Unpulled(r))
           = File(r, i).size + SumFunctionOnSet(Sizes(r), rest)
      /\ SumFunctionOnSet(Sizes(r), rest) \in Nat
  BY <1>1, UnpulledFacts
<1>3. p \in Places
  BY <1>1, <1>2, FileFacts
<1>4. stored[p].size \in Nat
  BY <1>1, <1>3 DEF TypeOK, Contents
<1>5. File(r, i).size <= RoomFor(p)
  <2> HIDE DEF i, rest
  <2> QED
    BY <1>1, <1>2, <1>4 DEF RoomFor
<1> QED
  BY <1>5

\* A copy that begins after its check never lacks room, whatever lies in the
\* way, if all sizes were known and no other run has written since.
THEOREM CheckedCopiesFit == Spec => []CheckedCopyFits
BY FitInit, CopyStep, CopyInvImplies, PTL DEF Spec

-----------------------------------------------------------------------------
(***************************************************************************)
(* Why nothing needs to be cleaned up.  What is free and what is stored    *)
(* under the names the runs write to make up the file system; and under    *)
(* such a name there is never more than one run may write there: a file of *)
(* its VM, or an image, which is no larger than all files together.        *)
(***************************************************************************)
WrittenNames(r) == {LocalName(r, i) : i \in DOMAIN Vm(r).files} \cup {"qcow2", "src"}
PlacesOf(r) == {<<Dir(r), name>> : name \in WrittenNames(r)}
Touched == UNION {PlacesOf(r) : r \in Runs}

Taken == [p \in Places |-> stored[p].size]

MayLeave(r, p, size) ==
    \/ p = <<Dir(r), "qcow2">> /\ size <= SizeOfAll(Vm(r))
    \/ \E i \in DOMAIN Vm(r).files : p = <<Dir(r), LocalName(r, i)>> /\ size <= File(r, i).size

Bounded(p, size) == size = 0 \/ \E r \in Runs : MayLeave(r, p, size)

Accounted == free + SumFunctionOnSet(Taken, Touched) = capacity
Leftovers == \A p \in Touched : Bounded(p, stored[p].size)

SpaceInv == FreshInv /\ Accounted /\ Leftovers

\* The image of a finite set under a function is finite.
LEMMA ImageIsFinite ==
    ASSUME NEW f, NEW S, IsFiniteSet(S)
    PROVE  IsFiniteSet({f[x] : x \in S})
<1> DEFINE T == {f[x] : x \in S}
           g == [x \in S |-> f[x]]
<1>1. g \in Surjection(S, T)
  BY DEF Surjection
<1> HIDE DEF g
<1> QED
  BY <1>1, FS_Surjection

\* Finitely many places are ever written to.
LEMMA TouchedFacts ==
    ASSUME plan \in Plans
    PROVE  IsFiniteSet(Touched) /\ Touched \subseteq Places
<1>1. ASSUME NEW r \in Runs PROVE IsFiniteSet(PlacesOf(r)) /\ PlacesOf(r) \subseteq Places
  <2> DEFINE files == DOMAIN Vm(r).files
             at == [i \in files |-> <<Dir(r), LocalName(r, i)>>]
             copies == {at[i] : i \in files}
             image == <<Dir(r), "qcow2">>
             src == <<Dir(r), "src">>
  <2>1. IsFiniteSet(copies)
    <3>1. IsFiniteSet(files)
      BY SizesFacts
    <3> HIDE DEF at, files
    <3> QED
      BY <3>1, ImageIsFinite
  <2>2. PlacesOf(r) = (copies \cup {image}) \cup {src}
    BY DEF PlacesOf, WrittenNames
  <2>3. copies \subseteq Places
    BY FileFacts
  <2>4. image \in Places /\ src \in Places
    BY PlanFacts DEF Places, LocalNames
  <2>5. IsFiniteSet((copies \cup {image}) \cup {src})
    <3> HIDE DEF copies, image, src
    <3> QED
      BY <2>1, FS_AddElement
  <2> HIDE DEF copies, image, src
  <2> QED
    BY <2>2, <2>3, <2>4, <2>5
<1> DEFINE of == [r \in Runs |-> PlacesOf(r)]
           all == {of[r] : r \in Runs}
<1>2. IsFiniteSet(all)
  <2> HIDE DEF of
  <2> QED
    BY RunsAssumption, ImageIsFinite
<1>3. Touched = UNION all
  BY DEF Touched
<1>4. \A T \in all : IsFiniteSet(T) /\ T \subseteq Places
  BY <1>1
<1> HIDE DEF all
<1> QED
  BY <1>2, <1>3, <1>4, FS_UNION

\* The places a run writes to are counted.
LEMMA TouchedByRun ==
    ASSUME NEW r \in Runs
    PROVE  /\ \A i \in DOMAIN Vm(r).files : <<Dir(r), LocalName(r, i)>> \in Touched
           /\ <<Dir(r), "qcow2">> \in Touched /\ <<Dir(r), "src">> \in Touched
  BY DEF Touched, PlacesOf, WrittenNames

\* What a place takes is the size stored there.
LEMMA TakenFacts ==
    ASSUME TypeOK
    PROVE  \A p \in Places : Taken[p] = stored[p].size /\ Taken[p] \in Nat
  BY DEF TypeOK, Contents, Taken

\* An image is no larger than the files it is made of.
LEMMA ImageSizesBounded ==
    ASSUME plan \in Plans, NEW r \in Runs, NEW from
    PROVE  \A size \in ImageSizes(r, from) : size \in Nat \ {0} /\ size <= SizeOfAll(Vm(r))
<1> DEFINE files == Vm(r).files
           base == {i \in DOMAIN files : files[i].role = "base_flat" /\ files[i].disk = files[from].disk}
<1>1. SizeOfAll(Vm(r)) \in Nat \ {0}
  BY SizesFacts
<1>2. ImageSizes(r, from) \subseteq Nat \ {0}
  BY ImageSizesTyped
<1>3. CASE base = {}
  BY <1>1, <1>2, <1>3 DEF ImageSizes, VirtualSize, NoSize
<1>4. CASE base # {}
  <2>1. base \in SUBSET Nat /\ base \subseteq DOMAIN files
    BY SizesFacts
  <2>2. Least(base) \in DOMAIN files
    <3> HIDE DEF base
    <3> QED
      BY <1>4, <2>1, LeastIsThere
  <2>3. VirtualSize(files, from) = File(r, Least(base)).size
    BY <1>4 DEF VirtualSize, File
  <2>4. VirtualSize(files, from) <= SizeOfAll(Vm(r))
    <3> HIDE DEF base
    <3> QED
      BY <2>2, <2>3, SizesFacts
  <2> QED
    BY <1>1, <1>2, <2>4 DEF ImageSizes
<1> QED
  BY <1>3, <1>4

\* What a failed write leaves is what was there, or less than was to be written.
LEMMA FailuresLess ==
    ASSUME TypeOK, NEW p \in Places, NEW size \in Nat \ {0}, NEW content \in Failures(p, size)
    PROVE  content = stored[p] \/ (content.size \in Nat /\ content.size < size)
<1> DEFINE part(n) == [Absent EXCEPT !.state = "part", !.size = n]
<1>1. RoomFor(p) \in Nat
  BY DEF TypeOK, RoomFor, Contents
<1>2. \A n : part(n).size = n
  BY DEF Absent
<1>3. \/ content = stored[p]
      \/ size > RoomFor(p) /\ content = part(RoomFor(p))
      \/ ~(size > RoomFor(p)) /\ content = part(size - 1)
  BY DEF Failures
<1> HIDE DEF part
<1> QED
  BY <1>1, <1>2, <1>3

-----------------------------------------------------------------------------
\* A write moves what is free, and leaves what may be left.
LEMMA SpaceWrite ==
    ASSUME TypeOK, UNCHANGED world, Accounted, Leftovers, NEW r \in Runs, NEW name,
           <<Dir(r), name>> \in Touched, NEW content, content.size \in Nat,
           Store(r, name, content),
           content = stored[<<Dir(r), name>>] \/ Bounded(<<Dir(r), name>>, content.size)
    PROVE  Accounted' /\ Leftovers'
<1> DEFINE p == <<Dir(r), name>>
           rest == Touched \ {p}
<1>1. plan \in Plans /\ free \in Nat
  BY DEF TypeOK
<1>2. IsFiniteSet(Touched) /\ Touched \subseteq Places /\ p \in Touched /\ p \in Places
  BY <1>1, TouchedFacts
<1>3. Touched' = Touched /\ \A q, n : Bounded(q, n)' = Bounded(q, n)
  BY Frozen DEF Touched, PlacesOf, WrittenNames, Bounded, MayLeave, File
<1>4. /\ stored'[p] = content /\ \A q \in Places : q # p => stored'[q] = stored[q]
      /\ free' = free + stored[p].size - content.size
  <2>1. stored'[p] = content /\ \A q \in Places : q # p => stored'[q] = stored[q]
    BY <1>2, StoreFacts
  <2>2. free' = RoomFor(p) - content.size /\ RoomFor(p) = free + stored[p].size
    BY DEF Store, RoomFor
  <2>3. stored[p].size \in Nat
    BY <1>2 DEF TypeOK, Contents
  <2>4. free' = free + stored[p].size - content.size
    BY <1>1, <2>2, <2>3
  <2> QED
    BY <2>1, <2>4
<1>5. Leftovers'
  <2> SUFFICES ASSUME NEW q \in Touched PROVE Bounded(q, stored'[q].size)
    BY <1>3 DEF Leftovers
  <2>1. CASE q = p
    BY <1>2, <1>4, <2>1 DEF Leftovers
  <2>2. CASE q # p
    BY <1>2, <1>4, <2>2 DEF Leftovers
  <2> QED
    BY <2>1, <2>2
<1>6. \A q \in Places : Taken[q] = stored[q].size /\ Taken[q] \in Nat /\ Taken'[q] = stored'[q].size
  BY TakenFacts DEF Taken
<1>7. \A q \in Touched : Taken[q] \in Nat /\ Taken'[q] \in Nat
  BY <1>2, <1>4, <1>6
<1>8. IsFiniteSet(rest) /\ \A q \in rest : Taken[q] \in Nat /\ Taken'[q] = Taken[q]
  BY <1>2, <1>4, <1>6, FS_Subset
<1> HIDE DEF p, rest
<1>9. SumFunctionOnSet(Taken, rest) = SumFunctionOnSet(Taken', rest)
  BY <1>8, SumsAgree
<1>10. SumFunctionOnSet(Taken, rest) \in Nat
  BY <1>8, SumIsNat
<1>11. /\ SumFunctionOnSet(Taken, Touched) = Taken[p] + SumFunctionOnSet(Taken, rest)
       /\ SumFunctionOnSet(Taken', Touched) = Taken'[p] + SumFunctionOnSet(Taken', rest)
  BY <1>2, <1>7, SumTakesOut DEF rest
<1>12. SumFunctionOnSet(Taken, Touched)' = SumFunctionOnSet(Taken', Touched)
  BY <1>3
<1>13. Accounted'
  <2>1. Taken[p] = stored[p].size /\ Taken'[p] = content.size /\ Taken[p] \in Nat
    BY <1>2, <1>4, <1>6
  <2>2. free' + SumFunctionOnSet(Taken', Touched) = capacity
    BY <1>1, <1>4, <1>9, <1>10, <1>11, <2>1 DEF Accounted
  <2> QED
    BY <1>12, <2>2 DEF Accounted, world
<1> QED
  BY <1>5, <1>13

\* A step that writes nothing, or only changes what is said of a file.
LEMMA SpaceKept ==
    ASSUME TypeOK, UNCHANGED world, Accounted, Leftovers, free' = free,
           \A p \in Places : stored'[p].size = stored[p].size
    PROVE  Accounted' /\ Leftovers'
<1>1. Touched \subseteq Places
  BY TouchedFacts DEF TypeOK
<1>2. Touched' = Touched /\ \A q, n : Bounded(q, n)' = Bounded(q, n)
  BY Frozen DEF Touched, PlacesOf, WrittenNames, Bounded, MayLeave, File
<1>3. Taken' = Taken
  BY DEF Taken
<1>4. SumFunctionOnSet(Taken, Touched)' = SumFunctionOnSet(Taken, Touched)
  BY <1>2, <1>3
<1> QED
  BY <1>1, <1>2, <1>4 DEF Accounted, Leftovers, world

\* A write of a run: whole, or failed, of one of its files or of its image.
LEMMA SpaceFailure ==
    ASSUME TypeOK, UNCHANGED world, Accounted, Leftovers, NEW r \in Runs, NEW name,
           <<Dir(r), name>> \in Touched, NEW size \in Nat \ {0},
           size = 1 \/ MayLeave(r, <<Dir(r), name>>, size),
           NEW content \in Failures(<<Dir(r), name>>, size), Store(r, name, content)
    PROVE  Accounted' /\ Leftovers'
<1> DEFINE p == <<Dir(r), name>>
<1>1. p \in Places /\ plan \in Plans
  BY TouchedFacts DEF TypeOK
<1>2. stored[p].size \in Nat
  BY <1>1 DEF TypeOK, Contents
<1>3. content = stored[p] \/ (content.size \in Nat /\ content.size < size)
  BY <1>1, FailuresLess
<1>4. CASE content = stored[p]
  BY <1>2, <1>4, SpaceWrite
<1>5. CASE content.size \in Nat /\ content.size < size
  <2>1. CASE size = 1
    <3>1. content.size = 0
      BY <1>5, <2>1
    <3>2. Bounded(p, content.size)
      BY <3>1 DEF Bounded
    <3> QED
      BY <1>5, <3>2, SpaceWrite
  <2>2. CASE MayLeave(r, p, size)
    <3>1. /\ SizeOfAll(Vm(r)) \in Nat
          /\ \A i \in DOMAIN Vm(r).files : File(r, i).size \in Nat
      BY <1>1, SizesFacts, FileFacts
    <3>2. MayLeave(r, p, content.size)
      BY <1>5, <2>2, <3>1 DEF MayLeave
    <3>3. Bounded(p, content.size)
      BY <3>2 DEF Bounded
    <3> QED
      BY <1>5, <3>3, SpaceWrite
  <2> QED
    BY <2>1, <2>2
<1> QED
  BY <1>3, <1>4, <1>5

\* Before the first call everything is free.
LEMMA SpaceInit == Init => SpaceInv
<1> SUFFICES ASSUME Init PROVE SpaceInv
  OBVIOUS
<1>1. FreshInv /\ TypeOK
  BY FreshInit, TypeInit DEF TypeInv
<1>2. IsFiniteSet(Touched) /\ Touched \subseteq Places
  BY <1>1, TouchedFacts DEF TypeOK
<1>3. \A p \in Places : stored[p].size = 0
  BY DEF Init, Absent
<1>4. Leftovers
  BY <1>2, <1>3 DEF Leftovers, Bounded
<1>5. SumFunctionOnSet(Taken, Touched) = 0
  <2>1. \A p \in Touched : Taken[p] = 0 /\ Taken[p] \in Nat
    BY <1>2, <1>3 DEF Taken
  <2>2. SumFunctionOnSet(Taken, Touched) <= SumFunctionOnSet(Taken, {})
    <3>1. IsFiniteSet({}) /\ \A p \in {} : Taken[p] \in Nat
      BY FS_EmptySet
    <3> QED
      BY <1>2, <2>1, <3>1, SumIsCovered
  <2>3. SumFunctionOnSet(Taken, Touched) \in Nat
    BY <1>2, <2>1, SumIsNat
  <2> QED
    BY <2>2, <2>3, SumOfNothing
<1>6. Accounted
  <2>1. free = capacity /\ capacity \in Nat
    BY BoundAssumption DEF Init
  <2> QED
    BY <1>5, <2>1 DEF Accounted
<1> QED
  BY <1>1, <1>4, <1>6 DEF SpaceInv

\* A new call writes nothing.
LEMMA SpaceBegin == ASSUME SpaceInv, NEW r \in Runs, Begin(r) PROVE Accounted' /\ Leftovers'
<1> DEFINE aged(c) == IF c.state = "fresh" THEN [c EXCEPT !.state = "stale"] ELSE c
<1>1. TypeOK /\ UNCHANGED world /\ free' = free /\ Accounted /\ Leftovers
  BY DEF SpaceInv, FreshInv, TypeInv, Begin
<1>2. \A c \in Contents : aged(c).size = c.size
  BY DEF Contents
<1>3. stored' = [p \in Places |-> IF p[1] = Dir(r) THEN aged(stored[p]) ELSE stored[p]]
  BY DEF Begin
<1>4. \A p \in Places : stored'[p].size = stored[p].size
  <2> HIDE DEF aged
  <2> QED
    BY <1>1, <1>2, <1>3 DEF TypeOK
<1> QED
  BY <1>1, <1>4, SpaceKept

\* A pull stores no more than its file's size, and takes it from what is free.
LEMMA SpacePull == ASSUME SpaceInv, NEW r \in Runs, Pull(r) PROVE Accounted' /\ Leftovers'
<1> DEFINE i == Pulls(r)[pulled[r] + 1]
           p == <<Dir(r), LocalName(r, i)>>
<1>1. /\ TypeOK /\ TypeInv /\ UNCHANGED world /\ Accounted /\ Leftovers /\ plan \in Plans
      /\ pulled[r] < Len(Pulls(r))
  BY DEF SpaceInv, FreshInv, TypeInv, TypeOK, Pull
<1>2. i \in DOMAIN Vm(r).files
  BY <1>1, UnpulledFacts
<1>3. p \in Touched /\ File(r, i).size \in Nat \ {0}
  BY <1>1, <1>2, TouchedByRun, FileFacts
<1>4. MayLeave(r, p, File(r, i).size)
  BY <1>2, <1>3 DEF MayLeave
<1>5. CASE \E c \in Fetch(r, i) : Store(r, LocalName(r, i), c)
  <2>1. PICK c \in Fetch(r, i) : Store(r, LocalName(r, i), c)
    BY <1>5
  <2>2. c.size = File(r, i).size
    BY <2>1 DEF Fetch
  <2>3. Bounded(p, c.size) /\ c.size \in Nat
    BY <1>3, <1>4, <2>2 DEF Bounded
  <2> HIDE DEF i
  <2> QED
    BY <1>1, <1>3, <2>1, <2>3, SpaceWrite
<1>6. CASE \E c \in Failures(p, File(r, i).size) : Store(r, LocalName(r, i), c)
  <2> HIDE DEF i
  <2> QED
    BY <1>1, <1>3, <1>4, <1>6, SpaceFailure
<1> QED
  BY <1>5, <1>6, Zenon DEF Pull

\* The rewriting of the extent line leaves the sizes alone.
LEMMA SpaceRewrite == ASSUME SpaceInv, NEW r \in Runs, Rewrite(r) PROVE Accounted' /\ Leftovers'
<1>1. TypeOK /\ UNCHANGED world /\ Accounted /\ Leftovers
  BY DEF SpaceInv, FreshInv, TypeInv, Rewrite
<1>2. /\ free' = free
      /\ stored' = [stored EXCEPT ![<<Dir(r), "src">>].linked = TRUE] \/ stored' = stored
  BY DEF Rewrite, disk
<1>3. \A c \in Contents : [c EXCEPT !.linked = TRUE].size = c.size
  BY DEF Contents
<1>4. \A p \in Places : stored'[p].size = stored[p].size
  BY <1>1, <1>2, <1>3 DEF TypeOK
<1> QED
  BY <1>1, <1>2, <1>4, SpaceKept

\* A conversion replaces the image by one no larger than all files.
LEMMA SpaceConvertStage ==
    ASSUME SpaceInv, NEW r \in Runs, ConvertStage(r) PROVE Accounted' /\ Leftovers'
<1> DEFINE from == PickConvertSource(Resolved(r), StagedSoFar(r))
           p == <<Dir(r), "qcow2">>
<1>1. TypeOK /\ UNCHANGED world /\ Accounted /\ Leftovers /\ plan \in Plans
  BY DEF SpaceInv, FreshInv, TypeInv, TypeOK, ConvertStage
<1>2. p \in Touched
  BY TouchedByRun
<1>3. CASE UNCHANGED disk
  <2>1. free' = free /\ \A q \in Places : stored'[q].size = stored[q].size
    BY <1>3 DEF disk
  <2> QED
    BY <1>1, <2>1, SpaceKept
<1>4. ASSUME NEW size \in ImageSizes(r, from)
      PROVE  size \in Nat \ {0} /\ size <= SizeOfAll(Vm(r)) /\ MayLeave(r, p, size)
  <2>1. size \in Nat \ {0} /\ size <= SizeOfAll(Vm(r))
    BY <1>1, ImageSizesBounded
  <2> QED
    BY <2>1 DEF MayLeave
<1>5. ASSUME NEW size \in ImageSizes(r, from), Convert(r, from, size)
      PROVE  Accounted' /\ Leftovers'
  <2> DEFINE content == [state |-> IF AllFresh(r, from) THEN "fresh" ELSE "stale",
                         file |-> from, linked |-> FALSE, size |-> size]
  <2>1. Store(r, "qcow2", content) /\ content.size = size
    BY <1>5 DEF Convert
  <2>2. Bounded(p, size) /\ size \in Nat
    BY <1>4 DEF Bounded
  <2> HIDE DEF content
  <2> QED
    BY <1>1, <1>2, <2>1, <2>2, SpaceWrite
<1>6. ASSUME NEW size \in ImageSizes(r, from),
             \E content \in Failures(p, size) : Store(r, "qcow2", content)
      PROVE  Accounted' /\ Leftovers'
  BY <1>1, <1>2, <1>4, <1>6, SpaceFailure
<1>7. \/ UNCHANGED disk
      \/ \E size \in ImageSizes(r, from) :
           \/ Convert(r, from, size)
           \/ \E content \in Failures(p, size) : Store(r, "qcow2", content)
  BY Zenon DEF ConvertStage
<1> HIDE DEF from
<1> QED
  BY <1>3, <1>5, <1>6, <1>7

\* A kill leaves what was being written cut off, never larger.
LEMMA SpaceKill == ASSUME SpaceInv, NEW r \in Runs, Kill(r) PROVE Accounted' /\ Leftovers'
<1>1. TypeOK /\ TypeInv /\ UNCHANGED world /\ Accounted /\ Leftovers /\ plan \in Plans
  BY DEF SpaceInv, FreshInv, TypeInv, TypeOK, Kill
<1>2. CASE UNCHANGED disk
  <2>1. free' = free /\ \A q \in Places : stored'[q].size = stored[q].size
    BY <1>2 DEF disk
  <2> QED
    BY <1>1, <2>1, SpaceKept
<1>3. ASSUME NEW name, NEW size \in Nat \ {0},
             \/ \E i \in DOMAIN Vm(r).files : name = LocalName(r, i) /\ size = File(r, i).size
             \/ name = "src" /\ size = 1
             \/ name = "qcow2" /\ \E from : size \in ImageSizes(r, from),
             \E content \in Failures(<<Dir(r), name>>, size) : Store(r, name, content)
      PROVE  Accounted' /\ Leftovers'
  <2>1. <<Dir(r), name>> \in Touched
    BY <1>3, TouchedByRun
  <2>2. size = 1 \/ MayLeave(r, <<Dir(r), name>>, size)
    <3>1. CASE \E i \in DOMAIN Vm(r).files : name = LocalName(r, i) /\ size = File(r, i).size
      BY <3>1 DEF MayLeave
    <3>2. CASE name = "qcow2" /\ \E from : size \in ImageSizes(r, from)
      <4>1. size <= SizeOfAll(Vm(r))
        BY <1>1, <3>2, ImageSizesBounded
      <4> QED
        BY <3>2, <4>1 DEF MayLeave
    <3> QED
      BY <1>3, <3>1, <3>2
  <2> QED
    BY <1>1, <1>3, <2>1, <2>2, SpaceFailure
<1> QED
  BY <1>1, <1>2, <1>3, KillCuts

\* Every step keeps the account, and what may be left.
LEMMA SpaceStep == ASSUME SpaceInv, [Next]_vars PROVE SpaceInv'
<1>1. FreshInv'
  BY FreshStep DEF SpaceInv
<1>2. ASSUME UNCHANGED world, UNCHANGED disk PROVE Accounted' /\ Leftovers'
  BY <1>2, SpaceKept DEF SpaceInv, FreshInv, TypeInv, disk
<1>3. CASE \/ TroubleEnds \/ UNCHANGED vars
           \/ \E r \in Runs : Check(r) \/ Register(r) \/ Answer(r)
  <2>1. UNCHANGED world /\ UNCHANGED disk
    BY <1>3 DEF TroubleEnds, vars, Check, Register, Answer, world, disk
  <2> QED
    BY <1>1, <1>2, <2>1 DEF SpaceInv
<1>4. CASE \E r \in Runs : Begin(r) \/ Pull(r) \/ Rewrite(r) \/ ConvertStage(r) \/ Kill(r)
  BY <1>1, <1>4, SpaceBegin, SpacePull, SpaceRewrite, SpaceConvertStage, SpaceKill DEF SpaceInv
<1> QED
  BY <1>3, <1>4 DEF Next, Step
-----------------------------------------------------------------------------
\* What a run may leave: its files once, and as much again for the image.
LEMMA LeftByRun ==
    ASSUME TypeOK, NEW r \in Runs, NEW S \in SUBSET Touched, IsFiniteSet(S),
           \A p \in S : stored[p].size = 0 \/ MayLeave(r, p, stored[p].size)
    PROVE  SumFunctionOnSet(Taken, S) <= 2 * SizeOfAll(Vm(r))
<1> DEFINE all == DOMAIN Vm(r).files
           T == all \cup {0}
           most == [i \in T |-> IF i = 0 THEN SizeOfAll(Vm(r)) ELSE File(r, i).size]
           place == [i \in T |-> <<Dir(r), IF i = 0 THEN "qcow2" ELSE LocalName(r, i)>>]
<1>1. /\ IsFiniteSet(all) /\ all \subseteq Nat \ {0} /\ SizeOfAll(Vm(r)) \in Nat
      /\ \A i \in all : Sizes(r)[i] = File(r, i).size /\ Sizes(r)[i] \in Nat
      /\ SizeOfAll(Vm(r)) = SumFunctionOnSet(Sizes(r), all)
  BY SizesFacts DEF TypeOK
<1>2. /\ 0 \in T /\ 0 \notin all /\ T \ {0} = all /\ all \subseteq T
  BY <1>1
<1>3. IsFiniteSet(T)
  <2> HIDE DEF all
  <2> QED
    BY <1>1, FS_AddElement
<1>4. /\ most[0] = SizeOfAll(Vm(r)) /\ \A i \in all : most[i] = Sizes(r)[i]
      /\ \A i \in T : most[i] \in Nat
  BY <1>1, <1>2
<1>5. /\ place[0] = <<Dir(r), "qcow2">>
      /\ \A i \in all : place[i] = <<Dir(r), LocalName(r, i)>>
  BY <1>1, <1>2
<1>6. \A p \in S : Taken[p] = stored[p].size /\ Taken[p] \in Nat
  BY TouchedFacts, TakenFacts DEF TypeOK
<1>7. \A p \in S : Taken[p] = 0 \/ \E i \in T : place[i] = p /\ Taken[p] <= most[i]
  <2> SUFFICES ASSUME NEW p \in S, MayLeave(r, p, stored[p].size)
               PROVE  \E i \in T : place[i] = p /\ Taken[p] <= most[i]
    BY <1>6
  <2>1. CASE p = <<Dir(r), "qcow2">> /\ stored[p].size <= SizeOfAll(Vm(r))
    <3> HIDE DEF most, place, T
    <3> QED
      BY <1>2, <1>4, <1>5, <1>6, <2>1
  <2>2. CASE \E i \in all : p = <<Dir(r), LocalName(r, i)>> /\ stored[p].size <= File(r, i).size
    <3>1. PICK i \in all : p = <<Dir(r), LocalName(r, i)>> /\ stored[p].size <= File(r, i).size
      BY <2>2
    <3>2. i \in T /\ place[i] = p /\ Taken[p] <= most[i]
      <4> HIDE DEF most, place, T, all
      <4> QED
        BY <1>1, <1>2, <1>4, <1>5, <1>6, <3>1
    <3> HIDE DEF most, place, T, all
    <3> QED
      BY <3>2
  <2> QED
    BY <2>1, <2>2 DEF MayLeave
<1> HIDE DEF all, T, most, place
<1>8. SumFunctionOnSet(Taken, S) <= SumFunctionOnSet(most, T)
  BY <1>3, <1>4, <1>6, <1>7, SumIsCovered
<1>9. SumFunctionOnSet(most, T) = most[0] + SumFunctionOnSet(most, T \ {0})
  BY <1>2, <1>3, <1>4, SumTakesOut
<1>10. SumFunctionOnSet(Sizes(r), all) = SumFunctionOnSet(most, all)
  BY <1>1, <1>4, SumsAgree
<1>11. SumFunctionOnSet(Taken, S) \in Nat
  BY <1>6, SumIsNat
<1>12. SumFunctionOnSet(most, T) = SizeOfAll(Vm(r)) + SizeOfAll(Vm(r))
  BY <1>1, <1>2, <1>4, <1>9, <1>10
<1> QED
  BY <1>1, <1>8, <1>11, <1>12

\* All runs together never leave more than twice the files of all VMs.
LEMMA LeftByAll ==
    ASSUME TypeOK, Leftovers, Runs # {}
    PROVE  SumFunctionOnSet(Taken, Touched)
             <= SumFunctionOnSet([r \in Runs |-> 2 * SizeOfAll(Vm(r))], Runs)
<1> DEFINE most == [r \in Runs |-> 2 * SizeOfAll(Vm(r))]
           owns(r, p) == stored[p].size = 0 \/ MayLeave(r, p, stored[p].size)
           owner == [p \in Touched |-> CHOOSE r \in Runs : owns(r, p)]
<1>1. plan \in Plans /\ IsFiniteSet(Touched)
  BY TouchedFacts DEF TypeOK
<1>2. \A p \in Touched : owner[p] \in Runs /\ owns(owner[p], p)
  <2> SUFFICES ASSUME NEW p \in Touched PROVE owner[p] \in Runs /\ owns(owner[p], p)
    OBVIOUS
  <2>1. \E r \in Runs : owns(r, p)
    BY DEF Leftovers, Bounded
  <2>2. owner[p] = CHOOSE r \in Runs : owns(r, p)
    OBVIOUS
  <2> HIDE DEF owner, owns
  <2> QED
    BY <2>1, <2>2
<1>3. owner \in [Touched -> Runs]
  <2>1. owner = [p \in Touched |-> owner[p]]
    OBVIOUS
  <2> HIDE DEF owner
  <2> QED
    BY <1>2, <2>1
<1>4. \A p \in Touched : Taken[p] = stored[p].size /\ Taken[p] \in Nat
  BY <1>1, TouchedFacts, TakenFacts
<1>5. \A r \in Runs : most[r] \in Nat /\ most[r] = 2 * SizeOfAll(Vm(r))
  BY <1>1, SizesFacts
<1> HIDE DEF owner, most
<1>6. ASSUME NEW r \in Runs
      PROVE  SumFunctionOnSet(Taken, {p \in Touched : owner[p] = r}) <= most[r]
  <2> DEFINE own == {p \in Touched : owner[p] = r}
  <2>1. own \in SUBSET Touched /\ IsFiniteSet(own)
    BY <1>1, FS_Subset
  <2>2. \A p \in own : stored[p].size = 0 \/ MayLeave(r, p, stored[p].size)
    BY <1>2
  <2> HIDE DEF own
  <2>3. SumFunctionOnSet(Taken, own) <= 2 * SizeOfAll(Vm(r))
    BY <2>1, <2>2, LeftByRun
  <2> QED
    BY <1>5, <2>3 DEF own
<1>7. SumFunctionOnSet(Taken, Touched) <= SumFunctionOnSet(most, Runs)
  BY <1>1, <1>3, <1>4, <1>5, <1>6, RunsAssumption, SumByOwner
<1> QED
  BY <1>7 DEF most

\* On a file system that meets the demand, the check of any run finds room.
LEMMA RoomLeft ==
    ASSUME SpaceInv, NEW q \in Runs, capacity > Demand[plan]
    PROVE  free > 2 * SizeOfAll(Vm(q))
<1> DEFINE most == [r \in Runs |-> 2 * SizeOfAll(Vm(r))]
           ask == [r \in Runs |-> 4 * SizeOfAll(Vm(r)) + 1]
           rest == Runs \ {q}
<1>1. TypeOK /\ plan \in Plans /\ free \in Nat /\ Accounted /\ Leftovers
  BY DEF SpaceInv, FreshInv, TypeInv, TypeOK
<1>2. \A r \in Runs : SizeOfAll(Vm(r)) \in Nat
  BY <1>1, SizesFacts
<1>3. \A r \in Runs : /\ most[r] = 2 * SizeOfAll(Vm(r)) /\ ask[r] = 4 * SizeOfAll(Vm(r)) + 1
                      /\ most[r] \in Nat /\ ask[r] \in Nat /\ most[r] <= ask[r]
  BY <1>2
<1>4. Demand[plan] = SumFunctionOnSet(ask, Runs)
  BY <1>1, Zenon DEF Demand, SumFunction, Vm
<1>5. SumFunctionOnSet(Taken, Touched) <= SumFunctionOnSet(most, Runs)
  BY <1>1, LeftByAll
<1>6. IsFiniteSet(Touched) /\ \A p \in Touched : Taken[p] \in Nat
  BY <1>1, TouchedFacts, TakenFacts
<1>7. SumFunctionOnSet(Taken, Touched) \in Nat
  BY <1>6, SumIsNat
<1> HIDE DEF most, ask
<1>8. /\ SumFunctionOnSet(most, Runs) = most[q] + SumFunctionOnSet(most, rest)
      /\ SumFunctionOnSet(ask, Runs) = ask[q] + SumFunctionOnSet(ask, rest)
  BY <1>3, RunsAssumption, SumTakesOut
<1>9. IsFiniteSet(rest) /\ \A r \in rest : most[r] \in Nat /\ ask[r] \in Nat /\ most[r] <= ask[r]
  BY <1>3, RunsAssumption, FS_Subset
<1> HIDE DEF rest
<1>10. SumFunctionOnSet(most, rest) <= SumFunctionOnSet(ask, rest)
  <2> DEFINE place == [r \in rest |-> r]
  <2>1. \A r \in rest : place[r] = r
    OBVIOUS
  <2> HIDE DEF place
  <2>2. \A r \in rest : most[r] = 0 \/ \E s \in rest : place[s] = r /\ most[r] <= ask[s]
    BY <1>9, <2>1
  <2> QED
    BY <1>9, <2>2, SumIsCovered
<1>11. SumFunctionOnSet(most, rest) \in Nat /\ SumFunctionOnSet(ask, rest) \in Nat
  BY <1>9, SumIsNat
<1> QED
  BY <1>1, <1>2, <1>3, <1>4, <1>5, <1>7, <1>8, <1>10, <1>11, BoundAssumption DEF Accounted, TypeOK
-----------------------------------------------------------------------------
(***************************************************************************)
(* Why a call that starts after all trouble goes through.  Nothing fails   *)
(* any more but for want of room, and of that there is enough; so all      *)
(* files are pulled, the source of the conversion is found among them with *)
(* all it leads to, and the image has the size that is expected of it.     *)
(***************************************************************************)
Easy == plan \in Regular /\ capacity > Demand[plan]

CalmInv(r) ==
    calm[r] => /\ ~troubled /\ ~crowded[r]
               /\ \A q \in Runs \ {r} : ~Active(q)
               /\ Easy => consented[r] = {} /\ pc[r] \in Steps \cup {"returned"}

RerunInv == SpaceInv /\ \A r \in Runs : CalmInv(r)

Wanted(r) == IF Chained(r) THEN "snapshot_descriptor" ELSE "base_descriptor"

\* What Regular asks of a plan, for one of its runs.
LEMMA RegularFacts ==
    ASSUME plan \in Regular, NEW r \in Runs
    PROVE  LET files == Vm(r).files
               listed == {i \in DOMAIN files : files[i].listed}
               from == Least(WithRole(files, Wanted(r)))
           IN  /\ NamesApart(r)
               /\ WithRole(files, Wanted(r)) # {} /\ VirtualSize(files, from) # NoSize
               /\ listed # {} => files[Least(listed)].size = VirtualSize(files, from)
<1> DEFINE files == Vm(r).files
           listed == {i \in DOMAIN files : files[i].listed}
           from == Least(WithRole(files, Wanted(r)))
<1>1. /\ \A i, j \in DOMAIN files : files[i].name = files[j].name => i = j
      /\ WithRole(files, Wanted(r)) # {} /\ VirtualSize(files, from) # NoSize
      /\ listed # {} => files[Least(listed)].size = VirtualSize(files, from)
  BY Zenon DEF Regular, Vm, Chained, Wanted
<1>2. NamesApart(r)
  BY <1>1 DEF NamesApart, File
<1> QED
  BY <1>1, <1>2

\* When all is pulled, what is converted is the first descriptor of its kind.
LEMMA SourceOfAll ==
    ASSUME plan \in Plans, NEW r \in Runs, pulled[r] = Len(Pulls(r)),
           WithRole(Vm(r).files, Wanted(r)) # {}
    PROVE  LET from == Least(WithRole(Vm(r).files, Wanted(r)))
           IN  /\ from = PickConvertSource(Resolved(r), StagedSoFar(r))
               /\ from \in DOMAIN Vm(r).files /\ from # 0
<1>1. /\ Vm(r).files \in Seq(Files)
      /\ Resolved(r).disk_files = Vm(r).files /\ Resolved(r).has_snapshot_chain = Chained(r)
  BY PlanFacts
<1>2. pulled[r] \in 0..Len(Pulls(r))
  BY PullsCounted
<1>3. /\ Len(StagedSoFar(r)) = Len(Pulls(r))
      /\ \A k \in 1..Len(StagedSoFar(r)) : StagedSoFar(r)[k] = Pulls(r)[k]
  BY <1>2, StagedShape
<1> QED
  BY <1>1, <1>3, SourceOfPulls DEF Pulls, Wanted

\* The size that is expected is the one the image then has, or none is.
LEMMA ExpectedIsWhole ==
    ASSUME plan \in Plans, plan \in Regular, NEW r \in Runs
    PROVE  LET whole == VirtualSize(Vm(r).files, Least(WithRole(Vm(r).files, Wanted(r))))
           IN  Trusted(TRUE, whole, Expected(r))
<1> DEFINE files == Vm(r).files
           whole == VirtualSize(files, Least(WithRole(files, Wanted(r))))
           listed == {i \in DOMAIN files : files[i].listed}
           sizes == [i \in DOMAIN files |-> IF File(r, i).listed THEN File(r, i).size ELSE NoSize]
           known == {i \in DOMAIN sizes : sizes[i] # NoSize}
<1>1. whole # NoSize /\ (listed # {} => files[Least(listed)].size = whole)
  BY RegularFacts
<1>2. /\ DOMAIN sizes = DOMAIN files
      /\ \A i \in DOMAIN files : sizes[i] = IF files[i].listed THEN files[i].size ELSE NoSize
  BY DEF File
<1>3. \A i \in DOMAIN files : files[i].size # NoSize
  BY FileFacts DEF File, NoSize
<1>4. known = listed
  <2> HIDE DEF sizes
  <2> QED
    BY <1>2, <1>3
<1>5. Expected(r) = IF known = {} THEN NoSize ELSE sizes[Least(known)]
  BY DEF Expected, ExpectedSize
<1>6. listed # {} => sizes[Least(listed)] = files[Least(listed)].size
  <2>1. listed \in SUBSET Nat
    BY SizesFacts
  <2>2. listed # {} => Least(listed) \in listed
    <3> HIDE DEF listed
    <3> QED
      BY <2>1, LeastIsThere
  <2>3. listed # {} => Least(listed) \in DOMAIN files /\ files[Least(listed)].listed
    BY <2>2
  <2> HIDE DEF sizes, listed
  <2> QED
    BY <1>2, <2>3
<1> HIDE DEF sizes, known, listed, whole
<1> QED
  BY <1>1, <1>4, <1>5, <1>6 DEF Trusted, whole

\* Without trouble a write fails only for want of room.
LEMMA NoFailures ==
    ASSUME ~troubled, NEW p, NEW size, ~(size > RoomFor(p))
    PROVE  Failures(p, size) = {}
  BY DEF Failures

\* There is room for any file of a calm run, and for its image.
LEMMA RoomForAny ==
    ASSUME SpaceInv, NEW r \in Runs, Easy, NEW p \in Places,
           NEW size \in Nat, size <= SizeOfAll(Vm(r))
    PROVE  size <= RoomFor(p) /\ ~(size > RoomFor(p))
<1>1. free > 2 * SizeOfAll(Vm(r))
  BY RoomLeft DEF Easy
<1>2. TypeOK /\ plan \in Plans /\ free \in Nat
  BY DEF SpaceInv, FreshInv, TypeInv, TypeOK
<1>3. stored[p].size \in Nat /\ SizeOfAll(Vm(r)) \in Nat
  BY <1>2, SizesFacts DEF TypeOK, Contents
<1> QED
  BY <1>1, <1>2, <1>3 DEF RoomFor

-----------------------------------------------------------------------------
\* A step of one run: it must only keep to its path when it is calm itself.
LEMMA CalmWorks ==
    ASSUME RerunInv, UNCHANGED <<world, troubled, calm, crowded>>, NEW r \in Runs, Active(r),
           \A q \in Runs \ {r} : pc'[q] = pc[q],
           calm[r] /\ Easy => consented'[r] = consented[r] /\ pc'[r] \in Steps \cup {"returned"}
    PROVE  \A q \in Runs : CalmInv(q)'
<1>1. Easy' = Easy
  BY DEF Easy, world
<1>2. ASSUME NEW q \in Runs \ {r} PROVE CalmInv(q)'
  <2>1. ~calm[q]
    BY DEF RerunInv, CalmInv
  <2> QED
    BY <2>1 DEF CalmInv
<1>3. CalmInv(r)'
  <2> SUFFICES ASSUME calm[r]
               PROVE  /\ ~troubled /\ ~crowded[r]
                      /\ \A q \in Runs \ {r} : ~Active(q)'
                      /\ Easy => consented'[r] = {} /\ pc'[r] \in Steps \cup {"returned"}
    BY <1>1 DEF CalmInv
  <2>1. CalmInv(r)
    BY DEF RerunInv
  <2>2. \A q \in Runs \ {r} : ~Active(q)'
    BY <2>1 DEF CalmInv, Active
  <2> QED
    BY <2>1, <2>2 DEF CalmInv
<1> QED
  BY <1>2, <1>3

\* No call is calm before the first.
LEMMA CalmInit == Init => RerunInv
<1> SUFFICES ASSUME Init PROVE RerunInv
  OBVIOUS
<1>1. \A r \in Runs : CalmInv(r)
  BY DEF Init, CalmInv
<1> QED
  BY <1>1, SpaceInit DEF RerunInv

\* While there is trouble no run is calm.
LEMMA CalmTrouble ==
    ASSUME RerunInv, troubled, UNCHANGED calm
    PROVE  \A q \in Runs : CalmInv(q)'
  BY DEF RerunInv, CalmInv

\* A call that begins alone and after all trouble is calm, and another one that
\* begins ends its calm.
LEMMA CalmBegin == ASSUME RerunInv, NEW r \in Runs, Begin(r) PROVE \A q \in Runs : CalmInv(q)'
<1> DEFINE company == {q \in Runs \ {r} : Active(q) /\ Dir(q) = Dir(r)}
<1>1. TypeOK /\ UNCHANGED world /\ troubled' = troubled
  BY DEF RerunInv, SpaceInv, FreshInv, TypeInv, Begin
<1>2. /\ \A q \in Runs : crowded'[q] = IF q = r THEN company # {} ELSE crowded[q] \/ q \in company
      /\ \A q \in Runs : calm'[q] = (q = r /\ ~troubled /\ \A other \in Runs : ~Active(other))
  BY Zenon DEF Begin
<1>3. /\ pc'[r] = "check" /\ consented'[r] = {} /\ \A q \in Runs \ {r} : pc'[q] = pc[q]
  BY <1>1, GotoFacts DEF Begin, TypeOK
<1> SUFFICES ASSUME NEW q \in Runs, calm'[q] PROVE CalmInv(q)'
  BY DEF CalmInv
<1>4. q = r /\ ~troubled /\ \A other \in Runs : ~Active(other)
  BY <1>2
<1>5. ~crowded'[r]
  <2>1. company = {}
    BY <1>4
  <2> HIDE DEF company
  <2> QED
    BY <1>2, <2>1
<1>6. \A other \in Runs \ {r} : ~Active(other)'
  BY <1>3, <1>4 DEF Active
<1> QED
  BY <1>1, <1>3, <1>4, <1>5, <1>6 DEF CalmInv, Steps

\* A calm check finds room and goes on.
LEMMA CalmCheck == ASSUME RerunInv, NEW r \in Runs, Check(r) PROVE \A q \in Runs : CalmInv(q)'
<1>1. /\ TypeOK /\ plan \in Plans /\ free \in Nat /\ Active(r) /\ consented' = consented
      /\ UNCHANGED <<world, troubled, calm, crowded>>
  BY DEF RerunInv, SpaceInv, FreshInv, TypeInv, TypeOK, Check, Active, Over
<1>2. PICK unknown : Decide(r, "capacity", Sufficient(free, Required(r, unknown)))
  BY Zenon DEF Check
<1>3. /\ \A q \in Runs \ {r} : pc'[q] = pc[q]
      /\ pc'[r] = IF Sufficient(free, Required(r, unknown)) THEN "copy" ELSE "capacity"
  BY <1>1, <1>2, GotoFacts DEF Decide, After
<1>4. Easy => Sufficient(free, Required(r, unknown))
  <2> SUFFICES ASSUME Easy PROVE Sufficient(free, Required(r, unknown))
    OBVIOUS
  <2>1. free > 2 * SizeOfAll(Vm(r))
    BY RoomLeft DEF Easy, RerunInv
  <2>2. /\ Required(r, unknown) \in Nat /\ Required(r, unknown) <= SizeOfAll(Vm(r))
        /\ SizeOfAll(Vm(r)) \in Nat
    BY <1>1, RequiredFacts, SizesFacts
  <2>3. 2 * Required(r, unknown) < free
    BY <1>1, <2>1, <2>2
  <2> QED
    BY <1>1, <2>2, <2>3, SufficientFacts
<1>5. Easy => pc'[r] \in Steps \cup {"returned"}
  BY <1>3, <1>4 DEF Steps
<1> QED
  BY <1>1, <1>3, <1>5, CalmWorks

\* A calm pull goes on to the next file or to the rewriting.
LEMMA CalmPull == ASSUME RerunInv, NEW r \in Runs, Pull(r) PROVE \A q \in Runs : CalmInv(q)'
<1> DEFINE i == Pulls(r)[pulled[r] + 1]
           p == <<Dir(r), LocalName(r, i)>>
<1>1. /\ TypeOK /\ TypeInv /\ plan \in Plans /\ SpaceInv /\ Active(r) /\ consented' = consented
      /\ UNCHANGED <<world, troubled, calm, crowded>> /\ pulled[r] < Len(Pulls(r))
  BY DEF RerunInv, SpaceInv, FreshInv, TypeInv, TypeOK, Pull, Active, Over
<1>2. /\ i \in DOMAIN Vm(r).files /\ p \in Places
      /\ File(r, i).size \in Nat /\ File(r, i).size <= SizeOfAll(Vm(r))
  <2>1. i \in DOMAIN Vm(r).files
    BY <1>1, UnpulledFacts
  <2> HIDE DEF i
  <2> QED
    BY <1>1, <2>1, FileFacts, SizesFacts
<1>3. \/ Goto(r, "copy") \/ Goto(r, "rewrite") \/ Goto(r, "convert")
      \/ Goto(r, "copying") /\ Failures(p, File(r, i).size) # {}
  BY Zenon DEF Pull
<1>4. \A q \in Runs \ {r} : pc'[q] = pc[q]
  BY <1>1, <1>3, GotoFacts
<1>5. calm[r] /\ Easy => Failures(p, File(r, i).size) = {}
  <2> SUFFICES ASSUME calm[r], Easy PROVE Failures(p, File(r, i).size) = {}
    OBVIOUS
  <2>1. ~troubled
    BY DEF RerunInv, CalmInv
  <2> HIDE DEF i, p
  <2>2. ~(File(r, i).size > RoomFor(p))
    BY <1>1, <1>2, RoomForAny
  <2> QED
    BY <2>1, <2>2, NoFailures
<1>6. calm[r] /\ Easy => pc'[r] \in {"copy", "rewrite", "convert"}
  <2> HIDE DEF i, p
  <2> QED
    BY <1>1, <1>3, <1>5, GotoFacts
<1>7. {"copy", "rewrite", "convert"} \subseteq Steps
  BY DEF Steps
<1> QED
  BY <1>1, <1>4, <1>6, <1>7, CalmWorks

\* A calm rewriting goes on to the conversion.
LEMMA CalmRewrite == ASSUME RerunInv, NEW r \in Runs, Rewrite(r) PROVE \A q \in Runs : CalmInv(q)'
<1>1. /\ TypeOK /\ Active(r) /\ consented' = consented
      /\ UNCHANGED <<world, troubled, calm, crowded>>
  BY DEF RerunInv, SpaceInv, FreshInv, TypeInv, Rewrite, Active, Over
<1>2. \/ Decide(r, "copying", TRUE)
      \/ troubled /\ Decide(r, "copying", FALSE)
  BY Zenon DEF Rewrite
<1>3. /\ \A q \in Runs \ {r} : pc'[q] = pc[q]
      /\ ~troubled => pc'[r] = "convert"
  BY <1>1, <1>2, GotoFacts DEF Decide, After
<1>4. calm[r] => pc'[r] \in Steps
  BY <1>3 DEF RerunInv, CalmInv, Steps
<1> QED
  BY <1>1, <1>3, <1>4, CalmWorks

\* A calm conversion finds its source and room, and has the size expected.
LEMMA CalmConvertStage ==
    ASSUME RerunInv, NEW r \in Runs, ConvertStage(r) PROVE \A q \in Runs : CalmInv(q)'
<1> DEFINE from == PickConvertSource(Resolved(r), StagedSoFar(r))
           p == <<Dir(r), "qcow2">>
           whole == VirtualSize(Vm(r).files, from)
<1>1. /\ TypeOK /\ TypeInv /\ plan \in Plans /\ FreshInv /\ SpaceInv /\ Active(r)
      /\ consented' = consented /\ pc[r] = "convert"
      /\ UNCHANGED <<world, troubled, calm, crowded>>
  BY DEF RerunInv, SpaceInv, FreshInv, TypeInv, TypeOK, ConvertStage, Active, Over
<1>2. \/ from = 0 /\ Goto(r, "raised")
      \/ /\ from # 0
         /\ \E size \in ImageSizes(r, from),
               info \in {whole} \cup (IF troubled THEN {NoSize} ELSE {}) :
              \/ Decide(r, "converting", Trusted(TRUE, info, Expected(r)))
              \/ /\ \E content \in Failures(p, size) : Store(r, "qcow2", content)
                 /\ Decide(r, "converting", Trusted(FALSE, info, Expected(r)))
              \/ ~Opens(r, from) /\ Decide(r, "converting", Trusted(FALSE, info, Expected(r)))
  BY Zenon DEF ConvertStage
<1>3. \A q \in Runs \ {r} : pc'[q] = pc[q]
  BY <1>1, <1>2, GotoFacts DEF Decide
<1>4. ASSUME calm[r], Easy PROVE pc'[r] = "register"
  <2>1. /\ ~troubled /\ ~crowded[r] /\ consented[r] = {} /\ plan \in Regular
    BY <1>4 DEF RerunInv, CalmInv, Easy
  <2>2. pulled[r] = Len(Pulls(r))
    BY <1>1, <2>1 DEF FreshInv, RunInv, Progress
  <2>3. NamesApart(r) /\ WithRole(Vm(r).files, Wanted(r)) # {}
    BY <2>1, RegularFacts
  <2>4. from # 0 /\ from = Least(WithRole(Vm(r).files, Wanted(r)))
    BY <1>1, <2>2, <2>3, SourceOfAll
  <2>5. Trusted(TRUE, whole, Expected(r))
    BY <1>1, <2>1, <2>4, ExpectedIsWhole
  <2>6. Opens(r, from)
    <3>1. ~StandIn(r)
      BY <2>1 DEF StandIn
    <3>2. AllFresh(r, from)
      <4> HIDE DEF from
      <4> QED
        BY <1>1, <2>1, <2>3, <2>4, <3>1, OpensOnlyFresh DEF from
    <3> HIDE DEF from
    <3> QED
      BY <3>2 DEF AllFresh, Opens
  <2>7. ASSUME NEW size \in ImageSizes(r, from) PROVE Failures(p, size) = {}
    <3>1. size \in Nat /\ size <= SizeOfAll(Vm(r))
      BY <1>1, ImageSizesBounded
    <3>2. p \in Places
      BY <1>1, TouchedByRun, TouchedFacts
    <3> HIDE DEF p
    <3>3. ~(size > RoomFor(p))
      BY <1>1, <1>4, <3>1, <3>2, RoomForAny
    <3> QED
      BY <2>1, <3>3, NoFailures
  <2> HIDE DEF from, p, whole
  <2>8. Decide(r, "converting", TRUE)
    <3>1. PICK info \in {whole} :
             \/ Decide(r, "converting", Trusted(TRUE, info, Expected(r)))
             \/ \E size \in ImageSizes(r, from) : \E content \in Failures(p, size) : TRUE
      BY <1>2, <2>1, <2>4, <2>6, Zenon
    <3>2. Decide(r, "converting", Trusted(TRUE, whole, Expected(r)))
      BY <2>7, <3>1, Zenon
    <3> QED
      BY <2>5, <3>2 DEF Decide
  <2> QED
    BY <1>1, <2>8, GotoFacts DEF Decide, After
<1>5. calm[r] /\ Easy => pc'[r] \in Steps
  BY <1>4 DEF Steps
<1> QED
  BY <1>1, <1>3, <1>5, CalmWorks

\* A calm call that is done has returned.
LEMMA CalmRegister == ASSUME RerunInv, NEW r \in Runs, Register(r) PROVE \A q \in Runs : CalmInv(q)'
<1>1. /\ TypeOK /\ Active(r) /\ consented' = consented
      /\ UNCHANGED <<world, troubled, calm, crowded>>
  BY DEF RerunInv, SpaceInv, FreshInv, TypeInv, Register, Active, Over, ghosts
<1>2. pc'[r] = "returned" /\ \A q \in Runs \ {r} : pc'[q] = pc[q]
  BY <1>1, GotoFacts DEF Register
<1> QED
  BY <1>1, <1>2, CalmWorks

\* A calm run is never asked about.
LEMMA CalmAnswer == ASSUME RerunInv, NEW r \in Runs, Answer(r) PROVE \A q \in Runs : CalmInv(q)'
<1>1. /\ TypeOK /\ Active(r) /\ pc[r] \in Stages
      /\ UNCHANGED <<world, troubled, calm, crowded>>
  BY DEF RerunInv, SpaceInv, FreshInv, TypeInv, Answer, Active, Over, Stages, ghosts
<1>2. \A q \in Runs \ {r} : pc'[q] = pc[q]
  BY <1>1, GotoFacts DEF Answer
<1>3. ~(calm[r] /\ Easy)
  BY <1>1 DEF RerunInv, CalmInv, Stages, Steps
<1> QED
  BY <1>1, <1>2, <1>3, CalmWorks

\* Every step keeps the invariant.
LEMMA RerunStep == ASSUME RerunInv, [Next]_vars PROVE RerunInv'
<1>1. SpaceInv'
  BY SpaceStep DEF RerunInv
<1>2. CASE TroubleEnds
  BY <1>1, <1>2, CalmTrouble DEF TroubleEnds, ghosts, RerunInv
<1>3. CASE UNCHANGED vars
  <2>1. /\ UNCHANGED <<plan, capacity, troubled, calm, crowded, consented, pc>>
    BY <1>3 DEF vars
  <2>2. \A q \in Runs : CalmInv(q)'
    BY <2>1 DEF RerunInv, CalmInv, Easy, Active
  <2> QED
    BY <1>1, <2>2 DEF RerunInv
<1>4. CASE \E r \in Runs : Kill(r)
  <2>1. troubled /\ UNCHANGED calm
    BY <1>4 DEF Kill
  <2> QED
    BY <1>1, <2>1, CalmTrouble DEF RerunInv
<1>5. CASE \E r \in Runs : Begin(r) \/ Step(r) \/ Answer(r)
  <2>1. \A q \in Runs : CalmInv(q)'
    BY <1>5, CalmBegin, CalmCheck, CalmPull, CalmRewrite, CalmConvertStage, CalmRegister,
       CalmAnswer DEF Step
  <2> QED
    BY <1>1, <2>1 DEF RerunInv
<1> QED
  BY <1>2, <1>3, <1>4, <1>5 DEF Next

\* A call the invariant lets go on is where the property wants it.
LEMMA RerunInvImplies == RerunInv => RerunGoesThrough
<1> SUFFICES ASSUME RerunInv, NEW r \in Runs, calm[r], plan \in Regular, capacity > Demand[plan]
             PROVE  /\ pc[r] \notin Stages \cup {"raised"}
                    /\ pc[r] = "register" => Image(r).state = "fresh"
  BY DEF RerunGoesThrough
<1>1. ~crowded[r] /\ consented[r] = {} /\ pc[r] \in Steps \cup {"returned"}
  BY DEF RerunInv, CalmInv, Easy
<1>2. pc[r] \notin Stages \cup {"raised"}
  BY <1>1 DEF Stages, Steps
<1>3. ASSUME pc[r] = "register" PROVE Image(r).state = "fresh"
  <2>1. Active(r) /\ NamesApart(r)
    BY <1>3, RegularFacts DEF Active, Over
  <2>2. ImageIsFresh(r)
    BY <1>1, <2>1 DEF RerunInv, SpaceInv, FreshInv, RunInv
  <2> QED
    BY <1>1, <1>3, <2>2 DEF ImageIsFresh, StandIn
<1> QED
  BY <1>2, <1>3

\* Nothing needs to be cleaned up, ever: on a file system with room for what
\* every run may leave once, a call that starts after all trouble and by itself
\* goes through to register_vm without a question, with an image made of what it
\* pulled itself, however many calls were killed or failed before it.
THEOREM RerunsGoThrough == Spec => []RerunGoesThrough
BY CalmInit, RerunStep, RerunInvImplies, PTL DEF Spec
=============================================================================
