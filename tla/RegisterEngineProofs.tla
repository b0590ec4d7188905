------------------------ MODULE RegisterEngineProofs ------------------------
(***************************************************************************)
(* Theorems about RegisterEngine, for every set of runs, VMIDs, storages   *)
(* and pools, every assignment of arguments to runs and every bound.       *)
(***************************************************************************)
EXTENDS RegisterEngine, TLAPS

-----------------------------------------------------------------------------
(* Type correctness *)

\* Setting one key leaves a configuration a configuration.
LEMMA ConfigTyping ==
    ASSUME NEW cfg \in Configs
    PROVE  /\ \A s \in Storages : [cfg EXCEPT !.disk = s] \in Configs
           /\ [cfg EXCEPT !.boot = TRUE] \in Configs
           /\ \A r \in Runs : [cfg EXCEPT !.description = r] \in Configs
           /\ [cfg EXCEPT !.serial = TRUE] \in Configs
           /\ EmptyConfig \in Configs
  BY DEF Configs, EmptyConfig

\* `qm set` of the disk key sets it to the run's storage or changes nothing.
LEMMA SetDiskEffect ==
    ASSUME TypeOK, NEW r \in Runs, SetDisk(r)
    PROVE  \/ config' = config
           \/ config' = [config EXCEPT ![Target[r]] =
                            [config[Target[r]] EXCEPT !.disk = Storage[r]]]
<1>1. /\ config \in [Vmids -> Configs]
      /\ Target[r] \in Vmids
  BY RunAssumption DEF TypeOK
<1>2. CASE volume[Target[r]][Storage[r]] = Nothing
  <2>1. config' = config \/ config' = [config EXCEPT ![Target[r]] = config[Target[r]]]
    BY <1>2 DEF SetDisk, SetKey, Configure
  <2> QED
    BY <1>1, <2>1
<1>3. CASE volume[Target[r]][Storage[r]] # Nothing
  BY <1>3 DEF SetDisk, SetKey, Configure
<1> QED
  BY <1>2, <1>3

\* The pool commands are reached only with a pool to act on.
PoolRequested ==
    \A r \in Runs :
        pc[r] \in {"list_pools", "create_pool", "set_pool", "check_pool"}
            => Pool[r] \in Pools

TypeInv == TypeOK /\ PoolRequested

\* Types and the pool commands' guard are preserved together.
LEMMA TypeInvariance == Spec => []TypeInv
<1>1. Init => TypeInv
  <2> SUFFICES ASSUME Init PROVE TypeInv
    OBVIOUS
  <2>1. volume \in [Vmids -> [Storages -> Runs \cup {Nothing, Partial, Foreign}]]
    BY DEF Init
  <2>2. calls \in [Runs -> 0..MaxCalls]
    BY BoundAssumption DEF Init
  <2> QED
    BY <2>1, <2>2, PreexistingAssumption DEF Init, TypeInv, TypeOK, PoolRequested, Labels
<1>2. TypeInv /\ [Next]_vars => TypeInv'
  <2> SUFFICES ASSUME TypeInv, [Next]_vars PROVE TypeInv'
    OBVIOUS
  <2> USE DEF TypeInv, TypeOK, PoolRequested
  <2>1. CASE UNCHANGED vars
    BY <2>1 DEF vars
  <2>2. CASE FaultsEnd
    BY <2>2 DEF FaultsEnd, node
  <2>3. ASSUME NEW r \in Runs, Call(r) \/ Retry(r) \/ Command(r) \/ Crash(r)
        PROVE  TypeInv'
    <3>0. /\ Target[r] \in Vmids
          /\ Storage[r] \in Storages
          /\ Pool[r] \in Pools \cup {NoPool}
          /\ config[Target[r]] \in Configs
      BY RunAssumption
    <3>1. CASE Call(r) \/ Retry(r)
      <4>1. BeginCall(r, FALSE) \/ BeginCall(r, TRUE)
        BY <3>1 DEF Call, Retry
      <4>2. (calls[r] + 1) \in 0..MaxCalls
        BY <4>1, BoundAssumption DEF BeginCall
      <4>3. calls' \in [Runs -> 0..MaxCalls]
        BY <4>1, <4>2 DEF BeginCall
      <4>4. retried' \in [Runs -> BOOLEAN] /\ clean' \in [Runs -> BOOLEAN]
        BY <4>1, Zenon DEF BeginCall
      <4>5. pc' \in [Runs -> Labels] /\ verified' \in [Runs -> SUBSET Checks]
        BY <4>1 DEF BeginCall, Goto, Labels
      <4>6. PoolRequested'
        BY <4>1 DEF BeginCall, Goto
      <4> QED
        BY <4>1, <4>3, <4>4, <4>5, <4>6 DEF BeginCall, node
    <3>2. CASE Status(r)
      BY <3>2 DEF Status, Verify, Goto, node, Local, Labels, Checks, ReadBack
    <3>3. CASE Create(r)
      BY <3>0, <3>3, ConfigTyping DEF Create, Configure, Goto, Local, Labels
    <3>4. CASE StatusAgain(r)
      BY <3>4 DEF StatusAgain, Verify, Goto, node, Local, Labels, Checks, ReadBack
    <3>5. CASE ImportDisk(r)
      <4>1. PICK o \in ImportOutcomes(r) :
              /\ volume' = [volume EXCEPT ![Target[r]][Storage[r]] = o.image]
              /\ IF o.ok THEN Verify(r, "disk_imported") /\ Goto(r, "set_disk")
                         ELSE Goto(r, "set_description") /\ UNCHANGED verified
        BY <3>5 DEF ImportDisk
      <4>2. o.image \in Runs \cup {Nothing, Partial, Foreign}
        BY <3>0 DEF ImportOutcomes
      <4>3. volume' \in [Vmids -> [Storages -> Runs \cup {Nothing, Partial, Foreign}]]
        BY <3>0, <4>1, <4>2
      <4>4. /\ pc' \in [Runs -> Labels]
            /\ PoolRequested'
            /\ verified' \in [Runs -> SUBSET Checks]
        <5>1. CASE o.ok
          BY <4>1, <5>1 DEF Verify, Goto, Labels, Checks
        <5>2. CASE ~o.ok
          BY <4>1, <5>2 DEF Goto, Labels
        <5> QED
          BY <5>1, <5>2
      <4>5. UNCHANGED <<exists, config, pools, members, Local>>
        BY <3>5 DEF ImportDisk
      <4> QED
        BY <4>3, <4>4, <4>5 DEF Local
    <3>6. CASE SetDisk(r)
      <4>1. config' \in [Vmids -> Configs]
        <5>1. [config[Target[r]] EXCEPT !.disk = Storage[r]] \in Configs
          BY <3>0, ConfigTyping
        <5> QED
          BY <3>0, <3>6, <5>1, SetDiskEffect
      <4> QED
        BY <3>6, <4>1 DEF SetDisk, SetKey, Goto, Local, Labels
    <3>7. CASE CheckDisk(r)
      BY <3>7 DEF CheckDisk, Verify, Goto, node, Local, Labels, Checks, ReadBack
    <3>8. CASE SetBoot(r)
      BY <3>0, <3>8, ConfigTyping DEF SetBoot, Configure, Goto, Local, Labels, SetKey
    <3>9. CASE CheckBoot(r)
      BY <3>9 DEF CheckBoot, Verify, Goto, node, Local, Labels, Checks, ReadBack
    <3>10. CASE SetDescription(r)
      BY <3>0, <3>10, ConfigTyping DEF SetDescription, Configure, Goto, Local, Labels, SetKey
    <3>11. CASE CheckDescription(r)
      BY <3>11 DEF CheckDescription, Verify, Goto, node, Local, Labels, Checks, ReadBack
    <3>12. CASE SetSerial(r)
      BY <3>0, <3>12, ConfigTyping DEF SetSerial, Configure, Goto, Local, Labels, SetKey
    <3>13. CASE CheckSerial(r)
      BY <3>0, <3>13 DEF CheckSerial, Goto, node, Local, Labels, Checks
    <3>14. CASE ListPools(r)
      BY <3>14 DEF ListPools, Goto, node, Local, Labels
    <3>15. CASE CreatePool(r)
      <4>1. Pool[r] \in Pools
        BY <3>15 DEF CreatePool
      <4> QED
        BY <3>15, <4>1 DEF CreatePool, Goto, Local, Labels
    <3>16. CASE SetPool(r)
      BY <3>0, <3>16 DEF SetPool, Goto, Local, Labels
    <3>17. CASE CheckPool(r)
      BY <3>17 DEF CheckPool, Verify, Goto, node, Local, Labels, Checks, ReadBack
    <3>18. CASE Crash(r)
      BY <3>18 DEF Crash, Goto, node, Labels
    <3> QED
      BY <2>3, <3>1, <3>2, <3>3, <3>4, <3>5, <3>6, <3>7, <3>8, <3>9, <3>10,
         <3>11, <3>12, <3>13, <3>14, <3>15, <3>16, <3>17, <3>18 DEF Command
  <2> QED
    BY <2>1, <2>2, <2>3 DEF Next
<1> QED
  BY <1>1, <1>2, PTL DEF Spec

\* Every state variable keeps its type: configurations, volumes, membership
\* and the bookkeeping of each register_vm call.
THEOREM Typing == Spec => []TypeOK
<1>1. TypeInv => TypeOK
  BY DEF TypeInv
<1> QED
  BY <1>1, TypeInvariance, PTL

-----------------------------------------------------------------------------
(* What a read-back saw stays true *)

\* A VMID that is not in use has no configuration.
FreshIsEmpty == \A v \in Vmids : v \notin exists => config[v] = EmptyConfig

\* Nothing is verified before the VM is known to exist; every later command
\* comes after that, and the boot order after the attachment.
InOrder(r) ==
    /\ pc[r] \in {"idle", "status", "create", "status_again"} => verified[r] = {}
    /\ pc[r] = "importdisk" => verified[r] = {"created"}
    /\ pc[r] \notin {"idle", "status", "create", "status_again", "returned"}
          => "created" \in verified[r]
    /\ pc[r] \in {"set_boot", "check_boot"} => "disk_attached" \in verified[r]

\* Each field of a result that is set is still true of the node.
StillThere(r) ==
    /\ verified[r] # {} => Target[r] \in exists
    /\ "disk_attached" \in verified[r] => config[Target[r]].disk # Nothing
    /\ "boot_order_set" \in verified[r] => config[Target[r]].boot
    /\ "description_set" \in verified[r] => config[Target[r]].description # Nothing
    /\ "serial_console_set" \in verified[r] => config[Target[r]].serial
    /\ "pool_assigned" \in verified[r] /\ Pool[r] # NoPool
          => Target[r] \in members[Pool[r]]

Observed ==
    /\ TypeInv
    /\ FreshIsEmpty
    /\ \A r \in Runs : InOrder(r) /\ StillThere(r)

\* A configuration with at least the settings of another.
Extends(cfg, new) ==
    /\ cfg.disk # Nothing => new.disk # Nothing
    /\ cfg.boot => new.boot
    /\ cfg.description # Nothing => new.description # Nothing
    /\ cfg.serial => new.serial

\* What one step may do to the node: nothing that is set is ever unset.
Grows ==
    /\ exists \subseteq exists'
    /\ \A v \in Vmids : Extends(config[v], config'[v])
    /\ \A p \in Pools : members[p] \subseteq members'[p]

\* Setting a key of a run's VM touches no other VM.
LEMMA ConfigureGrows ==
    ASSUME TypeInv, NEW r \in Runs, NEW new \in Configs,
           Extends(config[Target[r]], new),
           config' = config \/ Configure(r, new),
           UNCHANGED <<exists, members>>
    PROVE  Grows
<1>1. CASE config' = config
  BY <1>1 DEF Grows, Extends
<1>2. CASE Configure(r, new)
  <2>1. /\ config' = [config EXCEPT ![Target[r]] = new]
        /\ config \in [Vmids -> Configs]
        /\ Target[r] \in Vmids
    BY <1>2, RunAssumption DEF Configure, TypeInv, TypeOK
  <2>2. \A v \in Vmids : Extends(config[v], config'[v])
    BY <2>1 DEF Extends
  <2> QED
    BY <2>2 DEF Grows
<1> QED
  BY <1>1, <1>2

\* No step of any run, and no fault, unsets what is set on the node.
LEMMA NodeGrows == Observed /\ [Next]_vars => Grows
<1> SUFFICES ASSUME Observed, [Next]_vars PROVE Grows
  OBVIOUS
<1> USE DEF Observed, TypeInv, TypeOK
<1>1. ASSUME UNCHANGED node PROVE Grows
  BY <1>1 DEF node, Grows, Extends
<1>2. ASSUME NEW r \in Runs, Command(r) PROVE Grows
  <2>0. /\ Target[r] \in Vmids
        /\ Storage[r] \in Storages
        /\ Storage[r] # Nothing
        /\ r # Nothing
        /\ config[Target[r]] \in Configs
    BY RunAssumption, ValueAssumption
  <2>1. CASE UNCHANGED node
    BY <1>1, <2>1
  <2>2. CASE Create(r)
    <3>1. UNCHANGED config
      BY <2>0, <2>2 DEF Create, Configure, FreshIsEmpty
    <3> QED
      BY <2>2, <3>1 DEF Create, Grows, Extends
  <2>3. CASE ImportDisk(r)
    BY <2>3 DEF ImportDisk, Grows, Extends
  <2>4. CASE SetDisk(r)
    <3>1. config' = config \/ Configure(r, [config[Target[r]] EXCEPT !.disk = Storage[r]])
      BY <2>4, SetDiskEffect DEF Configure
    <3>2. UNCHANGED <<exists, members>>
      BY <2>4 DEF SetDisk, SetKey
    <3>3. Extends(config[Target[r]], [config[Target[r]] EXCEPT !.disk = Storage[r]])
      BY <2>0 DEF Extends, Configs
    <3> QED
      BY <2>0, <3>1, <3>2, <3>3, ConfigTyping, ConfigureGrows
  <2>5. CASE SetBoot(r)
    <3>1. config' = config \/ Configure(r, [config[Target[r]] EXCEPT !.boot = TRUE])
      BY <2>5 DEF SetBoot, SetKey
    <3>2. UNCHANGED <<exists, members>>
      BY <2>5 DEF SetBoot, SetKey
    <3>3. Extends(config[Target[r]], [config[Target[r]] EXCEPT !.boot = TRUE])
      BY <2>0 DEF Extends, Configs
    <3> QED
      BY <2>0, <3>1, <3>2, <3>3, ConfigTyping, ConfigureGrows
  <2>6. CASE SetDescription(r)
    <3>1. config' = config \/ Configure(r, [config[Target[r]] EXCEPT !.description = r])
      BY <2>6 DEF SetDescription, SetKey
    <3>2. UNCHANGED <<exists, members>>
      BY <2>6 DEF SetDescription, SetKey
    <3>3. Extends(config[Target[r]], [config[Target[r]] EXCEPT !.description = r])
      BY <2>0 DEF Extends, Configs
    <3> QED
      BY <2>0, <3>1, <3>2, <3>3, ConfigTyping, ConfigureGrows
  <2>7. CASE SetSerial(r)
    <3>1. config' = config \/ Configure(r, [config[Target[r]] EXCEPT !.serial = TRUE])
      BY <2>7 DEF SetSerial, SetKey
    <3>2. UNCHANGED <<exists, members>>
      BY <2>7 DEF SetSerial, SetKey
    <3>3. Extends(config[Target[r]], [config[Target[r]] EXCEPT !.serial = TRUE])
      BY <2>0 DEF Extends, Configs
    <3> QED
      BY <2>0, <3>1, <3>2, <3>3, ConfigTyping, ConfigureGrows
  <2>8. CASE CreatePool(r)
    BY <2>8 DEF CreatePool, Grows, Extends
  <2>9. CASE SetPool(r)
    BY <2>9 DEF SetPool, Grows, Extends
  <2>10. CASE \/ Status(r) \/ StatusAgain(r) \/ CheckDisk(r) \/ CheckBoot(r)
              \/ CheckDescription(r) \/ CheckSerial(r) \/ ListPools(r) \/ CheckPool(r)
    BY <1>1, <2>10 DEF Status, StatusAgain, CheckDisk, CheckBoot, ReadBack,
                       CheckDescription, CheckSerial, ListPools, CheckPool
  <2> QED
    BY <1>2, <2>2, <2>3, <2>4, <2>5, <2>6, <2>7, <2>8, <2>9, <2>10 DEF Command
<1>3. ASSUME NEW r \in Runs, Call(r) \/ Retry(r) \/ Crash(r) PROVE Grows
  BY <1>1, <1>3 DEF Call, Retry, Crash, BeginCall
<1>4. CASE FaultsEnd
  BY <1>1, <1>4 DEF FaultsEnd
<1>5. CASE UNCHANGED vars
  BY <1>1, <1>5 DEF vars, node
<1> QED
  BY <1>2, <1>3, <1>4, <1>5 DEF Next

\* A run's own progress stays in order, whatever its command saw or did.
LEMMA InOrderStep ==
    ASSUME Observed, [Next]_vars, NEW q \in Runs
    PROVE  InOrder(q)'
<1> USE DEF Observed, TypeInv, TypeOK, InOrder
<1>1. ASSUME UNCHANGED <<pc, verified>> PROVE InOrder(q)'
  BY <1>1
<1>2. ASSUME NEW r \in Runs, Call(r) \/ Retry(r) \/ Crash(r) PROVE InOrder(q)'
  BY <1>2 DEF Call, Retry, Crash, BeginCall, Goto
<1>3. ASSUME NEW r \in Runs, Command(r) PROVE InOrder(q)'
  <2>1. CASE Status(r) \/ Create(r) \/ StatusAgain(r)
    BY <2>1 DEF Status, Create, StatusAgain, Goto, Verify, ReadBack
  <2>2. CASE ImportDisk(r)
    BY <2>2 DEF ImportDisk, Goto, Verify
  <2>3. CASE SetDisk(r) \/ CheckDisk(r) \/ SetBoot(r) \/ CheckBoot(r)
    BY <2>3 DEF SetDisk, CheckDisk, SetBoot, CheckBoot, Goto, Verify, ReadBack, SetKey
  <2>4. CASE SetDescription(r) \/ CheckDescription(r) \/ SetSerial(r)
    BY <2>4 DEF SetDescription, CheckDescription, SetSerial, Goto, Verify, ReadBack, SetKey
  <2>5. CASE CheckSerial(r)
    BY <2>5 DEF CheckSerial, Goto
  <2>6. CASE ListPools(r) \/ CreatePool(r) \/ SetPool(r) \/ CheckPool(r)
    BY <2>6 DEF ListPools, CreatePool, SetPool, CheckPool, Goto, Verify, ReadBack
  <2> QED
    BY <1>3, <2>1, <2>2, <2>3, <2>4, <2>5, <2>6 DEF Command
<1> QED
  BY <1>1, <1>2, <1>3 DEF Next, FaultsEnd, vars

\* A field once verified stays true: the step that sets it has just seen it,
\* and no later step of anybody takes it away.
LEMMA StillThereStep ==
    ASSUME Observed, [Next]_vars, NEW q \in Runs
    PROVE  StillThere(q)'
<1> USE DEF Observed, TypeInv, TypeOK
<1>0. /\ Grows
      /\ Target[q] \in Vmids
      /\ Pool[q] # NoPool => Pool[q] \in Pools
  BY NodeGrows, RunAssumption
<1>1. ASSUME verified'[q] \subseteq verified[q] PROVE StillThere(q)'
  BY <1>0, <1>1 DEF StillThere, Grows, Extends
<1>2. ASSUME NEW r \in Runs, Call(r) \/ Retry(r) \/ Crash(r) PROVE StillThere(q)'
  <2>1. verified'[q] \subseteq verified[q]
    BY <1>2 DEF Call, Retry, Crash, BeginCall
  <2> QED
    BY <1>1, <2>1
<1>3. ASSUME NEW r \in Runs, Command(r) PROVE StillThere(q)'
  <2>1. CASE Status(r) \/ StatusAgain(r)
    <3>1. /\ UNCHANGED node
          /\ \/ verified' = verified
             \/ /\ Target[r] \in exists
                /\ verified' = [verified EXCEPT ![r] = @ \cup {"created"}]
      BY <2>1 DEF Status, StatusAgain, Seen, Verify, ReadBack
    <3> QED
      BY <1>0, <1>1, <3>1 DEF StillThere, node
  <2>2. CASE ImportDisk(r)
    <3>1. \/ verified' = verified
          \/ verified' = [verified EXCEPT ![r] = @ \cup {"disk_imported"}]
      BY <2>2 DEF ImportDisk, Verify
    <3>2. "created" \in verified[r]
      BY <2>2 DEF ImportDisk, InOrder
    <3> QED
      BY <1>0, <1>1, <2>2, <3>1, <3>2 DEF ImportDisk, StillThere
  <2>3. CASE CheckDisk(r)
    <3>1. /\ UNCHANGED node
          /\ \/ verified' = verified
             \/ /\ config[Target[r]].disk # Nothing
                /\ verified' = [verified EXCEPT ![r] = @ \cup {"disk_attached"}]
      BY <2>3 DEF CheckDisk, Seen, Verify, ReadBack
    <3>2. "created" \in verified[r]
      BY <2>3 DEF CheckDisk, InOrder, ReadBack
    <3> QED
      BY <1>0, <1>1, <3>1, <3>2 DEF StillThere, node
  <2>4. CASE CheckBoot(r)
    <3>1. /\ UNCHANGED node
          /\ \/ verified' = verified
             \/ /\ config[Target[r]].boot
                /\ verified' = [verified EXCEPT ![r] = @ \cup {"boot_order_set"}]
      BY <2>4 DEF CheckBoot, Seen, Verify, ReadBack
    <3>2. "created" \in verified[r]
      BY <2>4 DEF CheckBoot, InOrder, ReadBack
    <3> QED
      BY <1>0, <1>1, <3>1, <3>2 DEF StillThere, node
  <2>5. CASE CheckDescription(r)
    <3>1. /\ UNCHANGED node
          /\ \/ verified' = verified
             \/ /\ config[Target[r]].description # Nothing
                /\ verified' = [verified EXCEPT ![r] = @ \cup {"description_set"}]
      BY <2>5 DEF CheckDescription, Seen, Verify, ReadBack
    <3>2. "created" \in verified[r]
      BY <2>5 DEF CheckDescription, InOrder, ReadBack
    <3> QED
      BY <1>0, <1>1, <3>1, <3>2 DEF StillThere, node
  <2>6. CASE CheckSerial(r)
    <3>1. UNCHANGED node
      BY <2>6 DEF CheckSerial
    <3>2. PICK seen \in Seen(config[Target[r]].serial) :
            verified' = [verified EXCEPT ![r] =
                @ \cup (IF seen THEN {"serial_console_set"} ELSE {})
                  \cup (IF Pool[r] = NoPool THEN {"pool_assigned"} ELSE {})]
      BY <2>6 DEF CheckSerial
    <3>3. seen => config[Target[r]].serial
      BY DEF Seen
    <3>4. "created" \in verified[r]
      BY <2>6 DEF CheckSerial, InOrder
    <3> QED
      BY <1>0, <1>1, <3>1, <3>2, <3>3, <3>4 DEF StillThere, node
  <2>7. CASE CheckPool(r)
    <3>1. /\ UNCHANGED node
          /\ \/ verified' = verified
             \/ /\ Target[r] \in members[Pool[r]]
                /\ verified' = [verified EXCEPT ![r] = @ \cup {"pool_assigned"}]
      BY <2>7 DEF CheckPool, Seen, Verify, ReadBack
    <3>2. "created" \in verified[r]
      BY <2>7 DEF CheckPool, InOrder, ReadBack
    <3> QED
      BY <1>0, <1>1, <3>1, <3>2 DEF StillThere, node
  <2>8. CASE \/ Create(r) \/ SetDisk(r) \/ SetBoot(r) \/ SetDescription(r)
             \/ SetSerial(r) \/ ListPools(r) \/ CreatePool(r) \/ SetPool(r)
    <3>1. UNCHANGED verified
      BY <2>8 DEF Create, SetDisk, SetBoot, SetDescription, SetSerial, SetKey,
                  ListPools, CreatePool, SetPool
    <3> QED
      BY <1>1, <3>1
  <2> QED
    BY <1>3, <2>1, <2>2, <2>3, <2>4, <2>5, <2>6, <2>7, <2>8 DEF Command
<1> QED
  BY <1>1, <1>2, <1>3 DEF Next, FaultsEnd, vars

\* A VMID gets a configuration only once it is in use.
LEMMA FreshIsEmptyStep == Observed /\ [Next]_vars => FreshIsEmpty'
<1> SUFFICES ASSUME Observed, [Next]_vars PROVE FreshIsEmpty'
  OBVIOUS
<1> USE DEF Observed, TypeInv, TypeOK, FreshIsEmpty
<1>1. ASSUME UNCHANGED <<exists, config>> PROVE FreshIsEmpty'
  BY <1>1
<1>2. ASSUME NEW r \in Runs, Call(r) \/ Retry(r) \/ Crash(r) PROVE FreshIsEmpty'
  BY <1>1, <1>2 DEF Call, Retry, Crash, BeginCall, node
<1>3. ASSUME NEW r \in Runs, Command(r) PROVE FreshIsEmpty'
  <2>1. CASE Create(r)
    BY <2>1 DEF Create, Configure
  <2>2. CASE SetDisk(r) \/ SetBoot(r) \/ SetDescription(r) \/ SetSerial(r)
    <3>1. Target[r] \in exists
      BY <2>2 DEF SetDisk, SetBoot, SetDescription, SetSerial, InOrder, StillThere, SetKey
    <3>2. exists' = exists /\ \A v \in Vmids : v # Target[r] => config'[v] = config[v]
      BY <2>2 DEF SetDisk, SetBoot, SetDescription, SetSerial, Configure, SetKey
    <3> QED
      BY <3>1, <3>2
  <2>3. CASE \/ Status(r) \/ StatusAgain(r) \/ ImportDisk(r) \/ CheckDisk(r)
             \/ CheckBoot(r) \/ CheckDescription(r) \/ CheckSerial(r)
             \/ ListPools(r) \/ CreatePool(r) \/ SetPool(r) \/ CheckPool(r)
    BY <1>1, <2>3 DEF Status, StatusAgain, ImportDisk, CheckDisk, CheckBoot, ReadBack,
         CheckDescription, CheckSerial, ListPools, CreatePool, SetPool, CheckPool, node
  <2> QED
    BY <1>3, <2>1, <2>2, <2>3 DEF Command
<1> QED
  BY <1>1, <1>2, <1>3 DEF Next, FaultsEnd, vars, node

\* Nothing is recorded before the first call.
LEMMA ObservedInit == Init /\ TypeInv => Observed
  BY DEF Init, Observed, FreshIsEmpty, InOrder, StillThere

\* What a call recorded is still on the node, in every reachable state.
LEMMA ObservedInvariance == Spec => []Observed
<1>1. Observed /\ TypeInv' /\ [Next]_vars => Observed'
  <2> SUFFICES ASSUME Observed, TypeInv', [Next]_vars PROVE Observed'
    OBVIOUS
  <2> QED
    BY InOrderStep, StillThereStep, FreshIsEmptyStep DEF Observed
<1> QED
  BY <1>1, ObservedInit, TypeInvariance, PTL DEF Spec

\* So a fully verified result has all it asked for on the node.
LEMMA ObservedIsSettled == Observed => VerifiedIsSettled
<1> SUFFICES ASSUME Observed, NEW r \in Runs, Verdict(r), NEW f \in Wanted[r]
             PROVE  f \in Settled(Target[r])
  BY DEF VerifiedIsSettled
<1>1. verified[r] = Checks /\ StillThere(r)
  BY DEF Observed, Verdict, FullyVerified
<1>2. f \in ConfigFacts \/ (f = Pool[r] /\ Pool[r] # NoPool /\ Pool[r] \in Pools)
  BY RunAssumption DEF Wanted
<1> QED
  BY <1>1, <1>2 DEF StillThere, Checks, Settled, Facts, ConfigFacts

\* A fully verified result is true of the node as a whole for as long as it
\* stands, for any number of runs sharing VMIDs and pools in any way.
THEOREM VerifiedResultIsSettled == Spec => []VerifiedIsSettled
  BY ObservedIsSettled, ObservedInvariance, PTL

-----------------------------------------------------------------------------
(* Refinement *)

\* What is settled about a VM stays settled.
LEMMA SettledGrows ==
    ASSUME Observed, [Next]_vars, NEW v \in Vmids
    PROVE  Settled(v) \subseteq Settled(v)'
  BY NodeGrows DEF Settled, Facts, Grows, Extends

\* register_vm implements its promise: every step of every run is, seen from
\* outside, a step that settles something, an atomic conclusion, or nothing.
THEOREM RegistrationRefinement == Spec => RefinesRegistration
<1> DEFINE settled == [v \in Vmids |-> Settled(v)]
           verdict == [r \in Runs |->
                         IF pc[r] # "returned" THEN "open"
                         ELSE IF Verdict(r) THEN "verified" ELSE "unverified"]
<1>1. Init => Promise!Init
  BY DEF Init, Promise!Init, Settled
<1>2. Observed /\ Observed' /\ [Next]_vars => [Promise!Next]_(Promise!vars)
  <2> SUFFICES ASSUME Observed, Observed', [Next]_vars
               PROVE  [Promise!Next]_(Promise!vars)
    OBVIOUS
  <2>0. /\ \A v \in Vmids : Settled(v) \subseteq Settled(v)'
        /\ settled' \in [Vmids -> SUBSET Facts]
        /\ pc \in [Runs -> Labels]
        /\ verified \in [Runs -> SUBSET Checks]
    BY SettledGrows DEF Settled, Observed, TypeInv, TypeOK
  <2>1. ASSUME UNCHANGED verdict PROVE [Promise!Next]_(Promise!vars)
    BY <2>0, <2>1 DEF Promise!Next, Promise!Settle
  <2>2. ASSUME UNCHANGED node PROVE UNCHANGED settled
    BY <2>2 DEF node, Settled
  <2>3. ASSUME NEW r \in Runs, Call(r) \/ Retry(r) \/ Crash(r)
        PROVE  [Promise!Next]_(Promise!vars)
    <3>1. /\ UNCHANGED settled
          /\ \E label \in {"idle", "status"} : pc' = [pc EXCEPT ![r] = label]
          /\ \A q \in Runs : q # r => verified'[q] = verified[q]
      BY <2>0, <2>2, <2>3 DEF Call, Retry, Crash, BeginCall, Goto
    <3>2. verdict' = [verdict EXCEPT ![r] = "open"]
      BY <2>0, <3>1 DEF Verdict
    <3>3. Promise!Reopen(r)
      BY <3>1, <3>2 DEF Promise!Reopen
    <3> QED
      BY <3>3 DEF Promise!Next
  <2>4. ASSUME NEW r \in Runs, Command(r), pc'[r] # "returned"
        PROVE  [Promise!Next]_(Promise!vars)
    <3>1. /\ pc[r] # "returned"
          /\ \A q \in Runs : q # r => pc'[q] = pc[q] /\ verified'[q] = verified[q]
      BY <2>0, <2>4 DEF Command, Status, Create, StatusAgain, ImportDisk, SetDisk, ReadBack, SetKey,
           CheckDisk, SetBoot, CheckBoot, SetDescription, CheckDescription,
           SetSerial, CheckSerial, ListPools, CreatePool, SetPool, CheckPool,
           Goto, Verify
    <3>2. UNCHANGED verdict
      BY <2>4, <3>1 DEF Verdict
    <3> QED
      BY <2>1, <3>2
  <2>5. ASSUME NEW r \in Runs, Command(r), pc'[r] = "returned"
        PROVE  [Promise!Next]_(Promise!vars)
    <3>1. /\ StatusAgain(r) \/ CheckSerial(r) \/ CheckPool(r)
          /\ pc[r] # "returned"
          /\ \A q \in Runs : q # r => pc'[q] = pc[q] /\ verified'[q] = verified[q]
          /\ UNCHANGED node
      BY <2>0, <2>5 DEF Command, Status, Create, StatusAgain, ImportDisk, SetDisk, ReadBack, SetKey,
           CheckDisk, SetBoot, CheckBoot, SetDescription, CheckDescription,
           SetSerial, CheckSerial, ListPools, CreatePool, SetPool, CheckPool,
           Goto, Verify
    <3>2. PICK d \in {"verified", "unverified"} :
            /\ verdict' = [verdict EXCEPT ![r] = d]
            /\ d = "verified" => Verdict(r)'
      BY <2>5, <3>1 DEF Verdict
    <3>3. d = "verified" => Wanted[r] \subseteq Settled(Target[r])
      <4>1. Observed' => VerifiedIsSettled'
        BY ObservedIsSettled, PTL
      <4>2. Settled(Target[r])' = Settled(Target[r])
        BY <3>1 DEF node, Settled
      <4> QED
        BY <3>2, <4>1, <4>2 DEF VerifiedIsSettled
    <3>4. Promise!Conclude(r)
      BY <2>2, <3>1, <3>2, <3>3, RunAssumption DEF Promise!Conclude
    <3> QED
      BY <3>4 DEF Promise!Next
  <2> QED
    BY <2>1, <2>2, <2>3, <2>4, <2>5 DEF Next, FaultsEnd, vars, node, Verdict
<1> QED
  BY <1>1, <1>2, ObservedInvariance, PTL DEF Spec, Promise!Spec, RefinesRegistration

-----------------------------------------------------------------------------
(* Boot order and ownership *)

\* No VM has a boot order without a disk, not even between two commands of a
\* call or after a call died.
THEOREM BootOrderNeedsDisk == Spec => []NoBootWithoutDisk
<1>1. Init => NoBootWithoutDisk
  BY DEF Init, NoBootWithoutDisk, EmptyConfig
<1>2. Observed /\ NoBootWithoutDisk /\ [Next]_vars => NoBootWithoutDisk'
  <2> SUFFICES ASSUME Observed, NoBootWithoutDisk, [Next]_vars,
                      NEW v \in Vmids, config'[v].boot
               PROVE  config'[v].disk # Nothing
    BY DEF NoBootWithoutDisk
  <2> USE DEF Observed, TypeInv, TypeOK
  <2>0. Grows
    BY NodeGrows
  <2>1. ASSUME config[v].boot PROVE config'[v].disk # Nothing
    BY <2>0, <2>1 DEF NoBootWithoutDisk, Grows, Extends
  <2>2. ASSUME UNCHANGED config PROVE config'[v].disk # Nothing
    BY <2>1, <2>2
  <2>3. ASSUME NEW r \in Runs, Command(r) PROVE config'[v].disk # Nothing
    <3>0. Target[r] \in Vmids /\ config[Target[r]] \in Configs
      BY RunAssumption
    <3>1. CASE SetBoot(r)
      <4>1. config[Target[r]].disk # Nothing
        BY <3>1 DEF SetBoot, InOrder, StillThere, SetKey
      <4>2. v # Target[r] => config'[v] = config[v]
        BY <3>0, <3>1 DEF SetBoot, Configure, SetKey
      <4> QED
        BY <2>0, <2>1, <4>1, <4>2 DEF Grows, Extends
    <3>2. CASE Create(r)
      BY <2>1, <3>2 DEF Create, Configure, EmptyConfig
    <3>3. CASE SetDisk(r)
      <4>1. \/ config' = config
            \/ config' = [config EXCEPT ![Target[r]] =
                             [config[Target[r]] EXCEPT !.disk = Storage[r]]]
        BY <3>3, SetDiskEffect
      <4>2. config'[v].boot = config[v].boot
        BY <3>0, <4>1 DEF Configs
      <4> QED
        BY <2>1, <4>2
    <3>4. CASE SetDescription(r)
      <4>1. config'[v].boot = config[v].boot
        BY <3>0, <3>4 DEF SetDescription, Configure, Configs, SetKey
      <4> QED
        BY <2>1, <4>1
    <3>5. CASE SetSerial(r)
      <4>1. \/ config' = config
            \/ config' = [config EXCEPT ![Target[r]] =
                             [config[Target[r]] EXCEPT !.serial = TRUE]]
        BY <3>5 DEF SetSerial, Configure, SetKey
      <4>2. config'[v].boot = config[v].boot
        BY <3>0, <4>1 DEF Configs
      <4> QED
        BY <2>1, <4>2
    <3>6. CASE \/ Status(r) \/ StatusAgain(r) \/ ImportDisk(r) \/ CheckDisk(r)
               \/ CheckBoot(r) \/ CheckDescription(r) \/ CheckSerial(r)
               \/ ListPools(r) \/ CreatePool(r) \/ SetPool(r) \/ CheckPool(r)
      BY <2>2, <3>6 DEF Status, StatusAgain, ImportDisk, CheckDisk, CheckBoot, ReadBack,
           CheckDescription, CheckSerial, ListPools, CreatePool, SetPool,
           CheckPool, node
    <3> QED
      BY <2>3, <3>1, <3>2, <3>3, <3>4, <3>5, <3>6 DEF Command
  <2>4. ASSUME NEW r \in Runs, Call(r) \/ Retry(r) \/ Crash(r)
        PROVE  config'[v].disk # Nothing
    BY <2>2, <2>4 DEF Call, Retry, Crash, BeginCall, node
  <2> QED
    BY <2>2, <2>3, <2>4 DEF Next, FaultsEnd, vars, node
<1> QED
  BY <1>1, <1>2, ObservedInvariance, PTL DEF Spec

\* A VMID that belongs to one run alone only ever carries that run's values,
\* and a recorded import is really there.
Owned(r) ==
    /\ config[Target[r]].disk \in {Storage[r], Nothing}
    /\ config[Target[r]].description \in {r, Nothing}
    /\ "disk_imported" \in verified[r] => volume[Target[r]][Storage[r]] = r

\* No step of any run touches a VMID that belongs to another one.
LEMMA OwnedStep ==
    ASSUME Observed, Exclusive, ImportTruthful,
           NEW q \in Runs, Owned(q), [Next]_vars
    PROVE  Owned(q)'
<1> USE DEF Observed, TypeInv, TypeOK
<1>0. Target[q] \in Vmids /\ Storage[q] \in Storages /\ config[Target[q]] \in Configs
  BY RunAssumption
<1>1. ASSUME UNCHANGED <<config, volume>>, "disk_imported" \in verified'[q] => "disk_imported" \in verified[q]
      PROVE  Owned(q)'
  BY <1>1 DEF Owned
<1>2. ASSUME NEW r \in Runs, Call(r) \/ Retry(r) \/ Crash(r) PROVE Owned(q)'
  BY <1>1, <1>2 DEF Call, Retry, Crash, BeginCall, node
<1>3. ASSUME NEW r \in Runs, Command(r), r # q PROVE Owned(q)'
  <2>1. Target[r] # Target[q]
    BY <1>3 DEF Exclusive
  <2>2. /\ config'[Target[q]] = config[Target[q]]
        /\ volume'[Target[q]] = volume[Target[q]]
        /\ verified'[q] = verified[q]
    BY <1>0, <1>3, <2>1 DEF Command, Status, Create, StatusAgain, ImportDisk, ReadBack,
         SetKey, SetDisk, CheckDisk, SetBoot, CheckBoot, SetDescription, CheckDescription,
         SetSerial, CheckSerial, ListPools, CreatePool, SetPool, CheckPool,
         Configure, Verify, node
  <2> QED
    BY <2>2 DEF Owned
<1>4. ASSUME Command(q) PROVE Owned(q)'
  <2>1. CASE ImportDisk(q)
    <3>1. PICK o \in ImportOutcomes(q) :
            /\ volume' = [volume EXCEPT ![Target[q]][Storage[q]] = o.image]
            /\ IF o.ok THEN Verify(q, "disk_imported") ELSE UNCHANGED verified
      BY <2>1 DEF ImportDisk
    <3>2. verified[q] = {"created"} /\ UNCHANGED config
      BY <2>1 DEF ImportDisk, InOrder
    <3>3. o.ok => o.image = q
      BY ImportTruthful DEF ImportOutcomes
    <3>4. "disk_imported" \in verified'[q] => o.ok
      BY <3>1, <3>2
    <3> QED
      BY <1>0, <3>1, <3>2, <3>3, <3>4 DEF Owned
  <2>2. CASE Create(q) \/ SetDisk(q) \/ SetBoot(q) \/ SetDescription(q) \/ SetSerial(q)
    <3>1. UNCHANGED <<volume, verified>>
      BY <2>2 DEF Create, SetDisk, SetBoot, SetDescription, SetSerial, SetKey
    <3>2. /\ config'[Target[q]].disk \in {Storage[q], Nothing}
          /\ config'[Target[q]].description \in {q, Nothing}
      BY <1>0, <2>2 DEF Create, SetDisk, SetBoot, SetDescription, SetSerial, SetKey,
                        Configure, Configs, EmptyConfig, Owned
    <3> QED
      BY <3>1, <3>2 DEF Owned
  <2>3. CASE \/ Status(q) \/ StatusAgain(q) \/ CheckDisk(q) \/ CheckBoot(q)
             \/ CheckDescription(q) \/ CheckSerial(q)
             \/ ListPools(q) \/ CreatePool(q) \/ SetPool(q) \/ CheckPool(q)
    BY <1>1, <2>3 DEF Status, StatusAgain, CheckDisk, CheckBoot, CheckDescription, ReadBack,
         CheckSerial, ListPools, CreatePool, SetPool, CheckPool, Verify, node
  <2> QED
    BY <1>4, <2>1, <2>2, <2>3 DEF Command
<1> QED
  BY <1>1, <1>2, <1>3, <1>4 DEF Next, FaultsEnd, vars, node

\* With importdisk's exit code to be believed, fully verified means this run's
\* image on this run's storage under this run's description, for every run
\* that has its VMID to itself.
THEOREM VerifiedResultIsOurs ==
    ASSUME ImportTruthful PROVE Spec => []VerifiedIsOurs
<1> DEFINE OwnedInv == Exclusive => \A r \in Runs : Owned(r)
<1>1. Init => OwnedInv
  <2> SUFFICES ASSUME Init, Exclusive, NEW r \in Runs PROVE Owned(r)
    OBVIOUS
  <2>1. config[Target[r]] = EmptyConfig /\ verified[r] = {}
    BY RunAssumption DEF Init, Exclusive
  <2> QED
    BY <2>1 DEF Owned, EmptyConfig
<1>2. Observed /\ OwnedInv /\ [Next]_vars => OwnedInv'
  <2> SUFFICES ASSUME Observed, OwnedInv, [Next]_vars, Exclusive, NEW q \in Runs
               PROVE  Owned(q)'
    BY DEF Exclusive
  <2> QED
    BY OwnedStep, ImportTruthful
<1>3. Observed /\ OwnedInv => VerifiedIsOurs
  BY DEF Observed, StillThere, Owned, VerifiedIsOurs, Verdict, FullyVerified,
         Checks, ImageIsOurs, DiskIsOurs, DescriptionIsOurs
<1> HIDE DEF OwnedInv
<1> QED
  BY <1>1, <1>2, <1>3, ObservedInvariance, PTL DEF Spec

-----------------------------------------------------------------------------
(* Shape of results *)

\* What run_vm may assume about a result it did not watch being made.
Shaped(r) ==
    /\ "disk_attached" \in verified[r] => "disk_imported" \in verified[r]
    /\ "boot_order_set" \in verified[r] => "disk_attached" \in verified[r]
    /\ verified[r] # {} => "created" \in verified[r]
    /\ pc[r] \in {"set_disk", "check_disk"} => "disk_imported" \in verified[r]

\* Every command records its check only after those it depends on.
LEMMA ShapedStep ==
    ASSUME Observed, [Next]_vars, NEW q \in Runs, Shaped(q)
    PROVE  Shaped(q)'
<1> USE DEF Observed, TypeInv, TypeOK, InOrder, Shaped
<1>1. ASSUME UNCHANGED <<pc, verified>> PROVE Shaped(q)'
  BY <1>1
<1>2. ASSUME NEW r \in Runs, Call(r) \/ Retry(r) \/ Crash(r) PROVE Shaped(q)'
  BY <1>2 DEF Call, Retry, Crash, BeginCall, Goto
<1>3. ASSUME NEW r \in Runs, Command(r) PROVE Shaped(q)'
  <2>1. CASE Status(r) \/ Create(r) \/ StatusAgain(r)
    BY <2>1 DEF Status, Create, StatusAgain, ReadBack, Goto, Verify
  <2>2. CASE ImportDisk(r)
    BY <2>2 DEF ImportDisk, Goto, Verify
  <2>3. CASE SetDisk(r) \/ CheckDisk(r) \/ SetBoot(r) \/ CheckBoot(r)
    BY <2>3 DEF SetDisk, CheckDisk, SetBoot, CheckBoot, SetKey, ReadBack, Goto, Verify
  <2>4. CASE SetDescription(r) \/ CheckDescription(r) \/ SetSerial(r)
    BY <2>4 DEF SetDescription, CheckDescription, SetSerial, SetKey, ReadBack, Goto, Verify
  <2>5. CASE CheckSerial(r)
    BY <2>5 DEF CheckSerial, Goto
  <2>6. CASE ListPools(r) \/ CreatePool(r) \/ SetPool(r) \/ CheckPool(r)
    BY <2>6 DEF ListPools, CreatePool, SetPool, CheckPool, ReadBack, Goto, Verify
  <2> QED
    BY <1>3, <2>1, <2>2, <2>3, <2>4, <2>5, <2>6 DEF Command
<1> QED
  BY <1>1, <1>2, <1>3 DEF Next, FaultsEnd, vars

\* Every result run_vm gets to see is one of Results, the set its decision
\* table is modelled over.
THEOREM ResultsHaveShape == Spec => []ResultShape
<1> DEFINE ShapedInv == \A r \in Runs : Shaped(r)
<1>1. Init => ShapedInv
  BY DEF Init, Shaped
<1>2. Observed /\ ShapedInv /\ [Next]_vars => ShapedInv'
  BY ShapedStep
<1>3. Observed /\ ShapedInv => ResultShape
  BY DEF Observed, TypeInv, TypeOK, Shaped, ResultShape, Results
<1> HIDE DEF ShapedInv
<1> QED
  BY <1>1, <1>2, <1>3, ObservedInvariance, PTL DEF Spec

-----------------------------------------------------------------------------
(* Recovery *)

\* Volumes stay allocated and pools stay.
LEMMA StoreGrows ==
    ASSUME Observed, [Next]_vars
    PROVE  /\ pools \subseteq pools'
           /\ \A v \in Vmids, s \in Storages :
                volume[v][s] # Nothing => volume'[v][s] # Nothing
<1> USE DEF Observed, TypeInv, TypeOK
<1> DEFINE Kept == /\ pools \subseteq pools'
                   /\ \A v \in Vmids, s \in Storages :
                        volume[v][s] # Nothing => volume'[v][s] # Nothing
<1>1. ASSUME UNCHANGED volume, pools \subseteq pools' PROVE Kept
  BY <1>1
<1>2. ASSUME NEW r \in Runs, Command(r) PROVE Kept
  <2>1. CASE ImportDisk(r)
    <3>1. PICK o \in ImportOutcomes(r) :
            volume' = [volume EXCEPT ![Target[r]][Storage[r]] = o.image]
      BY <2>1 DEF ImportDisk
    <3>2. o.image \in {volume[Target[r]][Storage[r]], Partial, r}
      BY DEF ImportOutcomes
    <3>3. Partial # Nothing /\ r # Nothing
      BY ValueAssumption
    <3>4. pools' = pools
      BY <2>1 DEF ImportDisk
    <3> QED
      BY <3>1, <3>2, <3>3, <3>4, RunAssumption
  <2>2. CASE ~ImportDisk(r)
    <3>1. UNCHANGED volume /\ pools \subseteq pools'
      BY <1>2, <2>2 DEF Command, Status, Create, StatusAgain, SetDisk,
           CheckDisk, SetBoot, CheckBoot, SetDescription, CheckDescription,
           SetSerial, CheckSerial, ListPools, CreatePool, SetPool, CheckPool,
           SetKey, ReadBack, node
    <3> QED
      BY <1>1, <3>1
  <2> QED
    BY <2>1, <2>2
<1>3. ASSUME NEW r \in Runs, Call(r) \/ Retry(r) \/ Crash(r) PROVE Kept
  BY <1>1, <1>3 DEF Call, Retry, Crash, BeginCall, node
<1> QED
  BY <1>1, <1>2, <1>3 DEF Next, FaultsEnd, vars, node

\* What a call that began after the last fault has got done at each command:
\* everything before it is verified, and the item the next read-back looks for
\* is there.
OnCourse(r) ==
    clean[r] =>
        /\ ~faulty
        /\ pc[r] = "status_again" => Target[r] \in exists
        /\ pc[r] \in {"set_disk", "check_disk"} =>
             {"created", "disk_imported"} \subseteq verified[r]
        /\ pc[r] = "set_disk" => volume[Target[r]][Storage[r]] # Nothing
        /\ pc[r] = "check_disk" => config[Target[r]].disk # Nothing
        /\ pc[r] \in {"set_boot", "check_boot"} =>
             {"created", "disk_imported", "disk_attached"} \subseteq verified[r]
        /\ pc[r] = "check_boot" => config[Target[r]].boot
        /\ pc[r] \in {"set_description", "check_description"} =>
             Checks \ {"description_set", "serial_console_set", "pool_assigned"}
                 \subseteq verified[r]
        /\ pc[r] = "check_description" => config[Target[r]].description # Nothing
        /\ pc[r] \in {"set_serial", "check_serial"} =>
             Checks \ {"serial_console_set", "pool_assigned"} \subseteq verified[r]
        /\ pc[r] = "check_serial" => config[Target[r]].serial
        /\ pc[r] \in {"list_pools", "create_pool", "set_pool", "check_pool"} =>
             Checks \ {"pool_assigned"} \subseteq verified[r]
        /\ pc[r] = "set_pool" => Pool[r] \in pools
        /\ pc[r] = "check_pool" => Target[r] \in members[Pool[r]]
        /\ pc[r] = "returned" => verified[r] = Checks

\* Without faults a call records every check it passes.
LEMMA OnCourseStep ==
    ASSUME Observed, [Next]_vars, NEW q \in Runs, OnCourse(q)
    PROVE  OnCourse(q)'
<1> USE DEF Observed, TypeInv, TypeOK
<1>0. /\ Grows
      /\ pools \subseteq pools'
      /\ volume[Target[q]][Storage[q]] # Nothing => volume'[Target[q]][Storage[q]] # Nothing
      /\ Target[q] \in Vmids
      /\ Storage[q] \in Storages
      /\ config[Target[q]] \in Configs
      /\ PoolRequested
      /\ Storage[q] # Nothing /\ q # Nothing
  BY NodeGrows, StoreGrows, RunAssumption, ValueAssumption
<1>1. ASSUME pc'[q] = pc[q], verified'[q] = verified[q], clean'[q] => clean[q] /\ ~faulty'
      PROVE  OnCourse(q)'
  BY <1>0, <1>1 DEF OnCourse, Grows, Extends, PoolRequested
<1>2. ASSUME NEW r \in Runs, Call(r) \/ Retry(r) \/ Crash(r) PROVE OnCourse(q)'
  <2>1. CASE r = q
    BY <1>2, <2>1 DEF Call, Retry, Crash, BeginCall, Goto, OnCourse
  <2>2. CASE r # q
    <3>1. /\ pc'[q] = pc[q] /\ verified'[q] = verified[q]
          /\ clean'[q] = clean[q] /\ faulty' = faulty
      BY <1>2, <2>2 DEF Call, Retry, Crash, BeginCall, Goto
    <3> QED
      BY <1>1, <3>1 DEF OnCourse
  <2> QED
    BY <2>1, <2>2
<1>3. ASSUME NEW r \in Runs, Command(r), r # q PROVE OnCourse(q)'
  <2>1. /\ pc'[q] = pc[q] /\ verified'[q] = verified[q]
        /\ clean'[q] = clean[q] /\ faulty' = faulty
    BY <1>3 DEF Command, Status, Create, StatusAgain, ImportDisk, SetDisk,
         CheckDisk, SetBoot, CheckBoot, SetDescription, CheckDescription,
         SetSerial, CheckSerial, ListPools, CreatePool, SetPool, CheckPool,
         SetKey, ReadBack, Goto, Verify, Local
  <2> QED
    BY <1>1, <2>1 DEF OnCourse
<1>4. ASSUME Command(q), ~clean[q] PROVE OnCourse(q)'
  <2>1. clean'[q] = clean[q]
    BY <1>4 DEF Command, Status, Create, StatusAgain, ImportDisk, SetDisk,
         CheckDisk, SetBoot, CheckBoot, SetDescription, CheckDescription,
         SetSerial, CheckSerial, ListPools, CreatePool, SetPool, CheckPool,
         SetKey, ReadBack, Local
  <2> QED
    BY <1>4, <2>1 DEF OnCourse
<1>5. ASSUME Command(q), clean[q] PROVE OnCourse(q)'
  <2>0. /\ ~faulty
        /\ Effects = {TRUE}
        /\ \A present : Seen(present) = {present}
    BY <1>5 DEF OnCourse, Effects, Seen
  <2>1. CASE Status(q) \/ StatusAgain(q)
    BY <1>0, <2>0, <2>1 DEF Status, StatusAgain, ReadBack, Goto, Verify, Local, OnCourse, InOrder
  <2>2. CASE Create(q)
    BY <1>0, <2>0, <2>2 DEF Create, Goto, Local, OnCourse
  <2>3. CASE ImportDisk(q)
    <3>1. PICK o \in ImportOutcomes(q) :
            /\ volume' = [volume EXCEPT ![Target[q]][Storage[q]] = o.image]
            /\ IF o.ok THEN Verify(q, "disk_imported") /\ Goto(q, "set_disk")
                       ELSE Goto(q, "set_description") /\ UNCHANGED verified
      BY <2>3 DEF ImportDisk
    <3>2. o.ok /\ o.image = q
      BY <2>0 DEF ImportOutcomes
    <3>3. verified[q] = {"created"} /\ UNCHANGED faulty
      BY <2>3 DEF ImportDisk, InOrder, Local
    <3> QED
      BY <1>0, <2>0, <3>1, <3>2, <3>3 DEF Goto, Verify, OnCourse
  <2>4. CASE SetDisk(q)
    <3>1. config' = [config EXCEPT ![Target[q]] =
                       [config[Target[q]] EXCEPT !.disk = Storage[q]]]
      BY <1>5, <2>0, <2>4 DEF SetDisk, SetKey, Configure, OnCourse
    <3>2. config'[Target[q]].disk # Nothing
      BY <1>0, <3>1 DEF Configs
    <3> QED
      BY <1>5, <2>0, <2>4, <3>2 DEF SetDisk, SetKey, Goto, Local, OnCourse
  <2>5. CASE CheckDisk(q)
    BY <1>5, <2>0, <2>5 DEF CheckDisk, ReadBack, Goto, Verify, Local, OnCourse
  <2>6. CASE SetBoot(q)
    <3>1. config'[Target[q]].boot
      BY <1>0, <2>0, <2>6 DEF SetBoot, SetKey, Configure, Configs
    <3> QED
      BY <1>5, <2>0, <2>6, <3>1 DEF SetBoot, SetKey, Goto, Local, OnCourse
  <2>7. CASE CheckBoot(q)
    BY <1>5, <2>0, <2>7 DEF CheckBoot, ReadBack, Goto, Verify, Local, OnCourse, Checks
  <2>8. CASE SetDescription(q)
    <3>1. config'[Target[q]].description # Nothing
      BY <1>0, <2>0, <2>8 DEF SetDescription, SetKey, Configure, Configs
    <3> QED
      BY <1>5, <2>0, <2>8, <3>1 DEF SetDescription, SetKey, Goto, Local, OnCourse
  <2>9. CASE CheckDescription(q)
    BY <1>5, <2>0, <2>9 DEF CheckDescription, ReadBack, Goto, Verify, Local, OnCourse, Checks
  <2>10. CASE SetSerial(q)
    <3>1. config'[Target[q]].serial
      BY <1>0, <2>0, <2>10 DEF SetSerial, SetKey, Configure, Configs
    <3> QED
      BY <1>5, <2>0, <2>10, <3>1 DEF SetSerial, SetKey, Goto, Local, OnCourse
  <2>11. CASE CheckSerial(q)
    <3>1. verified' = [verified EXCEPT ![q] = @ \cup {"serial_console_set"}
                         \cup (IF Pool[q] = NoPool THEN {"pool_assigned"} ELSE {})]
      BY <1>5, <2>0, <2>11 DEF CheckSerial, OnCourse
    <3> QED
      BY <1>5, <2>0, <2>11, <3>1 DEF CheckSerial, Goto, Local, OnCourse, Checks
  <2>12. CASE ListPools(q) \/ CreatePool(q)
    BY <1>5, <2>0, <2>12 DEF ListPools, CreatePool, Goto, Local, node, OnCourse
  <2>13. CASE SetPool(q)
    BY <1>0, <1>5, <2>0, <2>13 DEF SetPool, Goto, Local, OnCourse, PoolRequested
  <2>14. CASE CheckPool(q)
    BY <1>5, <2>0, <2>14 DEF CheckPool, ReadBack, Goto, Verify, Local, OnCourse, Checks
  <2> QED
    BY <1>5, <2>1, <2>2, <2>3, <2>4, <2>5, <2>6, <2>7, <2>8, <2>9, <2>10,
       <2>11, <2>12, <2>13, <2>14 DEF Command
<1>6. CASE FaultsEnd
  BY <1>1, <1>6 DEF FaultsEnd
<1>7. CASE UNCHANGED vars
  BY <1>1, <1>7 DEF vars, OnCourse
<1> QED
  BY <1>2, <1>3, <1>4, <1>5, <1>6, <1>7 DEF Next

\* Once faults stop, the next complete call is fully verified, from whatever
\* the earlier ones left: half-written volumes, VMs without disks, pools
\* without members.
THEOREM RerunIsRecovery == Spec => []RerunRecovers
<1> DEFINE CourseInv == \A r \in Runs : OnCourse(r)
<1>1. Init => CourseInv
  BY DEF Init, OnCourse
<1>2. Observed /\ CourseInv /\ [Next]_vars => CourseInv'
  BY OnCourseStep
<1>3. CourseInv => RerunRecovers
  BY DEF OnCourse, RerunRecovers, FullyVerified
<1> HIDE DEF CourseInv
<1> QED
  BY <1>1, <1>2, <1>3, ObservedInvariance, PTL DEF Spec
=============================================================================
