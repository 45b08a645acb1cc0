----------------------- MODULE StagingConsensusProofs -----------------------
(***************************************************************************)
(* The active prefix and the served consensus are complete and no data is  *)
(* left unreachable, for every number of IBDs, timeouts, failed database   *)
(* calls and crashes.                                                      *)
(*                                                                         *)
(* The properties exempt a node on which an IBD was started beside one     *)
(* that had timed out, and so does the inductive invariant.  On any other  *)
(* node only one process at a time works on the prefixes, so the records   *)
(* and the data are a function of how far it has come.                     *)
(***************************************************************************)
EXTENDS StagingConsensus, TLAPS

NewSteps == {"down", "delete", "active", "open", "init", "proof", "points", "headers",
             "validate", "commit", "switch", "obsolete", "up"}
IBDSteps == {"idle", "init", "clean", "reinit", "proof", "points", "headers", "utxos",
             "validate", "commit", "switch", "obsolete", "drop", "end", "done"}

Types ==
    /\ active \in {0, 1, 2} /\ inactive \in {0, 1, 2}
    /\ consensus \in {0, 1, 2} /\ staging \in {0, 1, 2} /\ writer \in {0, 1, 2}
    /\ data \in [Prefix -> SUBSET Key]
    /\ cursor \in SUBSET Key
    /\ lock \in SUBSET Process
    /\ pc \in [Process -> NewSteps \cup IBDSteps]
    /\ pc[0] \in NewSteps
    /\ \A a \in Attempt : pc[a] \in IBDSteps
    /\ held \in [Attempt -> {0, 1, 2}]
    /\ late \in BOOLEAN

\* One process at a time: New until the node is up, then one IBD.
Busy(p) == IF p = 0 THEN pc[0] # "up" ELSE pc[p] \notin {"idle", "done"}
Alone == \A p, q \in Process : Busy(p) /\ Busy(q) => p = q

\* A long section of the lock is a deletion, or the commit it follows.
LockInv ==
    \A p \in Process :
        /\ p \in lock => pc[p] \in Deletes \cup {"switch"}
        /\ pc[p] \in {"switch", "obsolete"} => p \in lock

\* What a prefix holds of a consensus, and what it holds that has to be
\* deleted: an insertion that ends late may leave its block anywhere.
KeptOf(prefix) == {k \in data[prefix] : k[1] \in Kept}
Rest(prefix) == {k \in data[prefix] : late => k[1] \in Kept}

\* The records and the data below them.
RecordsInv ==
    /\ active = NoPrefix =>
          /\ inactive = NoPrefix
          /\ pc[0] \in {"down", "delete", "active"}
          /\ data[0] = {} /\ data[1] = {}
    /\ active # NoPrefix =>
          /\ inactive \in {NoPrefix, Flip(active)}
          /\ inactive = NoPrefix => Rest(Flip(active)) = {}
          /\ \/ IsComplete(active)
             \/ data[active] = {} /\ pc[0] \in {"down", "delete", "active", "open"}

\* A deletion has yet to visit all that is left.
DeletionInv ==
    \A p \in lock : pc[p] \in Deletes => inactive # NoPrefix /\ Rest(inactive) \subseteq cursor

\* The parts of its consensus a process has stored when it comes to a step.
Stored(p, step) ==
    CASE step = "proof" -> {}
      [] step = "points" -> {<<"proof", p>>}
      [] step = "headers" -> {<<"proof", p>>, <<"points", p>>}
      [] step \in {"utxos", "validate"} -> {<<"proof", p>>, <<"points", p>>, <<"headers", p>>}
      [] OTHER -> AllOf(p)

Staging == {"proof", "points", "headers", "utxos", "validate", "commit"}

StagingInv ==
    /\ \A p \in Process : pc[p] \in Staging =>
          /\ inactive # NoPrefix /\ staging = inactive
          /\ KeptOf(staging) = Stored(p, pc[p])
    /\ \A a \in Attempt : pc[a] = "utxos" => held[a] = staging
    /\ staging # NoPrefix /\ (\A p \in Process : pc[p] # "switch") =>
          active # NoPrefix /\ staging = Flip(active)

\* The domain serves the active prefix, and between the commit and the switch
\* the one that was active before.
ServedInv ==
    /\ pc[0] \in {"init", "proof", "points", "headers", "validate", "commit", "obsolete", "up"}
          /\ (\A p \in Process : pc[p] # "switch") => consensus = active
    /\ \A p \in Process : pc[p] = "switch" =>
          /\ inactive # NoPrefix /\ consensus = inactive /\ IsComplete(inactive)
          /\ staging = active
    /\ ~IsUp => writer = NoPrefix

Core == Types /\ Alone /\ LockInv /\ RecordsInv /\ DeletionInv /\ StagingInv /\ ServedInv

IInv == overtaken \in BOOLEAN /\ (~overtaken => Core)

-----------------------------------------------------------------------------

\* The processes: New and the IBDs.
LEMMA Processes ==
    /\ 0 \in Process
    /\ \A a \in Attempt : a \in Process /\ a # 0
    /\ \A p \in Process : p # 0 => p \in Attempt
    /\ Process \subseteq Source
    /\ OldVersion \in Source
  BY BoundsAssumption DEF Process, Attempt, Source

\* The parts of a consensus are keys, and all of them are kept.
LEMMA Keys ==
    \A s \in Source :
        /\ AllOf(s) \subseteq Key
        /\ {k \in AllOf(s) : k[1] \in Kept} = AllOf(s)
  BY DEF AllOf, Key, Kept

-----------------------------------------------------------------------------
(* Each step preserves the invariant.                                      *)

\* A deletion begins at a snapshot of all that is left under the prefix, or
\* finds nothing to delete.
LEMMA BeginDeleteStep ==
    ASSUME Core, NEW p \in Process, BeginDelete(p)
    PROVE  Core'
<1>1. Types'
  BY Processes DEF Core, Types, Prefix, NewSteps, IBDSteps, NoPrefix, BeginDelete,
     AfterDelete, ForgetStaging, Goto, database, history, Deletes
<1>2. Alone'
  BY DEF Core, Types, Alone, Busy, BeginDelete, Goto, Deletes
<1>3. LockInv'
  BY DEF Core, Types, LockInv, Deletes, BeginDelete, AfterDelete, Goto
<1>4. RecordsInv'
  BY Processes DEF Core, Types, RecordsInv, IsComplete, Rest, BeginDelete,
     AfterDelete, Goto, database, history, Deletes
<1>5. DeletionInv'
  BY DEF Core, DeletionInv, Rest, BeginDelete, database
<1>6. StagingInv'
  BY Processes DEF Core, Types, StagingInv, Staging, BeginDelete, AfterDelete,
     ForgetStaging, Goto, database, Alone, Busy, Deletes
<1>7. ServedInv'
  BY Processes DEF Core, Types, ServedInv, IsUp, BeginDelete, AfterDelete, Goto,
     database, Alone, Busy, Deletes
<1>8. QED  BY <1>1, <1>2, <1>3, <1>4, <1>5, <1>6, <1>7 DEF Core

\* A key that was visited is gone from the prefix.
LEMMA DeleteKeyStep ==
    ASSUME Core, NEW p \in Process, DeleteKey(p)
    PROVE  Core'
<1>1. Types'
  BY DEF Core, Types, DeletionInv, NoPrefix, Prefix, DeleteKey, flows, history
<1>2. Alone'
  BY DEF Core, Alone, Busy, DeleteKey, flows
<1>3. LockInv'
  BY DEF Core, LockInv, DeleteKey, flows
<1>4. RecordsInv'
  BY DEF Core, Types, RecordsInv, IsComplete, Rest, Flip, DeleteKey, flows,
     history
<1>5. DeletionInv'
  BY DEF Core, Types, DeletionInv, Rest, NoPrefix, Prefix, DeleteKey, history
<1>6. StagingInv'
  BY DEF Core, StagingInv, Staging, DeleteKey, flows, Alone, Busy, Deletes
<1>7. ServedInv'
  BY DEF Core, ServedInv, IsUp, DeleteKey, flows, Alone, Busy, Deletes
<1>8. QED  BY <1>1, <1>2, <1>3, <1>4, <1>5, <1>6, <1>7 DEF Core

\* The record is removed when all the data is gone, so nothing is unreachable.
LEMMA EndDeleteStep ==
    ASSUME Core, NEW p \in Process, EndDelete(p)
    PROVE  Core'
<1>1. Types'
  BY Processes DEF Core, Types, NewSteps, IBDSteps, NoPrefix, EndDelete,
     AfterDelete, AfterFailedDelete, ForgetStaging, Goto, history, Deletes
<1>2. Alone'
  BY DEF Core, Types, Alone, Busy, EndDelete, Goto, Deletes
<1>3. LockInv'
  BY DEF Core, Types, LockInv, Deletes, EndDelete, AfterDelete, AfterFailedDelete,
     Goto, Alone, Busy
<1>4. RecordsInv'
  BY Processes DEF Core, Types, RecordsInv, DeletionInv, Deletes, IsComplete,
     Rest, Goto, EndDelete, AfterDelete, AfterFailedDelete, history
<1>5. DeletionInv'
  BY DEF Core, DeletionInv, EndDelete
<1>6. StagingInv'
  BY Processes DEF Core, Types, StagingInv, Staging, EndDelete, AfterDelete,
     AfterFailedDelete, ForgetStaging, Goto, Alone, Busy, Deletes
<1>7. ServedInv'
  BY Processes DEF Core, Types, ServedInv, IsUp, EndDelete, AfterDelete,
     AfterFailedDelete, Goto, Alone, Busy, Deletes
<1>8. QED  BY <1>1, <1>2, <1>3, <1>4, <1>5, <1>6, <1>7 DEF Core

\* A deletion that fails keeps the record, and the next one starts anew.
LEMMA FailDeleteStep ==
    ASSUME Core, NEW p \in Process, FailDelete(p)
    PROVE  Core'
<1>1. Types'
  BY Processes DEF Core, Types, NewSteps, IBDSteps, FailDelete, AfterDelete,
     AfterFailedDelete, Goto, database, history, Deletes
<1>2. Alone'
  BY DEF Core, Alone, Busy, FailDelete, Goto, Deletes
<1>3. LockInv'
  BY DEF Core, Types, LockInv, Deletes, FailDelete, AfterDelete,
     AfterFailedDelete, Goto, Alone, Busy
<1>4. RecordsInv'
  BY DEF Core, RecordsInv, IsComplete, Rest, FailDelete, AfterFailedDelete, Goto,
     database, history, Deletes
<1>5. DeletionInv'
  BY DEF Core, DeletionInv, FailDelete
<1>6. StagingInv'
  BY DEF Core, StagingInv, Staging, FailDelete, AfterDelete, AfterFailedDelete,
     Goto, database, Alone, Busy, Deletes
<1>7. ServedInv'
  BY DEF Core, ServedInv, IsUp, FailDelete, AfterDelete, AfterFailedDelete, Goto,
     database, Alone, Busy, Deletes
<1>8. QED  BY <1>1, <1>2, <1>3, <1>4, <1>5, <1>6, <1>7 DEF Core

\* A staging consensus is built on an empty prefix only.
LEMMA InitStagingConsensusStep ==
    ASSUME Core, NEW p \in Process, InitStagingConsensus(p)
    PROVE  Core'
<1>1. Types'
  <2>1. active # NoPrefix
    BY Processes DEF Core, Types, Alone, Busy, RecordsInv, InitStagingConsensus
  <2>2. inactive' \in {0, 1, 2} /\ staging' \in {0, 1, 2}
    BY <2>1 DEF Core, Types, InitStagingConsensus, BuildStaging, Flip, NoPrefix
  <2>3. /\ pc' \in [Process -> NewSteps \cup IBDSteps]
        /\ pc'[0] \in NewSteps
        /\ \A a \in Attempt : pc'[a] \in IBDSteps
    <3>1. CASE p = 0
      <4>1. Goto(0, "proof") \/ Goto(0, "commit") \/ Goto(0, "down")
        BY <3>1 DEF InitStagingConsensus, Goto
      <4>2. QED  BY <4>1, Processes DEF Core, Types, Goto, NewSteps
    <3>2. CASE p # 0
      <4>1. Goto(p, "proof") \/ Goto(p, "end") \/ Goto(p, "clean")
        BY <3>2 DEF InitStagingConsensus
      <4>2. QED  BY <3>2, <4>1, Processes DEF Core, Types, Goto, IBDSteps
    <3>3. QED  BY <3>1, <3>2
  <2>4. data' \in [Prefix -> SUBSET Key]
    BY Processes, Keys DEF Core, Types, InitStagingConsensus
  <2>5. QED  BY <2>2, <2>3, <2>4 DEF Core, Types, InitStagingConsensus, NoPrefix, history
<1>2. Alone'
  BY DEF Core, Types, Alone, Busy, InitStagingConsensus, Goto
<1>3. LockInv'
  BY DEF Core, Types, LockInv, InitStagingConsensus, Goto
<1>4. RecordsInv'
  <2>1. active \in {0, 1} /\ IsComplete(active) /\ inactive \in {NoPrefix, Flip(active)}
    BY Processes DEF Core, Types, RecordsInv, InitStagingConsensus, Alone, Busy, NoPrefix
  <2>2. /\ active' = active /\ inactive' \in {inactive, Flip(active)}
        /\ inactive' # NoPrefix /\ data'[active] = data[active]
    BY <2>1 DEF Core, Types, InitStagingConsensus, BuildStaging, Flip, NoPrefix, Prefix
  <2>3. QED  BY <2>1, <2>2 DEF RecordsInv, IsComplete, NoPrefix
<1>5. DeletionInv'
  BY DEF Core, DeletionInv, InitStagingConsensus
<1>6. StagingInv'
  <2>1. CASE p = 0 /\ pc'[0] = "commit"
    <3>1. /\ active \in {0, 1} /\ inactive' = Flip(active) /\ staging' = inactive'
          /\ data' = [data EXCEPT ![staging'] = AllOf(0)] /\ active' = active
          /\ Goto(0, "commit")
      BY <2>1, Processes DEF Core, Types, RecordsInv, InitStagingConsensus, BuildStaging,
         Alone, Busy, NoPrefix, Goto
    <3>2. data'[staging'] = AllOf(0)
      BY <3>1 DEF Core, Types, Flip, Prefix
    <3>3. KeptOf(staging)' = AllOf(0)
      BY <3>2, Processes, Keys DEF KeptOf
    <3>4. \A q \in Process : q # 0 => pc'[q] \in {"idle", "done"}
      BY <2>1, <3>1, <1>2, Processes DEF Alone, Busy
    <3>5. QED
      BY <2>1, <3>1, <3>3, <3>4, Processes DEF StagingInv, Stored, Staging, Flip, NoPrefix
  <2>2. CASE ~(p = 0 /\ pc'[0] = "commit")
    <3>1. data' = data
      BY <2>2, Processes DEF Core, Types, InitStagingConsensus, Goto
    <3>2. QED
      BY <2>2, <3>1, Processes DEF Core, Types, StagingInv, KeptOf, Stored, Staging, NoPrefix,
         Flip, Rest, InitStagingConsensus, BuildStaging, Goto, Alone, Busy, RecordsInv
  <2>3. QED  BY <2>1, <2>2
<1>7. ServedInv'
  BY Processes DEF Core, Types, Alone, ServedInv, Busy, IsUp, NewSteps, Goto,
     InitStagingConsensus
<1>8. QED  BY <1>1, <1>2, <1>3, <1>4, <1>5, <1>6, <1>7 DEF Core

\* The commit makes a complete consensus active and keeps the record of the
\* other one, which is still served.
LEMMA CommitStagingConsensusStep ==
    ASSUME Core, NEW p \in Process, CommitStagingConsensus(p)
    PROVE  Core'
<1>1. Types'
  BY Processes DEF Core, Types, NewSteps, IBDSteps, CommitStagingConsensus, Goto,
     history, StagingInv, Staging
<1>2. Alone'
  BY DEF Core, Types, Alone, Busy, CommitStagingConsensus, Goto
<1>3. LockInv'
  BY DEF Core, Types, LockInv, CommitStagingConsensus, Goto
<1>4. RecordsInv'
  BY Processes DEF Core, Types, RecordsInv, StagingInv, IsComplete, KeptOf, Flip,
     Stored, Staging, CommitStagingConsensus
<1>5. DeletionInv'
  BY DEF Core, Types, DeletionInv, Deletes, CommitStagingConsensus, Goto
<1>6. StagingInv'
  BY Processes DEF Core, Types, StagingInv, Staging, CommitStagingConsensus, Goto,
     Alone, Busy
<1>7. ServedInv'
  BY Processes DEF Core, Types, ServedInv, IsComplete, IsUp,
     CommitStagingConsensus, Goto, Alone, Busy, RecordsInv, StagingInv, Staging
<1>8. QED  BY <1>1, <1>2, <1>3, <1>4, <1>5, <1>6, <1>7 DEF Core

\* The consensus served from the switch on is the active one, and the deletion
\* that begins visits all of the other.
LEMMA SwitchConsensusStep ==
    ASSUME Core, NEW p \in Process, SwitchConsensus(p)
    PROVE  Core'
<1>1. Types'
  BY DEF Core, Types, ServedInv, NoPrefix, Prefix, NewSteps, IBDSteps, Goto,
     SwitchConsensus, database, history
<1>2. Alone'
  BY DEF Core, Alone, Busy, SwitchConsensus, Goto
<1>3. LockInv'
  BY DEF Core, LockInv, Deletes, SwitchConsensus, Goto
<1>4. RecordsInv'
  BY DEF Core, Types, RecordsInv, IsComplete, Rest, SwitchConsensus, Goto,
     database, history
<1>5. DeletionInv'
  BY DEF Core, DeletionInv, ServedInv, Rest, Goto, SwitchConsensus, database
<1>6. StagingInv'
  BY Processes DEF Core, StagingInv, Staging, SwitchConsensus, Goto, Alone, Busy
<1>7. ServedInv'
  BY DEF Core, Types, ServedInv, IsUp, SwitchConsensus, Goto, database, Alone,
     Busy
<1>8. QED  BY <1>1, <1>2, <1>3, <1>4, <1>5, <1>6, <1>7 DEF Core

\* New starts with the deletion of what the last process left.
LEMMA StartProcessStep ==
    ASSUME Core, StartProcess
    PROVE  Core'
<1>1. Types'
  BY Processes DEF Core, Types, NewSteps, StartProcess, Goto, database, domain,
     history
<1>2. Alone'
  BY DEF Core, Alone, Busy, StartProcess, Goto
<1>3. LockInv'
  BY DEF Core, LockInv, Deletes, StartProcess, Goto, domain
<1>4. RecordsInv'
  BY DEF Core, RecordsInv, IsComplete, Rest, StartProcess, Goto, database, history
<1>5. DeletionInv'
  BY DEF Core, Types, DeletionInv, Rest, StartProcess, Goto, database, domain,
     history, LockInv
<1>6. StagingInv'
  BY DEF Core, StagingInv, KeptOf, Staging, StartProcess, Goto, database, domain
<1>7. ServedInv'
  BY DEF Core, ServedInv, IsComplete, IsUp, StartProcess, Goto, database, domain
<1>8. QED  BY <1>1, <1>2, <1>3, <1>4, <1>5, <1>6, <1>7 DEF Core

\* The first start chooses a prefix that is empty.
LEMMA SetActivePrefixStep ==
    ASSUME Core, SetActivePrefix
    PROVE  Core'
<1>1. Types'
  BY Processes DEF Core, Types, NewSteps, SetActivePrefix, Goto, domain, history
<1>2. Alone'
  BY DEF Core, Alone, Busy, SetActivePrefix, Goto
<1>3. LockInv'
  BY DEF Core, LockInv, Deletes, SetActivePrefix, Goto, domain
<1>4. RecordsInv'
  BY DEF Core, RecordsInv, IsComplete, Rest, Flip, NoPrefix, SetActivePrefix,
     Goto, history
<1>5. DeletionInv'
  BY DEF Core, DeletionInv, Deletes, Rest, SetActivePrefix, Goto, domain, history
<1>6. StagingInv'
  BY DEF Core, StagingInv, KeptOf, Staging, SetActivePrefix, Goto, domain
<1>7. ServedInv'
  BY Processes DEF Core, ServedInv, IsUp, SetActivePrefix, Goto, Alone, Busy
<1>8. QED  BY <1>1, <1>2, <1>3, <1>4, <1>5, <1>6, <1>7 DEF Core

\* The consensus New opens is complete: what was there, or the genesis.
LEMMA OpenConsensusStep ==
    ASSUME Core, OpenConsensus
    PROVE  Core'
<1>1. Types'
  BY Processes, Keys DEF Core, Types, NewSteps, OpenConsensus, Goto, history
<1>2. Alone'
  BY DEF Core, Types, Alone, Busy, OpenConsensus, Goto
<1>3. LockInv'
  BY DEF Core, Types, LockInv, Deletes, OpenConsensus, Goto
<1>4. RecordsInv'
  <2>1. /\ active \in {0, 1} /\ active' = active /\ inactive' = inactive
        /\ data'[Flip(active)] = data[Flip(active)] /\ late' = late
    BY DEF Core, Types, RecordsInv, Flip, NoPrefix, Prefix, OpenConsensus, history
  <2>2. IsComplete(active) => IsComplete(active)'
    <3>1. \/ data'[active] = data[active] \ UTXOKeys(data[active])
          \/ data'[active] = data[active]
          \/ data[active] = {}
      BY <2>1 DEF Core, Types, OpenConsensus, Prefix
    <3>2. \A s \in Source : <<"proof", s>> \in AllOf(s)
      BY DEF AllOf, Kept
    <3>3. ~IsComplete(active) \/ data[active] # {}
      BY <3>2, Zenon DEF IsComplete
    <3>4. {k \in data[active] \ UTXOKeys(data[active]) : k[1] \in Kept} = {k \in data[active] : k[1] \in Kept}
      BY DEF UTXOKeys, Kept
    <3>5. QED  BY <2>1, <3>1, <3>3, <3>4, Zenon DEF IsComplete
  <2>3. data[active] = {} => (data' = data /\ pc'[0] = "down") \/ IsComplete(active)'
    BY <2>1, Processes, Keys DEF Core, Types, IsComplete, OpenConsensus, Prefix, Goto
  <2>4. QED  BY <2>1, <2>2, <2>3 DEF Core, RecordsInv, Rest, NoPrefix
<1>5. DeletionInv'
  BY Processes DEF Core, Types, DeletionInv, Deletes, OpenConsensus, Goto, Alone,
     Busy
<1>6. StagingInv'
  BY Processes DEF Core, Types, StagingInv, Staging, OpenConsensus, Goto, Alone,
     Busy
<1>7. ServedInv'
  BY Processes DEF Core, Types, ServedInv, IsUp, OpenConsensus, Goto, Alone, Busy
<1>8. QED  BY <1>1, <1>2, <1>3, <1>4, <1>5, <1>6, <1>7 DEF Core

\* The migration fills the staging consensus completely.
LEMMA SyncConsensusesStep ==
    ASSUME Core, SyncConsensuses
    PROVE  Core'
<1> DEFINE key == <<Copied(pc[0]), 0>>
<1>1. /\ pc[0] \in Copies /\ AfterCopy(pc[0]) \in {"points", "headers", "validate", "commit"}
      /\ key \in Key
  BY Processes DEF SyncConsensuses, Copies, Copied, AfterCopy, Key, Kept
<1>2. /\ active \in {0, 1} /\ inactive = Flip(active) /\ staging = inactive /\ lock = {}
      /\ KeptOf(staging) = Stored(0, pc[0])
      /\ \A q \in Process : q # 0 => pc[q] \in {"idle", "done"}
  BY <1>1, Processes DEF Core, Types, RecordsInv, StagingInv, Staging, LockInv, Deletes, Alone,
     Busy, Copies, NoPrefix
<1>3. /\ UNCHANGED <<active, inactive, lock, cursor, held, writer, history>>
      /\ \/ /\ data' = [data EXCEPT ![staging] = @ \cup {key}]
            /\ pc' = [pc EXCEPT ![0] = AfterCopy(pc[0])]
            /\ UNCHANGED <<consensus, staging>>
         \/ /\ data' = data /\ pc' = [pc EXCEPT ![0] = "down"]
            /\ consensus' = NoPrefix /\ staging' = NoPrefix
  BY DEF SyncConsensuses, Goto
<1> HIDE DEF key
<1>4. /\ pc'[0] \in {"points", "headers", "validate", "commit", "down"}
      /\ \A q \in Process : q # 0 => pc'[q] = pc[q]
  BY <1>1, <1>3, Processes DEF Core, Types
<1>5. Types'
  BY <1>1, <1>2, <1>3, <1>4, Processes DEF Core, Types, NewSteps, NoPrefix, Flip, history
<1>6. Alone' /\ LockInv' /\ DeletionInv'
  BY <1>2, <1>3, <1>4 DEF Alone, Busy, LockInv, DeletionInv
<1>7. RecordsInv'
  <2>1. data'[active] = data[active] /\ inactive' = Flip(active) /\ Flip(active) # NoPrefix
    BY <1>2, <1>3 DEF Core, Types, Flip, NoPrefix, Prefix
  <2>2. IsComplete(active)
    BY <1>1, <1>2 DEF Core, RecordsInv, Copies, NoPrefix
  <2>3. QED  BY <1>2, <1>3, <2>1, <2>2 DEF RecordsInv, IsComplete, NoPrefix
<1>8. StagingInv'
  <2>1. CASE pc'[0] = "down"
    <3>1. \A q \in Process : pc'[q] \notin Staging
      BY <1>2, <1>4, <2>1 DEF Staging
    <3>2. \A a \in Attempt : pc'[a] # "utxos"
      BY <3>1, Processes DEF Staging
    <3>3. staging' = NoPrefix
      BY <1>1, <1>3, <2>1, Processes DEF Core, Types
    <3>4. QED  BY <3>1, <3>2, <3>3, Zenon DEF StagingInv
  <2>2. CASE pc'[0] # "down"
    <3>1. pc'[0] = AfterCopy(pc[0]) /\ staging' = staging /\ staging \in Prefix
      BY <1>2, <1>3, <2>2, Processes DEF Core, Types, Flip, Prefix
    <3>2. KeptOf(staging)' = KeptOf(staging) \cup {key}
      BY <1>1, <1>3, <2>2, <3>1, Processes DEF Core, Types, KeptOf, key, Copied, Copies, Kept
    <3>3. Stored(0, AfterCopy(pc[0])) = Stored(0, pc[0]) \cup {key}
      BY <1>1 DEF Stored, AfterCopy, Copies, Copied, key, AllOf, Kept
    <3>4. KeptOf(staging)' = Stored(0, pc'[0])
      BY <1>2, <3>1, <3>2, <3>3
    <3>5. QED
      BY <1>2, <1>3, <1>4, <3>1, <3>4, Processes DEF StagingInv, Staging, NoPrefix, Flip
  <2>3. QED  BY <2>1, <2>2
<1>9. ServedInv'
  <2>1. \A q \in Process : pc[q] # "switch" /\ pc'[q] # "switch"
    BY <1>1, <1>2, <1>4 DEF Copies
  <2>2. ~IsUp /\ writer' = writer /\ (pc'[0] # "down" => consensus' = consensus)
    BY <1>1, <1>3, Processes DEF Core, Types, Copies, IsUp
  <2>3. consensus = active /\ writer = NoPrefix
    BY <1>1, <2>1, <2>2 DEF Core, ServedInv, Copies
  <2>4. QED  BY <1>3, <1>4, <2>1, <2>2, <2>3 DEF ServedInv
<1>10. QED  BY <1>5, <1>6, <1>7, <1>8, <1>9 DEF Core

\* An IBD that starts with no other one running is alone.
LEMMA TrySetIBDRunningStep ==
    ASSUME Core, NEW a \in Attempt, TrySetIBDRunning(a), ~overtaken'
    PROVE  Core'
<1>1. Types'
  BY Processes DEF Core, Types, IBDSteps, TrySetIBDRunning, Goto, database, domain
<1>2. Alone'
  <2>1. \A b \in Attempt : ~IsRunning(b)
    BY Zenon DEF TrySetIBDRunning
  <2>2. \A q \in Process : Busy(q)' => q = a
    BY <2>1, Processes DEF Core, Types, Busy, TrySetIBDRunning, IsRunning, IsUp, Goto
  <2>3. QED  BY <2>2 DEF Alone
<1>3. LockInv'
  BY DEF Core, LockInv, Deletes, TrySetIBDRunning, Goto, domain
<1>4. RecordsInv'
  BY DEF Core, Types, RecordsInv, IsComplete, Rest, TrySetIBDRunning, Goto,
     database
<1>5. DeletionInv'
  BY DEF Core, Types, DeletionInv, Deletes, Rest, TrySetIBDRunning, Goto,
     database, domain
<1>6. StagingInv'
  BY DEF Core, Types, StagingInv, KeptOf, Staging, TrySetIBDRunning, Goto,
     database, domain
<1>7. ServedInv'
  BY DEF Core, Types, ServedInv, IsComplete, IsUp, TrySetIBDRunning, Goto,
     database, domain
<1>8. QED  BY <1>1, <1>2, <1>3, <1>4, <1>5, <1>6, <1>7 DEF Core

\* An IBD that ends leaves everything as it is.
LEMMA UnsetIBDRunningStep ==
    ASSUME Core, NEW a \in Attempt, UnsetIBDRunning(a)
    PROVE  Core'
<1>1. Types'
  BY Processes DEF Core, Types, IBDSteps, UnsetIBDRunning, Goto, database, domain,
     history
<1>2. Alone'
  BY DEF Core, Alone, Busy, UnsetIBDRunning, Goto
<1>3. LockInv'
  BY DEF Core, LockInv, Deletes, UnsetIBDRunning, Goto, domain
<1>4. RecordsInv'
  BY DEF Core, RecordsInv, IsComplete, Rest, UnsetIBDRunning, Goto, database,
     history
<1>5. DeletionInv'
  BY DEF Core, DeletionInv, Deletes, Rest, UnsetIBDRunning, Goto, database,
     domain, history
<1>6. StagingInv'
  BY DEF Core, StagingInv, KeptOf, Staging, UnsetIBDRunning, Goto, database,
     domain
<1>7. ServedInv'
  BY DEF Core, ServedInv, IsComplete, IsUp, UnsetIBDRunning, Goto, database,
     domain
<1>8. QED  BY <1>1, <1>2, <1>3, <1>4, <1>5, <1>6, <1>7 DEF Core

\* The first part of the download goes to the empty staging consensus.
LEMMA ApplyPruningPointProofStep ==
    ASSUME Core, NEW a \in Attempt, ApplyPruningPointProof(a), ~Panic
    PROVE  Core'
<1>1. Types'
  BY Processes DEF Core, Types, StagingInv, Staging, Kept, IBDSteps, Goto,
     ApplyPruningPointProof, RequireStagingConsensus, Key, history
<1>2. Alone'
  BY DEF Core, Types, Alone, Busy, ApplyPruningPointProof, Goto
<1>3. LockInv'
  BY Zenon DEF Core, Types, LockInv, ApplyPruningPointProof, Goto
<1>4. RecordsInv'
  BY Processes DEF Core, Types, RecordsInv, IsComplete, Flip, Prefix,
     ApplyPruningPointProof, RequireStagingConsensus, Goto, Alone, Busy, StagingInv,
     Staging
<1>5. DeletionInv'
  BY DEF Core, DeletionInv, ApplyPruningPointProof, Goto
<1>6. StagingInv'
  BY Processes DEF Core, Types, StagingInv, KeptOf, Stored, Staging, NoPrefix,
     Kept, Prefix, ApplyPruningPointProof, RequireStagingConsensus, Goto, Alone, Busy
<1>7. ServedInv'
  BY Processes DEF Core, Types, ServedInv, IsUp, ApplyPruningPointProof, Goto,
     Alone, Busy
<1>8. QED  BY <1>1, <1>2, <1>3, <1>4, <1>5, <1>6, <1>7 DEF Core

\* The second part of the download follows the first.
LEMMA ImportPruningPointsStep ==
    ASSUME Core, NEW a \in Attempt, ImportPruningPoints(a), ~Panic
    PROVE  Core'
<1>1. Types'
  BY Processes DEF Core, Types, Kept, IBDSteps, Goto, ImportPruningPoints, Key,
     domain, history
<1>2. Alone'
  BY DEF Core, Types, Alone, Busy, ImportPruningPoints, Goto
<1>3. LockInv'
  BY Zenon DEF Core, Types, LockInv, ImportPruningPoints, Goto, domain
<1>4. RecordsInv'
  BY Processes DEF Core, Types, RecordsInv, IsComplete, Flip, Prefix,
     ImportPruningPoints, Goto, Alone, Busy, StagingInv, Staging
<1>5. DeletionInv'
  BY DEF Core, DeletionInv, ImportPruningPoints, Goto, domain
<1>6. StagingInv'
  BY Processes DEF Core, Types, StagingInv, KeptOf, Stored, Staging, NoPrefix,
     Kept, Prefix, ImportPruningPoints, Goto, domain, Alone, Busy
<1>7. ServedInv'
  BY Processes DEF Core, Types, ServedInv, IsUp, ImportPruningPoints, Goto,
     domain, Alone, Busy
<1>8. QED  BY <1>1, <1>2, <1>3, <1>4, <1>5, <1>6, <1>7 DEF Core

\* The headers follow, in the consensus that the flow holds from here on.
LEMMA SyncHeadersStep ==
    ASSUME Core, NEW a \in Attempt, SyncHeaders(a), ~Panic
    PROVE  Core'
<1>1. Types'
  BY Processes DEF Core, Types, Alone, StagingInv, Busy, Staging, Kept, IBDSteps,
     Goto, SyncHeaders, RequireStagingConsensus, Key, history
<1>2. Alone'
  BY DEF Core, Types, Alone, Busy, SyncHeaders, Goto
<1>3. LockInv'
  BY Zenon DEF Core, Types, LockInv, SyncHeaders, Goto
<1>4. RecordsInv'
  BY Processes DEF Core, Types, RecordsInv, IsComplete, Flip, Prefix, SyncHeaders,
     RequireStagingConsensus, Goto, Alone, Busy, StagingInv, Staging
<1>5. DeletionInv'
  BY DEF Core, DeletionInv, SyncHeaders, Goto
<1>6. StagingInv'
  BY Processes DEF Core, Types, StagingInv, KeptOf, Stored, Staging, NoPrefix,
     Kept, Prefix, SyncHeaders, RequireStagingConsensus, Goto, Alone, Busy
<1>7. ServedInv'
  BY Processes DEF Core, Types, ServedInv, IsUp, SyncHeaders, Goto, Alone, Busy
<1>8. QED  BY <1>1, <1>2, <1>3, <1>4, <1>5, <1>6, <1>7 DEF Core

\* The imported set is no part of the consensus until it is validated.
LEMMA AppendImportedUTXOsStep ==
    ASSUME Core, NEW a \in Attempt, AppendImportedUTXOs(a)
    PROVE  Core'
<1>1. Types'
  BY Processes DEF Core, Types, Prefix, IBDSteps, NoPrefix, AppendImportedUTXOs,
     Key, Goto, domain, history, Alone, Busy, StagingInv, Staging
<1>2. Alone'
  BY DEF Core, Alone, Busy, AppendImportedUTXOs, Goto
<1>3. LockInv'
  BY Zenon DEF Core, Types, LockInv, Deletes, AppendImportedUTXOs, Goto, domain
<1>4. RecordsInv'
  BY Processes DEF Core, Types, RecordsInv, IsComplete, Flip, AppendImportedUTXOs,
     Goto, Alone, Busy, StagingInv, Staging
<1>5. DeletionInv'
  BY Processes DEF Core, Types, DeletionInv, Deletes, AppendImportedUTXOs, Goto,
     domain, Alone, Busy
<1>6. StagingInv'
  BY DEF Core, Types, StagingInv, KeptOf, Stored, Staging, Kept,
     AppendImportedUTXOs, Goto, domain
<1>7. ServedInv'
  BY Processes DEF Core, Types, ServedInv, IsUp, AppendImportedUTXOs, Goto,
     domain, Alone, Busy
<1>8. QED  BY <1>1, <1>2, <1>3, <1>4, <1>5, <1>6, <1>7 DEF Core

\* A failed download goes to the deletion or to the end.
LEMMA FailDownloadStep ==
    ASSUME Core, NEW a \in Attempt, FailDownload(a)
    PROVE  Core'
<1>1. Types'
  BY Processes DEF Core, Types, IBDSteps, FailDownload, FailedDownload, Goto,
     database, domain, history
<1>2. Alone'
  BY DEF Core, Alone, Busy, FailDownload, Goto
<1>3. LockInv'
  BY DEF Core, LockInv, Deletes, FailDownload, FailedDownload, Goto, domain
<1>4. RecordsInv'
  BY DEF Core, Types, RecordsInv, IsComplete, Rest, FailDownload, Goto, database,
     history
<1>5. DeletionInv'
  BY DEF Core, Types, DeletionInv, Rest, FailDownload, Goto, database, domain,
     history, LockInv
<1>6. StagingInv'
  BY DEF Core, Types, StagingInv, KeptOf, Staging, FailDownload, FailedDownload,
     Goto, database, domain
<1>7. ServedInv'
  BY DEF Core, Types, ServedInv, IsComplete, IsUp, FailDownload, FailedDownload,
     Goto, database, domain
<1>8. QED  BY <1>1, <1>2, <1>3, <1>4, <1>5, <1>6, <1>7 DEF Core

\* The validated set makes the staging consensus complete; a refused one is
\* cleared and does not lead to the commit.
LEMMA ValidateImportedPruningPointStep ==
    ASSUME Core, NEW a \in Attempt, ValidateImportedPruningPoint(a), ~Panic
    PROVE  Core'
<1>1. Types'
  BY Processes DEF Core, Types, Kept, IBDSteps, Goto,
     ValidateImportedPruningPoint, FailedDownload, Key, domain, history
<1>2. Alone'
  BY DEF Core, Types, Alone, Busy, ValidateImportedPruningPoint, Goto
<1>3. LockInv'
  BY Zenon DEF Core, Types, LockInv, ValidateImportedPruningPoint, FailedDownload, Goto,
     domain
<1>4. RecordsInv'
  BY Processes DEF Core, Types, RecordsInv, IsComplete, Flip, Prefix,
     ValidateImportedPruningPoint, Goto, Alone, Busy, StagingInv, Staging
<1>5. DeletionInv'
  BY DEF Core, Types, DeletionInv, ValidateImportedPruningPoint, Goto, domain
<1>6. StagingInv'
  BY Processes DEF Core, Types, StagingInv, KeptOf, Stored, Staging, NoPrefix,
     AllOf, Kept, Prefix, ValidateImportedPruningPoint, SetIsValid, FailedDownload,
     Goto, domain
<1>7. ServedInv'
  BY Processes DEF Core, Types, ServedInv, IsUp, ValidateImportedPruningPoint,
     FailedDownload, Goto, domain, Alone, Busy
<1>8. QED  BY <1>1, <1>2, <1>3, <1>4, <1>5, <1>6, <1>7 DEF Core

\* An insertion begins on the served consensus.
LEMMA BeginInsertionStep ==
    ASSUME Core, BeginInsertion
    PROVE  Core'
<1>1. Types'
  BY DEF Core, Types, BeginInsertion, database, domain, flows, history
<1>2. Alone'
  BY DEF Core, Alone, Busy, BeginInsertion, flows
<1>3. LockInv'
  BY DEF Core, LockInv, BeginInsertion, domain, flows
<1>4. RecordsInv'
  BY DEF Core, Types, RecordsInv, IsComplete, Rest, BeginInsertion, database,
     flows, history
<1>5. DeletionInv'
  BY DEF Core, Types, DeletionInv, Rest, BeginInsertion, database, domain, flows,
     history
<1>6. StagingInv'
  BY DEF Core, Types, StagingInv, KeptOf, BeginInsertion, database, domain, flows
<1>7. ServedInv'
  BY DEF Core, Types, ServedInv, IsComplete, IsUp, BeginInsertion, database,
     domain, flows
<1>8. QED  BY <1>1, <1>2, <1>3, <1>4, <1>5, <1>6, <1>7 DEF Core

\* An insertion that ends adds no part of a consensus, and does not write where
\* a deletion is due unless it ends late.
LEMMA EndInsertionStep ==
    ASSUME Core, EndInsertion
    PROVE  Core'
<1>1. IsUp /\ writer \in Prefix
  BY DEF Core, Types, ServedInv, EndInsertion, NoPrefix, Prefix
<1>2. /\ late' => \A q \in Prefix : Rest(q)' \subseteq Rest(q)
      /\ \A q \in Prefix : KeptOf(q)' = KeptOf(q)
  BY <1>1 DEF Core, Types, EndInsertion, Rest, KeptOf, Kept, Prefix
<1>3. ~late' => ~late /\ writer = consensus
  BY Zenon DEF EndInsertion
<1>4. ~late' => writer = consensus /\ ~late /\ \A q \in Prefix : q # consensus => Rest(q)' = Rest(q)
  BY <1>1, <1>3 DEF Core, Types, EndInsertion, Rest
<1>5. active \in Prefix /\ Flip(active) \in Prefix /\ Flip(active) # active
  BY <1>1 DEF Core, Types, RecordsInv, IsUp, NoPrefix, Prefix, Flip
<1>6. IsComplete(active)'
  BY <1>1, <1>2, <1>5 DEF Core, RecordsInv, IsUp, IsComplete, KeptOf, EndInsertion
<1>7. inactive = NoPrefix => consensus = active
  BY <1>1, Processes DEF Core, ServedInv, IsUp
<1>8. RecordsInv'
  BY <1>2, <1>4, <1>5, <1>6, <1>7 DEF Core, RecordsInv, EndInsertion, NoPrefix, Prefix
<1>9. ASSUME NEW q \in lock, pc[q] \in Deletes
      PROVE  consensus = active /\ inactive # active
  BY <1>9, <1>1, <1>5, Processes DEF Core, Types, Alone, LockInv, RecordsInv, DeletionInv, ServedInv, Busy, Deletes, IsUp, NoPrefix
<1>10. DeletionInv'
  BY <1>2, <1>4, <1>9 DEF Core, Types, DeletionInv, EndInsertion, NoPrefix, Prefix, flows, domain
<1>11. Types'
  BY Processes DEF Core, Types, Prefix, NoPrefix, EndInsertion, Key, domain, flows
<1>12. Alone'
  BY DEF Core, Types, Alone, Busy, EndInsertion, flows
<1>13. LockInv'
  BY DEF Core, Types, LockInv, EndInsertion, domain, flows
<1>14. StagingInv'
  BY DEF Core, Types, StagingInv, KeptOf, Kept, EndInsertion, domain, flows
<1>15. ServedInv'
  BY DEF Core, Types, ServedInv, IsComplete, Kept, EndInsertion, domain, flows
<1>16. QED  BY <1>8, <1>10, <1>11, <1>12, <1>13, <1>14, <1>15 DEF Core

\* When the process ends, by a crash or by a panic, the database is such that
\* New can start from it.
LEMMA ProcessEndsStep ==
    ASSUME Core, ProcessEnds, UNCHANGED <<database, history>>
    PROVE  Core'
<1>1. Types'
  BY Processes DEF Core, Types, ProcessEnds, NewSteps, IBDSteps, NoPrefix, database, history
<1>2. Alone'
  BY Processes DEF Core, Types, Alone, Busy, ProcessEnds
<1>3. LockInv' /\ DeletionInv'
  BY Processes, Zenon DEF LockInv, DeletionInv, ProcessEnds
<1>4. RecordsInv'
  BY Processes, Zenon DEF Core, Types, RecordsInv, Rest, IsComplete, ProcessEnds, database, history
<1>5. StagingInv'
  BY Processes DEF Core, Types, StagingInv, Staging, IBDSteps, ProcessEnds, NoPrefix
<1>6. ServedInv'
  BY Processes, Zenon DEF Core, Types, ServedInv, IsUp, IBDSteps, ProcessEnds, NoPrefix
<1>7. QED  BY <1>1, <1>2, <1>3, <1>4, <1>5, <1>6, Zenon DEF Core

\* The place of the one IBD, the routes and the bounds play no part in the
\* invariant.
LEMMA Frame ==
    ASSUME Core, UNCHANGED <<database, domain, pc, held, writer, late>>
    PROVE  Core'
  BY DEF Core, Types, Alone, Busy, LockInv, RecordsInv, Rest, IsComplete, DeletionInv,
         StagingInv, KeptOf, ServedInv, IsUp, database, domain

\* The invariant holds of a new database and of one of an old version.
LEMMA InitInv == Init => IInv
<1> SUFFICES ASSUME Init PROVE Core /\ overtaken \in BOOLEAN
  BY DEF IInv
<1>1. late = FALSE /\ overtaken = FALSE
  BY DEF Init
<1>2. Types
  <2>1. data \in [Prefix -> SUBSET Key]
    BY Processes, Keys DEF Init
  <2>2. late \in BOOLEAN
    BY <1>1, Zenon
  <2>3. QED  BY <2>1, <2>2, Processes DEF Init, Types, NewSteps, IBDSteps, NoPrefix
<1>3. Alone /\ LockInv /\ DeletionInv
  BY Processes DEF Init, Alone, Busy, LockInv, DeletionInv
<1>4. RecordsInv
  <2>1. CASE active = NoPrefix
    BY <2>1, Processes DEF Init, RecordsInv, NoPrefix, Prefix
  <2>2. CASE active = 0
    <3>1. data[0] = AllOf(OldVersion) /\ data[1] = {}
      BY <2>2 DEF Init, NoPrefix, Prefix
    <3>2. IsComplete(0)
      BY <3>1, Processes, Keys DEF IsComplete
    <3>3. QED  BY <2>2, <3>1, <3>2 DEF Init, RecordsInv, Rest, NoPrefix, Flip
  <2>3. QED  BY <2>1, <2>2 DEF Init
<1>5. StagingInv /\ ServedInv
  BY Processes DEF Init, StagingInv, Staging, ServedInv, IsUp, NoPrefix
<1>6. overtaken \in BOOLEAN
  BY <1>1, Zenon
<1>7. QED  BY <1>2, <1>3, <1>4, <1>5, <1>6 DEF Core

\* Every step of New, an IBD, an insertion or a crash preserves the invariant.
LEMMA NextInv == IInv /\ [Next]_vars => IInv'
<1> SUFFICES ASSUME IInv, [Next]_vars PROVE IInv'
  OBVIOUS
<1>1. overtaken' \in BOOLEAN /\ (overtaken => overtaken')
  <2>1. CASE overtaken' = overtaken
    BY <2>1 DEF IInv
  <2>2. CASE \E a \in Attempt : TrySetIBDRunning(a)
    BY <2>2, Zenon DEF TrySetIBDRunning
  <2>3. ASSUME NEW p \in Process, DomainStep(p) PROVE overtaken' = overtaken
    BY <2>3, Zenon DEF DomainStep, BeginDelete, DeleteKey, EndDelete, FailDelete,
       InitStagingConsensus, CommitStagingConsensus, SwitchConsensus, history
  <2>4. CASE NewStep
    BY <2>1, <2>3, <2>4, Processes, Zenon DEF NewStep, StartProcess, SetActivePrefix, OpenConsensus,
       SyncConsensuses, history
  <2>5. ASSUME NEW a \in Attempt, IBDStep(a) PROVE overtaken' = overtaken
    BY <2>3, <2>5, Processes DEF IBDStep, UnsetIBDRunning, ApplyPruningPointProof,
       ImportPruningPoints, SyncHeaders, AppendImportedUTXOs, FailDownload,
       ValidateImportedPruningPoint, Panic, history
  <2>6. CASE \E a \in Attempt : TimeoutIBD(a)
    BY <2>1, <2>6 DEF TimeoutIBD, history
  <2>7. CASE BeginInsertion \/ EndInsertion \/ NilConsensus \/ Crash \/ UNCHANGED vars
    BY <2>1, <2>7 DEF BeginInsertion, EndInsertion, NilConsensus, Panic, Crash, vars, history
  <2>8. QED  BY <2>1, <2>2, <2>4, <2>5, <2>6, <2>7 DEF Next
<1> SUFFICES ASSUME ~overtaken' PROVE Core'
  BY <1>1 DEF IInv
<1> USE <1>1 DEF IInv
<1>2. ASSUME NEW p \in Process, DomainStep(p) PROVE Core'
  BY <1>2, BeginDeleteStep, DeleteKeyStep, EndDeleteStep, FailDeleteStep,
     InitStagingConsensusStep, CommitStagingConsensusStep, SwitchConsensusStep DEF DomainStep
<1>3. ASSUME Panic PROVE Core'
  BY <1>3, ProcessEndsStep DEF Panic
<1>4. CASE NewStep
  BY <1>2, <1>4, Processes, StartProcessStep, SetActivePrefixStep, OpenConsensusStep,
     SyncConsensusesStep DEF NewStep
<1>5. ASSUME NEW a \in Attempt, IBDStep(a) PROVE Core'
  BY <1>2, <1>3, <1>5, Processes, UnsetIBDRunningStep, ApplyPruningPointProofStep,
     ImportPruningPointsStep, SyncHeadersStep, AppendImportedUTXOsStep, FailDownloadStep,
     ValidateImportedPruningPointStep DEF IBDStep
<1>6. ASSUME NEW a \in Attempt, TrySetIBDRunning(a) \/ TimeoutIBD(a) PROVE Core'
  BY <1>6, TrySetIBDRunningStep, Frame DEF TimeoutIBD, history
<1>7. CASE BeginInsertion \/ EndInsertion
  BY <1>7, BeginInsertionStep, EndInsertionStep
<1>8. CASE NilConsensus \/ Crash
  BY <1>3, <1>8, ProcessEndsStep DEF NilConsensus, Crash
<1>9. CASE UNCHANGED vars
  BY <1>9, Frame DEF vars, flows, history
<1>10. QED  BY <1>4, <1>5, <1>6, <1>7, <1>8, <1>9 DEF Next

-----------------------------------------------------------------------------

\* The invariant holds at every step of the domain's prefixes.
THEOREM Invariance == Spec => []IInv
<1>1. QED  BY InitInv, NextInv, PTL DEF Spec

\* Wherever the process stops, the active prefix holds a complete consensus,
\* or is the empty one of a node that never opened one.
THEOREM ActiveComplete == Spec => []ActiveIsComplete
<1>1. ASSUME IInv, ~overtaken, active # NoPrefix
      PROVE  IsComplete(active) \/ (data[active] = {} /\ ~IsUp)
  BY <1>1 DEF IInv, Core, RecordsInv, IsUp
<1>2. IInv => ActiveIsComplete
  BY <1>1, Zenon DEF ActiveIsComplete
<1>3. QED  BY <1>2, Invariance, PTL

\* The consensus that flows and RPC calls reach through Consensus() keeps all
\* of its data while it is served.
THEOREM ServedComplete == Spec => []ServedIsComplete
<1>1. IInv => ServedIsComplete
  BY DEF IInv, Core, Types, RecordsInv, ServedInv, ServedIsComplete, IsUp, NoPrefix
<1>2. QED  BY <1>1, Invariance, PTL

\* No crash or failed call leaves data under a prefix that no record names.
THEOREM NothingUnreachable == Spec => []NoUnreachableData
<1>1. ASSUME IInv, ~overtaken, ~late, NEW p \in Prefix, p \notin {active, inactive}
      PROVE  data[p] = {}
  BY <1>1 DEF IInv, Core, Types, RecordsInv, Rest, Flip, NoPrefix, Prefix
<1>2. IInv => NoUnreachableData
  BY <1>1 DEF NoUnreachableData
<1>3. QED  BY <1>2, Invariance, PTL

=============================================================================
