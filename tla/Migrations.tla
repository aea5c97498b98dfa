----------------------------- MODULE Migrations -----------------------------
(***************************************************************************)
(* Instances of the backend start: the tables of initDatabase are made,    *)
(* the pending migrations run (migrate.ts), each in a transaction with the *)
(* row that records it, and the instance serves.  A migration that fails   *)
(* is recorded too, in a statement of its own, and the instance exits.     *)
(* There is no lock: two instances may run one migration at a time, and    *)
(* the second to record it fails on the unique file name.                  *)
(***************************************************************************)
EXTENDS Naturals, FiniteSets, Sequences

CONSTANTS
    Files,          \* the migrations, numbered in file name order
    Instances,
    Failing,        \* files whose SQL fails on the tables of initDatabase
    Reversible,     \* files with a .down.sql
    MaxStarts,      \* bound on starts and rollbacks
    MaxCrashes

MigrationsAssumption ==
    /\ Files \subseteq Nat /\ IsFiniteSet(Files)
    /\ Failing \subseteq Files /\ Reversible \subseteq Files
    /\ MaxStarts \in Nat /\ MaxCrashes \in Nat

VARIABLES
    records,    \* schema_migrations in order of id: file and failed
    inForce,    \* the files whose SQL is in force
    instance,   \* instance[i]: its state
    pending,    \* pending[i]: the files it has still to run
    starts,
    crashes

vars == <<records, inForce, instance, pending, starts, crashes>>

States == {"down", "migrating", "failing", "serving"}
Recorded == {records[k].file : k \in DOMAIN records}
Next1(i) == CHOOSE f \in pending[i] : \A g \in pending[i] : f <= g

Init ==
    /\ records = <<>>
    /\ inForce = {}
    /\ instance = [i \in Instances |-> "down"]
    /\ pending = [i \in Instances |-> {}]
    /\ starts = 0
    /\ crashes = 0

\* getAppliedMigrations takes every recorded file for applied, failed or not.
Start(i) ==
    /\ instance[i] = "down"
    /\ starts < MaxStarts /\ starts' = starts + 1
    /\ pending' = [pending EXCEPT ![i] = Files \ Recorded]
    /\ instance' = [instance EXCEPT ![i] = "migrating"]
    /\ UNCHANGED <<records, inForce, crashes>>

\* Mistaken variant: the SQL stays in force when its record cannot be made.
ApplyOutsideTransaction(i) ==
    LET f == Next1(i) IN
    /\ instance[i] = "migrating" /\ pending[i] # {}
    /\ IF f \notin Failing /\ f \notin Recorded
       THEN /\ inForce' = inForce \cup {f}
            /\ UNCHANGED <<records, instance>>
            /\ pending' = [pending EXCEPT ![i] = @ \ {f}]
       ELSE instance' = [instance EXCEPT ![i] = "failing"] /\ UNCHANGED <<records, inForce, pending>>
    /\ UNCHANGED <<starts, crashes>>
\* BEGIN, the SQL, the record, COMMIT; or ROLLBACK.
Apply(i) ==
    LET f == Next1(i) IN
    /\ instance[i] = "migrating" /\ pending[i] # {}
    /\ IF f \notin Failing /\ f \notin Recorded
       THEN /\ records' = Append(records, [file |-> f, failed |-> FALSE])
            /\ inForce' = inForce \cup {f}
            /\ pending' = [pending EXCEPT ![i] = @ \ {f}]
            /\ UNCHANGED instance
       ELSE instance' = [instance EXCEPT ![i] = "failing"] /\ UNCHANGED <<records, inForce, pending>>
    /\ UNCHANGED <<starts, crashes>>

\* The failure is recorded, over the row of another instance if there is one.
RecordFailure(i) ==
    LET f == Next1(i) IN
    /\ instance[i] = "failing"
    /\ records' = IF f \in Recorded
                  THEN [k \in DOMAIN records |->
                           IF records[k].file = f THEN [file |-> f, failed |-> TRUE] ELSE records[k]]
                  ELSE Append(records, [file |-> f, failed |-> TRUE])
    /\ instance' = [instance EXCEPT ![i] = "down"]
    /\ pending' = [pending EXCEPT ![i] = {}]
    /\ UNCHANGED <<inForce, starts, crashes>>

\* The rest of start: the KYC service, the webhook routes, the jobs.
Serve(i) ==
    /\ instance[i] = "migrating" /\ pending[i] = {}
    /\ instance' = [instance EXCEPT ![i] = "serving"]
    /\ UNCHANGED <<records, inForce, pending, starts, crashes>>

\* SIGTERM, an error, or the end of the process.
Stop(i) ==
    /\ instance[i] # "down"
    /\ \/ instance[i] = "serving" /\ UNCHANGED crashes
       \/ instance[i] # "serving" /\ crashes < MaxCrashes /\ crashes' = crashes + 1
    /\ instance' = [instance EXCEPT ![i] = "down"]
    /\ pending' = [pending EXCEPT ![i] = {}]
    /\ UNCHANGED <<records, inForce, starts>>

LastFile == records[Len(records)].file

\* migrate:rollback takes the last record, whether or not it failed.
Rollback ==
    /\ records # <<>> /\ LastFile \in Reversible
    /\ starts < MaxStarts /\ starts' = starts + 1
    /\ records' = SubSeq(records, 1, Len(records) - 1)
    /\ inForce' = inForce \ {LastFile}
    /\ UNCHANGED <<instance, pending, crashes>>

Next == Rollback \/ \E i \in Instances :
            Start(i) \/ Apply(i) \/ RecordFailure(i) \/ Serve(i) \/ Stop(i)

Spec == Init /\ [][Next]_vars

-----------------------------------------------------------------------------
TypeOK ==
    /\ records \in Seq([file : Files, failed : BOOLEAN])
    /\ inForce \in SUBSET Files
    /\ instance \in [Instances -> States]
    /\ pending \in [Instances -> SUBSET Files]
    /\ starts \in 0..MaxStarts /\ crashes \in 0..MaxCrashes

(***************************************************************************)
(* However instances race, crash and roll back, no file is recorded twice, *)
(* every migration in force is recorded, and one recorded without a        *)
(* failure is in force.  (One recorded as failed may be in force as well:  *)
(* the instance that came second says so of the first one's.)              *)
(***************************************************************************)
RecordsTellWhatIsInForce ==
    /\ \A j, k \in DOMAIN records : records[j].file = records[k].file => j = k
    /\ inForce \subseteq Recorded
    /\ \A k \in DOMAIN records : ~records[k].failed => records[k].file \in inForce

(***************************************************************************)
(* What index.ts:50 says of a start, "Run pending migrations automatically *)
(* on startup": an instance that serves has every migration in force, if   *)
(* none was rolled back.                                                   *)
(***************************************************************************)
ServingMeansMigrated ==
    \A i \in Instances : instance[i] = "serving" => inForce = Files

\* The inductive invariant: an instance that records a failure has the file before it.
FailingHasItsFile == \A i \in Instances : instance[i] = "failing" => pending[i] # {}
IInv == TypeOK /\ FailingHasItsFile /\ RecordsTellWhatIsInForce
=============================================================================
