---------------------------- MODULE AdminCouncil ----------------------------
(***************************************************************************)
(* Who administers the contract (lib.rs and storage.rs).  The contract     *)
(* keeps this in four places that separate entry points update: a flag per *)
(* address, a Role::Admin assignment per address, a count of admins, and   *)
(* the legacy single admin that older entry points are gated on.           *)
(***************************************************************************)
EXTENDS Integers, FiniteSets

CONSTANTS
    Addresses,
    Nobody,             \* no pending transfer
    RoleTargets,        \* addresses assign_role and remove_role are called on
    TransferTargets,    \* addresses propose_admin is called with
    MaxAdminCount       \* bound on the stored admin count

ASSUME AdminAssumption ==
    /\ Nobody \notin Addresses /\ IsFiniteSet(Addresses)
    /\ RoleTargets \subseteq Addresses /\ TransferTargets \subseteq Addresses
    /\ MaxAdminCount \in Nat \ {0}

VARIABLES
    admins,         \* addresses whose AdminRole flag is set
    roleAdmins,     \* addresses assigned Role::Admin
    adminCount,     \* the stored AdminCount
    legacy,         \* the legacy admin
    pendingAdmin    \* the address a transfer was proposed to, or Nobody

adminVars == <<admins, roleAdmins, adminCount, legacy, pendingAdmin>>

AdminInit ==
    /\ legacy \in Addresses
    /\ admins = {legacy}
    /\ roleAdmins = {legacy}
    /\ adminCount = 1
    /\ pendingAdmin = Nobody

\* Mistaken variant: adds an address that may already be an admin.
AddAdminAgain(caller, a) ==
    /\ caller \in admins
    /\ adminCount < MaxAdminCount
    /\ admins' = admins \cup {a}
    /\ roleAdmins' = roleAdmins \cup {a}
    /\ adminCount' = adminCount + 1
    /\ UNCHANGED <<legacy, pendingAdmin>>

AddAdmin(caller, a) ==
    /\ caller \in admins
    /\ a \notin admins
    /\ adminCount < MaxAdminCount
    /\ admins' = admins \cup {a}
    /\ roleAdmins' = roleAdmins \cup {a}
    /\ adminCount' = adminCount + 1
    /\ UNCHANGED <<legacy, pendingAdmin>>

\* What removing an admin does, on behalf of the remover.
DropAdmin(remover, a) ==
    /\ admins' = admins \ {a}
    /\ roleAdmins' = roleAdmins \ {a}
    /\ adminCount' = adminCount - 1
    /\ legacy' = IF legacy = a THEN remover ELSE legacy
    /\ UNCHANGED pendingAdmin

\* Mistaken variant: may remove the last admin.
RemoveAdminEvenLast(caller, a) ==
    /\ caller \in admins
    /\ a \in admins
    /\ DropAdmin(caller, a)

RemoveAdmin(caller, a) ==
    /\ caller \in admins
    /\ a \in admins
    /\ adminCount > 1
    /\ DropAdmin(caller, a)

ProposeAdmin(a) ==
    /\ legacy \in admins
    /\ pendingAdmin' = a
    /\ UNCHANGED <<admins, roleAdmins, adminCount, legacy>>

\* Mistaken variant: leaves the legacy admin as it was.
AcceptAdminKeepingLegacy ==
    /\ pendingAdmin # Nobody
    /\ admins' = (admins \ {legacy}) \cup {pendingAdmin}
    /\ roleAdmins' = (roleAdmins \ {legacy}) \cup {pendingAdmin}
    /\ pendingAdmin' = Nobody
    /\ UNCHANGED <<legacy, adminCount>>

\* The proposed address replaces the legacy admin; the count stays.
AcceptAdmin ==
    /\ pendingAdmin # Nobody
    /\ legacy' = pendingAdmin
    /\ admins' = (admins \ {legacy}) \cup {pendingAdmin}
    /\ roleAdmins' = (roleAdmins \ {legacy}) \cup {pendingAdmin}
    /\ pendingAdmin' = Nobody
    /\ UNCHANGED adminCount

AssignAdminRole(caller, a) ==
    /\ caller \in roleAdmins
    /\ roleAdmins' = roleAdmins \cup {a}
    /\ UNCHANGED <<admins, adminCount, legacy, pendingAdmin>>

RemoveAdminRole(caller, a) ==
    /\ caller \in roleAdmins
    /\ roleAdmins' = roleAdmins \ {a}
    /\ UNCHANGED <<admins, adminCount, legacy, pendingAdmin>>

AdminStep ==
    \/ \E caller, a \in Addresses :
         \/ AddAdmin(caller, a)
         \/ RemoveAdmin(caller, a)
    \/ \E caller \in Addresses, a \in RoleTargets :
         \/ AssignAdminRole(caller, a)
         \/ RemoveAdminRole(caller, a)
    \/ \E a \in TransferTargets : ProposeAdmin(a)
    \/ AcceptAdmin

-----------------------------------------------------------------------------
AdminTypeOK ==
    /\ admins \subseteq Addresses
    /\ roleAdmins \subseteq Addresses
    /\ adminCount \in Nat \ {0}
    /\ legacy \in Addresses
    /\ pendingAdmin \in Addresses \cup {Nobody}

\* The step moves the stored count and the number of admins apart.
Drifts == adminCount' - adminCount # Cardinality(admins') - Cardinality(admins)

(***************************************************************************)
(* remove_admin's comment (lib.rs, line 1647) says that the legacy admin   *)
(* is kept aligned so that the entry points gated on it remain operable:   *)
(* the legacy admin is one of the admins.                                  *)
(***************************************************************************)
LegacyIsAdmin == legacy \in admins
=============================================================================
