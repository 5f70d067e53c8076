----------------------------- MODULE MbuArtifacts -----------------------------
(***************************************************************************)
(* The create / update / trash views of zentral/contrib/mdm/views/         *)
(* management.py for the artifacts attached to a meta business unit (MBU): *)
(* kernel extension policies, MDM enrollment packages and configuration    *)
(* profiles.  Each request runs in one database transaction (ATOMIC_      *)
(* REQUESTS): it loads or selects rows, saves one row, and commits.  The  *)
(* device push notifications registered with transaction.on_commit are    *)
(* external I/O and are left out.                                         *)
(*                                                                         *)
(* The database is PostgreSQL under READ COMMITTED: a transaction sees    *)
(* the committed rows and its own writes; an UPDATE or SELECT ... FOR      *)
(* UPDATE takes a row lock held until commit and waits for a lock another *)
(* transaction holds; a row another transaction inserted is invisible     *)
(* until it commits.  A row keeps only what the properties tell apart:    *)
(* its MBU and whether it is trashed.  The schema (models.py) is not part *)
(* of this tree; no unique index on a policy's MBU is assumed.            *)
(***************************************************************************)
EXTENDS Naturals, FiniteSets

CONSTANTS
    Requests,     \* concurrent request-handling transactions
    MBUs,         \* meta business units
    PolicyIds,    \* row ids (primary keys) of KernelExtensionPolicy
    PackageIds,   \* row ids of MDMEnrollmentPackage
    ProfileIds,   \* row ids of ConfigurationProfile
    Views,        \* the views requests are made to
    InitDbs,      \* the committed tables the checked behaviours start from
    NoRow, NoWrite, Nobody

AllViews == {"create_kext", "update_kext", "trash_kext", "create_package",
             "trash_package", "create_profile", "trash_profile"}
ASSUME Views \subseteq AllViews

Rows    == PolicyIds \cup PackageIds \cup ProfileIds
RowVals == [mbu : MBUs, trashed : BOOLEAN]

\* The table a view's model lives in.
IdsOf(v) == CASE v \in {"create_kext", "update_kext", "trash_kext"} -> PolicyIds
              [] v \in {"create_package", "trash_package"}       -> PackageIds
              [] v \in {"create_profile", "trash_profile"}       -> ProfileIds

VARIABLES
    db,          \* committed rows: db[id] \in RowVals or NoRow
    wr,          \* wr[r][id]: row written by r's open transaction, or NoWrite
    lock,        \* lock[id]: the transaction holding the row lock, or Nobody
    pc,          \* pc[r]: "idle", "loaded" (read done) or "saved" (row written)
    ctx          \* ctx[r]: [view, mbu, row, new, snap] of r's request

vars == <<db, wr, lock, pc, ctx>>

Ctxs == [view : AllViews, mbu : MBUs, row : Rows, new : BOOLEAN, snap : RowVals \cup {NoRow}]

TypeOK ==
    /\ db \in [Rows -> RowVals \cup {NoRow}]
    /\ wr \in [Requests -> [Rows -> RowVals \cup {NoWrite}]]
    /\ lock \in [Rows -> Requests \cup {Nobody}]
    /\ pc \in [Requests -> {"idle", "loaded", "saved"}]
    /\ ctx \in [Requests -> Ctxs]

\* What transaction r reads for row id.
Visible(r, id) == IF wr[r][id] # NoWrite THEN wr[r][id] ELSE db[id]

\* Row ids a new insert can take: a sequence never hands one out twice.
FreeIds(ids) == {id \in ids : db[id] = NoRow /\ \A q \in Requests : ctx[q].row # id \/ pc[q] = "idle"}

Free(r, id) == lock[id] \in {Nobody, r}

-----------------------------------------------------------------------------
Init ==
    /\ db \in InitDbs
    /\ wr = [r \in Requests |-> [id \in Rows |-> NoWrite]]
    /\ lock = [id \in Rows |-> Nobody]
    /\ pc = [r \in Requests |-> "idle"]
    /\ ctx = [r \in Requests |-> CHOOSE c \in Ctxs : TRUE]

Begin(r, c) ==
    /\ pc[r] = "idle"
    /\ pc' = [pc EXCEPT ![r] = "loaded"]
    /\ ctx' = [ctx EXCEPT ![r] = c]

\* KernelExtensionPolicy.objects.select_for_update().filter(meta_business_unit=m)
PoliciesOf(r, m) ==
    {id \in PolicyIds : Visible(r, id) # NoRow /\ Visible(r, id).mbu = m}

\* CreateKernelExtensionPolicyView.form_valid, lines 149-157: lock the MBU's
\* policies and reuse one ([0]) if there is any, else a new row.
SelectPolicies(r, m) ==
    LET S == PoliciesOf(r, m) IN
    /\ "create_kext" \in Views
    /\ \A id \in S : Free(r, id)
    /\ lock' = [id \in Rows |-> IF id \in S THEN r ELSE lock[id]]
    /\ \/ \E id \in S : Begin(r, [view |-> "create_kext", mbu |-> m, row |-> id, new |-> FALSE, snap |-> db[id]])
       \/ S = {} /\ \E id \in FreeIds(PolicyIds) :
             Begin(r, [view |-> "create_kext", mbu |-> m, row |-> id, new |-> TRUE, snap |-> NoRow])
    /\ UNCHANGED <<db, wr>>

\* get_object() of the update and trash views (lines 175, 196, 277, 320):
\* the row as committed now; its values are what save() writes back.
LoadRow(r, v, id, m) ==
    /\ v \in Views \cap {"update_kext", "trash_kext", "trash_package", "trash_profile"}
    /\ id \in IdsOf(v) /\ db[id] # NoRow
    /\ v = "update_kext" \/ m = db[id].mbu   \* only the update view takes an MBU from the URL
    /\ Begin(r, [view |-> v, mbu |-> m, row |-> id, new |-> FALSE, snap |-> db[id]])
    /\ UNCHANGED <<db, wr, lock>>

\* The create views of packages and profiles take a fresh row id.
NewRow(r, v, m) ==
    /\ v \in Views \cap {"create_package", "create_profile"}
    /\ \E id \in FreeIds(IdsOf(v)) :
          Begin(r, [view |-> v, mbu |-> m, row |-> id, new |-> TRUE, snap |-> NoRow])
    /\ UNCHANGED <<db, wr, lock>>

\* The row each view saves (lines 158-161, 185-187, 197-198, 247-261,
\* 278-279, 308, 321-322).
Saved(c) ==
    CASE c.view = "create_kext" -> [mbu |-> c.mbu, trashed |-> FALSE]
      [] c.view = "update_kext" -> [mbu |-> c.mbu, trashed |-> c.snap.trashed]
      [] c.view \in {"trash_kext", "trash_package", "trash_profile"} ->
                                    [mbu |-> c.snap.mbu, trashed |-> TRUE]
      [] OTHER                   -> [mbu |-> c.mbu, trashed |-> FALSE]

\* save(): the UPDATE waits for the row lock; an INSERT takes the lock of
\* its new row.
Save(r) ==
    LET c == ctx[r] IN
    /\ pc[r] = "loaded"
    /\ Free(r, c.row)
    /\ wr' = [wr EXCEPT ![r][c.row] = Saved(c)]
    /\ lock' = [lock EXCEPT ![c.row] = r]
    /\ pc' = [pc EXCEPT ![r] = "saved"]
    /\ UNCHANGED <<db, ctx>>

\* COMMIT: the writes become visible and the locks are released.  The
\* on_commit push notifications are left out (external I/O).
Commit(r) ==
    LET written == {id \in Rows : wr[r][id] # NoWrite} IN
    /\ pc[r] = "saved"
    /\ db' = [id \in Rows |-> IF id \in written THEN wr[r][id] ELSE db[id]]
    /\ wr' = [wr EXCEPT ![r] = [id \in Rows |-> NoWrite]]
    /\ lock' = [id \in Rows |-> IF lock[id] = r THEN Nobody ELSE lock[id]]
    /\ pc' = [pc EXCEPT ![r] = "idle"]
    /\ UNCHANGED ctx

Next ==
    \E r \in Requests :
        \/ \E m \in MBUs : SelectPolicies(r, m)
        \/ \E v \in AllViews, id \in Rows, m \in MBUs : LoadRow(r, v, id, m)
        \/ \E v \in AllViews, m \in MBUs : NewRow(r, v, m)
        \/ Save(r) \/ Commit(r)

Spec == Init /\ [][Next]_vars

-----------------------------------------------------------------------------
(***************************************************************************)
(* Properties                                                              *)
(***************************************************************************)

\* An MBU never has two kernel extension policy rows ("there should be at
\* most a trashed one", line 151): the create view reuses the row it
\* selects, trashed or not, instead of inserting a second one.
AtMostOnePolicy ==
    \A m \in MBUs : Cardinality({id \in PolicyIds : db[id] # NoRow /\ db[id].mbu = m}) <= 1
=============================================================================
