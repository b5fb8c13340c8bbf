------------------------------ MODULE ReaderRole ------------------------------
(***************************************************************************)
(* python -m banking_data.role_management: one transaction that creates or *)
(* hardens the reader role, revokes and grants object after object, looks  *)
(* at what the role can do in effect, and commits only if that is what it  *)
(* should be.  Meanwhile others administer the same database: they create  *)
(* and drop tables, change owners, grant, and admit the reader to a group. *)
(*                                                                         *)
(* The statements run under READ COMMITTED: each sees what is committed    *)
(* and what its own transaction has done.  A row of the catalog that the   *)
(* transaction has changed is locked against others until its end.         *)
(*                                                                         *)
(* Of the privileges on a table that are not SELECT one stands for all.    *)
(* One sequence stands for all the sequences of the schema; none is        *)
(* created while the command runs.                                         *)
(***************************************************************************)
EXTENDS Integers, Sequences, FiniteSets

CONSTANTS
  Relation,   \* the tables the banking schema may have
  MaxChanges  \* bound: the changes others make in a behaviour

VARIABLES
  exists,    \* the reader is a role
  elevated,  \* with SUPERUSER, CREATEDB, CREATEROLE, REPLICATION or BYPASSRLS
  member,    \* it belongs to a group
  owns,      \* what it owns of the project's objects
  tables,    \* the relations in the banking schema
  acl,       \* the grants: [to, on, what]
  pc,        \* where the command is
  step,      \* the statement of Statements that is next
  listed,    \* the relations that are left to be verified
  touched,   \* the rows its transaction has changed
  own,       \* the grants on them, as the transaction sees them
  clean,     \* history: nothing stood in the way of the command
  late,      \* history: what others changed since the verification began
  changes    \* the number of changes others have made

catalog == <<exists, elevated, member, owns, tables, acl>>
transaction == <<touched, own>>
history == <<clean, late, changes>>
vars == <<catalog, pc, step, listed, transaction, history>>

Named == {"database", "banking", "public", "sequence"}
Object == Named \cup Relation

ASSUME ReaderRoleAssumption ==
  /\ MaxChanges \in Nat
  /\ Relation \cap (Named \cup {"role", "member", "alembic_version"}) = {}

\* A grant to the reader by anyone but the owner is not the owner's to revoke.
Direct == {"reader", "reader, by another"}
Grantee == Direct \cup {"PUBLIC", "group"}

Privileges(o) ==
  CASE o = "database" -> {"CONNECT", "CREATE", "TEMPORARY"}
    [] o \in {"banking", "public"} -> {"USAGE", "CREATE"}
    [] o = "sequence" -> {"USAGE"}
    [] OTHER -> {"SELECT", "UPDATE"}

Grants(to, on, what) == [to : {to}, on : on, what : what]

Ended == {"idle", "provisioned", "refused", "failed"}
-----------------------------------------------------------------------------
(***************************************************************************)
(* What the transaction sees.                                              *)
(***************************************************************************)

Visible == {g \in acl : g.on \notin touched} \cup own

Superuser == elevated /\ "role" \notin touched

\* Mutant: what the reader has been granted itself, by the owner.
CanByOwnGrants(o) == {g.what : g \in {h \in Visible : h.on = o /\ h.to = "reader"}}

\* has_*_privilege: what the role can do, by whichever way.
Can(o) ==
  IF Superuser \/ o \in owns THEN Privileges(o)
  ELSE LET of == Direct \cup {"PUBLIC"} \cup (IF member THEN {"group"} ELSE {})
       IN {g.what : g \in {h \in Visible : h.on = o /\ h.to \in of}}

Privileged(o, can) ==
  CASE o = "database" -> can = {"CONNECT"}
    [] o = "banking" -> can = {"USAGE"}
    [] o = "public" -> "CREATE" \notin can
    [] o = "sequence" -> can = {}
    [] OTHER -> can = {"SELECT"}
-----------------------------------------------------------------------------
(***************************************************************************)
(* The command.                                                            *)
(***************************************************************************)

Goto(stage) == pc' = stage

\* The end without a commit.
Rollback(stage) ==
  /\ Goto(stage)
  /\ step' = 1 /\ listed' = {} /\ touched' = {} /\ own' = {}
  /\ UNCHANGED <<catalog, history>>

\* Nothing that the command would refuse, or has no statement against.
Clean ==
  /\ ~member /\ owns = {} /\ tables # {}
  /\ \A g \in acl :
       /\ g.to = "reader, by another" => Privileged(g.on, {g.what})
       /\ g.to = "PUBLIC" => ~(g.on = "sequence" \/ (g.on = "database" /\ g.what = "CREATE"))

\* The reader is not the owner; otherwise the command ends here.
Begin ==
  /\ pc \in Ended
  /\ Goto(IF exists THEN "existing" ELSE "create")
  /\ clean' = Clean
  /\ UNCHANGED <<catalog, step, listed, transaction, late, changes>>

\* _ensure_existing_role_is_safe
CheckExisting ==
  /\ pc = "existing"
  /\ IF member \/ owns # {}
       THEN Rollback("refused")
       ELSE /\ Goto("alter")
            /\ UNCHANGED <<catalog, step, listed, transaction, history>>

\* CREATE ROLE, which fails on a role that has come to exist since, or ALTER
\* ROLE, and the attributes.
CreateOrAlterRole ==
  /\ pc \in {"create", "alter"}
  /\ ~(pc = "create" /\ exists)
  /\ Goto("grants")
  /\ touched' = {"role"}
  /\ UNCHANGED <<catalog, step, listed, own, history>>

Grant(to, on, what) == [grants |-> TRUE, to |-> to, on |-> on, what |-> what]
Revoke(to, on, what) == [grants |-> FALSE, to |-> to, on |-> on, what |-> what]

\* Mutant: temporary tables are left to PUBLIC.
StatementsWithoutTemporary ==
  <<Grant("reader", {"database"}, {"CONNECT"}),
    Revoke("reader", {"database"}, {"CREATE"}),
    Revoke("reader", {"database"}, {"TEMPORARY"}),
    Revoke("PUBLIC", tables, Privileges("tables")),
    Revoke("PUBLIC", {"banking"}, {"CREATE"}),
    Revoke("PUBLIC", {"public"}, {"CREATE"}),
    Revoke("reader", tables, Privileges("tables")),
    Grant("reader", {"banking"}, {"USAGE"}),
    Revoke("reader", {"banking"}, {"CREATE"}),
    Revoke("reader", {"public"}, {"CREATE"}),
    Grant("reader", tables, {"SELECT"}),
    Revoke("reader", {"sequence"}, Privileges("sequence"))>>

\* ALL TABLES are those the statement sees.
Statements ==
  <<Grant("reader", {"database"}, {"CONNECT"}),
    Revoke("reader", {"database"}, {"CREATE"}),
    Revoke("PUBLIC", {"database"}, {"TEMPORARY"}),
    Revoke("reader", {"database"}, {"TEMPORARY"}),
    Revoke("PUBLIC", tables, Privileges("tables")),
    Revoke("PUBLIC", {"banking"}, {"CREATE"}),
    Revoke("PUBLIC", {"public"}, {"CREATE"}),
    Revoke("reader", tables, Privileges("tables")),
    Grant("reader", {"banking"}, {"USAGE"}),
    Revoke("reader", {"banking"}, {"CREATE"}),
    Revoke("reader", {"public"}, {"CREATE"}),
    Grant("reader", tables, {"SELECT"}),
    Revoke("reader", {"sequence"}, Privileges("sequence"))>>

Execute ==
  LET s == Statements[step]
      named == Grants(s.to, s.on, s.what)
      seen == IF s.grants THEN Visible \cup named ELSE Visible \ named
  IN
  /\ pc = "grants"
  /\ touched' = touched \cup s.on
  /\ own' = {g \in seen : g.on \in touched'}
  /\ IF step < Len(Statements)
       THEN step' = step + 1 /\ UNCHANGED <<pc, late>>
       ELSE Goto("members") /\ step' = 1 /\ late' = {}
  /\ UNCHANGED <<catalog, listed, clean, changes>>

\* A query of _verify_effective_privilege_boundary: what it asks, and the one
\* that comes next.
Verify(at, holds, next) ==
  /\ pc = at
  /\ IF holds
       THEN /\ Goto(next)
            /\ UNCHANGED <<catalog, step, listed, transaction, history>>
       ELSE Rollback("refused")

VerifyRole ==
  \/ Verify("members", ~Superuser /\ ~member, "owners")
  \/ Verify("owners", owns = {}, "database")

VerifyObjects ==
  \/ Verify("database", Privileged("database", Can("database")), "banking")
  \/ Verify("banking", Privileged("banking", Can("banking")), "public")
  \/ Verify("public", Privileged("public", Can("public")), "list")
  \/ Verify("sequence", Privileged("sequence", Can("sequence")), "commit")

ListRelations ==
  /\ pc = "list"
  /\ IF tables = {}
       THEN Rollback("refused")
       ELSE /\ Goto("relations")
            /\ listed' = tables
            /\ UNCHANGED <<catalog, step, transaction, history>>

\* A relation that has been dropped since has no privileges.
VerifyRelation ==
  /\ pc = "relations"
  /\ \/ /\ listed = {}
        /\ Goto("sequence")
        /\ UNCHANGED <<catalog, step, listed, transaction, history>>
     \/ \E t \in listed :
          IF t \in tables /\ Privileged(t, Can(t))
            THEN /\ listed' = listed \ {t}
                 /\ UNCHANGED <<catalog, pc, step, transaction, history>>
            ELSE Rollback("refused")

Commit ==
  /\ pc = "commit"
  /\ Goto("provisioned")
  /\ exists' = TRUE /\ elevated' = FALSE /\ acl' = Visible
  /\ touched' = {} /\ own' = {}
  /\ UNCHANGED <<member, owns, tables, step, listed, history>>

\* A statement is refused, or the connection lost.
Fail == pc \notin Ended /\ Rollback("failed")

Command ==
  \/ Begin \/ CheckExisting \/ CreateOrAlterRole \/ Execute
  \/ VerifyRole \/ VerifyObjects \/ ListRelations \/ VerifyRelation
  \/ Commit \/ Fail
-----------------------------------------------------------------------------
(***************************************************************************)
(* The others.                                                             *)
(***************************************************************************)

\* A change of x, which waits for the command if that has changed x's row.
Change(x) ==
  /\ changes < MaxChanges
  /\ changes' = changes + 1
  /\ x \notin touched
  /\ clean' = FALSE
  /\ late' = late \cup {x}
  /\ pc' = IF pc \in Ended THEN "idle" ELSE pc
  /\ UNCHANGED <<step, listed, transaction>>

CreateReader ==
  /\ ~exists
  /\ Change("role")
  /\ exists' = TRUE
  /\ elevated' \in BOOLEAN
  /\ UNCHANGED <<member, owns, tables, acl>>

\* GRANT of a group's membership does not change the row of the member.
Admit ==
  /\ exists /\ ~member
  /\ Change("member")
  /\ member' = TRUE
  /\ UNCHANGED <<exists, elevated, owns, tables, acl>>

GiveAway(o) ==
  /\ exists
  /\ o \in {"database", "banking", "alembic_version"} \cup tables
  /\ Change(o)
  /\ owns' = owns \cup {o}
  /\ UNCHANGED <<exists, elevated, member, tables, acl>>

GrantTo(to, o, what) ==
  /\ to \in Direct => exists
  /\ o \in Named \cup tables
  /\ Change(o)
  /\ acl' = acl \cup Grants(to, {o}, {what})
  /\ UNCHANGED <<exists, elevated, member, owns, tables>>

CreateTable(t) ==
  /\ t \notin tables
  /\ Change(t)
  /\ tables' = tables \cup {t}
  /\ UNCHANGED <<exists, elevated, member, owns, acl>>

DropTable(t) ==
  /\ t \in tables
  /\ Change(t)
  /\ tables' = tables \ {t}
  /\ owns' = owns \ {t}
  /\ acl' = {g \in acl : g.on # t}
  /\ UNCHANGED <<exists, elevated, member>>

Others ==
  \/ CreateReader \/ Admit
  \/ \E o \in Object \cup {"alembic_version"} : GiveAway(o)
  \/ \E to \in Grantee, o \in Object : \E what \in Privileges(o) :
       GrantTo(to, o, what)
  \/ \E t \in Relation : CreateTable(t) \/ DropTable(t)
-----------------------------------------------------------------------------
\* PostgreSQL's defaults: PUBLIC may connect, create temporary tables and use
\* the schema public, and could create in it before version 15.
Init ==
  /\ exists = FALSE /\ elevated = FALSE /\ member = FALSE /\ owns = {}
  /\ tables \in SUBSET Relation
  /\ \E what \in {{"USAGE"}, {"USAGE", "CREATE"}} :
       acl = Grants("PUBLIC", {"database"}, {"CONNECT", "TEMPORARY"})
               \cup Grants("PUBLIC", {"public"}, what)
  /\ pc = "idle" /\ step = 1 /\ listed = {} /\ touched = {} /\ own = {}
  /\ clean = FALSE /\ late = {} /\ changes = 0

Next == Command \/ Others

Spec == Init /\ [][Next]_vars
-----------------------------------------------------------------------------
(***************************************************************************)
(* Properties.                                                             *)
(***************************************************************************)

\* What the role's own grants and those to everyone come to.
Granted(o) == {g.what : g \in {h \in acl : h.on = o /\ h.to # "group"}}

\* When the command commits, the reader can do what it should and no more,
\* whatever was granted to it before or meanwhile, by anyone and to anyone:
\* what has been verified is locked until the commit.  Only what is not
\* locked may slip in during the verification: a group, a table, or the
\* ownership of what no statement names; and a group that does may stand in
\* for the grant on a table that was created after the statement that grants
\* (_verify_effective_privilege_boundary, provision_reader_role).  It says
\* nothing of a sequence that others create and grant after the statement
\* that names all sequences: the schema has one here, which is there before.
ProvisionedIsBounded ==
  pc = "provisioned" =>
    /\ exists /\ ~elevated
    /\ member => "member" \in late
    /\ owns \subseteq late \ Named
    /\ \A o \in Named : Privileged(o, Granted(o))
    /\ \A t \in tables \ late :
         Granted(t) \subseteq {"SELECT"} /\ (member \/ "SELECT" \in Granted(t))

\* The command is refused for a cause: with a role that is new or clean, and
\* no one else at work, it is not, however often it is run and whatever the
\* owner has granted the role before (docs/read_only_role.md: "Re-running the
\* command for an existing clean reader safely rotates its password and
\* reapplies the grants").
RefusedForCause == pc = "refused" => ~clean
-----------------------------------------------------------------------------
(***************************************************************************)
(* The inductive invariant both rest on.                                   *)
(***************************************************************************)

Preparing == {"existing", "create", "alter"}
Verifying == {"members", "owners", "database", "banking", "public", "list",
              "relations", "sequence", "commit"}
Privilege == {"CONNECT", "CREATE", "TEMPORARY", "USAGE", "SELECT", "UPDATE"}
AnyGrant == {g \in [to : Grantee, on : Object, what : Privilege] :
               g.what \in Privileges(g.on)}

RoleTypeOK ==
  /\ pc \in Ended \cup Preparing \cup {"grants"} \cup Verifying
  /\ step \in 1..Len(Statements)
  /\ {exists, elevated, member, clean} \subseteq BOOLEAN
  /\ tables \subseteq Relation
  /\ owns \subseteq {"database", "banking", "alembic_version"} \cup Relation
  /\ acl \subseteq AnyGrant /\ own \subseteq AnyGrant
  /\ touched \subseteq {"role"} \cup Object

\* How many of the statements have been executed, and the grants one names.
Executed ==
  IF pc \in Verifying THEN Len(Statements)
  ELSE IF pc = "grants" THEN step - 1 ELSE 0
Names(i, g) == g \in Grants(Statements[i].to, Statements[i].on, Statements[i].what)

Decides(i, g) == Names(i, g) /\ \A j \in (i + 1)..Executed : ~Names(j, g)

\* The transaction has locked what it names, and sees of it what others have
\* been granted and what it has granted the reader itself.
TransactionHolds ==
  /\ pc # "grants" => step = 1
  /\ pc \in Ended \cup Preparing => touched = {} /\ own = {}
  /\ pc \in {"grants"} \cup Verifying => "role" \in touched
  /\ \A i \in 1..Executed : Statements[i].on \cap Named \subseteq touched
  /\ \A g \in own : g.on \in touched /\ (g.to = "reader" \/ g \in acl)

\* The last statement that names a grant decides on it: for what is locked
\* by its name, whatever others do, and for the rest while they do nothing.
InEffect ==
  \A g \in AnyGrant, i \in 1..Executed :
    Decides(i, g) /\ (clean \/ g.on \in Named) =>
      (g \in Visible <=> Statements[i].grants)

\* As Granted, but as the transaction sees it.
Seen(o) == {g.what : g \in {h \in Visible : h.on = o /\ h.to # "group"}}

\* What has been verified still holds, but for what others have changed.
VerifiedHolds ==
  /\ pc \in Verifying \ {"members"} => (member => "member" \in late)
  /\ pc \in Verifying \ {"members", "owners"} => owns \subseteq late \ Named
  /\ pc \in {"banking", "public", "list", "relations", "sequence", "commit"} =>
       Privileged("database", Seen("database"))
  /\ pc \in {"public", "list", "relations", "sequence", "commit"} =>
       Privileged("banking", Seen("banking"))
  /\ pc \in {"list", "relations", "sequence", "commit"} =>
       Privileged("public", Seen("public"))
  /\ pc \in {"relations", "sequence", "commit"} =>
       \A t \in tables \ (late \cup listed) :
         Seen(t) \subseteq {"SELECT"} /\ (member \/ "SELECT" \in Seen(t))
  /\ pc = "commit" => Privileged("sequence", Seen("sequence"))

\* While nothing stands in the way, nothing comes in it.
CleanHolds ==
  /\ clean /\ pc \notin Ended => Clean /\ listed \subseteq tables
  /\ pc # "relations" => listed = {}

ReaderRoleInv ==
  /\ RoleTypeOK /\ TransactionHolds /\ InEffect /\ VerifiedHolds /\ CleanHolds
  /\ ProvisionedIsBounded /\ RefusedForCause
=============================================================================
