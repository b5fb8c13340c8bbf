-------------------------- MODULE ReaderRoleProofs --------------------------
(***************************************************************************)
(* ReaderRole's properties, for any tables and any number of changes.      *)
(***************************************************************************)
EXTENDS ReaderRole, TLAPS

\* A table is none of the other objects.
LEMMA RelationsApart ==
  ASSUME NEW t \in Relation
  PROVE  /\ t \notin Named /\ t # "role" /\ t # "member"
         /\ t # "alembic_version"
BY ReaderRoleAssumption

\* What the cases of Privileges are.
LEMMA PrivilegesOf ==
  /\ Privileges("database") = {"CONNECT", "CREATE", "TEMPORARY"}
  /\ Privileges("banking") = {"USAGE", "CREATE"}
  /\ Privileges("public") = {"USAGE", "CREATE"}
  /\ Privileges("sequence") = {"USAGE"}
  /\ Privileges("tables") = {"SELECT", "UPDATE"}
  /\ \A t \in Relation : Privileges(t) = {"SELECT", "UPDATE"}
<1>1. \A t \in Relation : Privileges(t) = {"SELECT", "UPDATE"}
  BY RelationsApart, Zenon DEF Privileges, Named
<1>2. QED
  BY <1>1, Zenon DEF Privileges

\* What the cases of Privileged are.
LEMMA PrivilegedMeans ==
  ASSUME NEW can
  PROVE  /\ Privileged("database", can) <=> can = {"CONNECT"}
         /\ Privileged("banking", can) <=> can = {"USAGE"}
         /\ Privileged("public", can) <=> "CREATE" \notin can
         /\ Privileged("sequence", can) <=> can = {}
         /\ \A t \in Relation : Privileged(t, can) <=> can = {"SELECT"}
<1>1. \A t \in Relation : Privileged(t, can) <=> can = {"SELECT"}
  BY RelationsApart, Zenon DEF Privileged, Named
<1>2. QED
  BY <1>1, Zenon DEF Privileged

\* The statements, one by one.
StatementList ==
  /\ Len(Statements) = 13
  /\ Statements[1] = Grant("reader", {"database"}, {"CONNECT"})
  /\ Statements[2] = Revoke("reader", {"database"}, {"CREATE"})
  /\ Statements[3] = Revoke("PUBLIC", {"database"}, {"TEMPORARY"})
  /\ Statements[4] = Revoke("reader", {"database"}, {"TEMPORARY"})
  /\ Statements[5] = Revoke("PUBLIC", tables, Privileges("tables"))
  /\ Statements[6] = Revoke("PUBLIC", {"banking"}, {"CREATE"})
  /\ Statements[7] = Revoke("PUBLIC", {"public"}, {"CREATE"})
  /\ Statements[8] = Revoke("reader", tables, Privileges("tables"))
  /\ Statements[9] = Grant("reader", {"banking"}, {"USAGE"})
  /\ Statements[10] = Revoke("reader", {"banking"}, {"CREATE"})
  /\ Statements[11] = Revoke("reader", {"public"}, {"CREATE"})
  /\ Statements[12] = Grant("reader", tables, {"SELECT"})
  /\ Statements[13] = Revoke("reader", {"sequence"}, Privileges("sequence"))

LEMMA StatementsAre == StatementList
BY DEF StatementList, Statements

LEMMA StatementsWillBe == StatementList'
BY DEF StatementList, Statements

LEMMA NumberOfStatements == Len(Statements) = 13 /\ Len(Statements)' = 13
BY StatementsAre, StatementsWillBe DEF StatementList

\* To name a statement is to name one of thirteen.
LEMMA Thirteen ==
  ASSUME NEW i \in 1..13
  PROVE  i \in {1, 2, 3, 4, 5, 6, 7, 8, 9, 10, 11, 12, 13}
OBVIOUS

\* What a statement is; only a grant to the reader adds, and what it adds is a
\* privilege on what it is on.
Fits(s) ==
  /\ s.grants \in BOOLEAN
  /\ s.on \subseteq Object
  /\ s.grants => s.to = "reader" /\ \A o \in s.on : s.what \subseteq Privileges(o)

LEMMA GrantFits ==
  ASSUME NEW on \in SUBSET Object, NEW what,
         \A o \in on : what \subseteq Privileges(o)
  PROVE  Fits(Grant("reader", on, what))
BY DEF Fits, Grant

LEMMA RevokeFits ==
  ASSUME NEW to, NEW on \in SUBSET Object, NEW what
  PROVE  Fits(Revoke(to, on, what))
BY DEF Fits, Revoke

LEMMA StatementsFit ==
  ASSUME NEW i \in 1..13, tables \subseteq Relation
  PROVE  Fits(Statements[i])
<1>1. /\ {"database"} \in SUBSET Object /\ {"banking"} \in SUBSET Object
      /\ {"public"} \in SUBSET Object /\ {"sequence"} \in SUBSET Object
      /\ tables \in SUBSET Object
  BY DEF Object, Named
<1>2. /\ \A o \in {"database"} : {"CONNECT"} \subseteq Privileges(o)
      /\ \A o \in {"banking"} : {"USAGE"} \subseteq Privileges(o)
      /\ \A o \in tables : {"SELECT"} \subseteq Privileges(o)
  BY PrivilegesOf
<1>3. /\ Fits(Statements[1]) /\ Fits(Statements[9]) /\ Fits(Statements[12])
  BY <1>1, <1>2, StatementsAre, GrantFits DEF StatementList
<1>4. /\ Fits(Statements[2]) /\ Fits(Statements[3]) /\ Fits(Statements[4])
      /\ Fits(Statements[5]) /\ Fits(Statements[6]) /\ Fits(Statements[7])
      /\ Fits(Statements[8]) /\ Fits(Statements[10]) /\ Fits(Statements[11])
      /\ Fits(Statements[13])
  BY <1>1, StatementsAre, RevokeFits DEF StatementList
<1>5. QED
  BY <1>3, <1>4, Thirteen

\* On what has a name, a statement is the same whatever tables there are.
Same(s, z) ==
  /\ z.grants = s.grants /\ z.to = s.to /\ z.what = s.what
  /\ z.on = s.on \/ (s.on = tables /\ z.on = tables')

LEMMA SameStatement ==
  ASSUME NEW i \in 1..13
  PROVE  Same(Statements[i], Statements'[i])
<1>1. ASSUME NEW s
      PROVE  Same(s, s)
  BY DEF Same
<1>2. ASSUME NEW to, NEW what
      PROVE  /\ Same(Grant(to, tables, what), Grant(to, tables', what))
             /\ Same(Revoke(to, tables, what), Revoke(to, tables', what))
  BY DEF Same, Grant, Revoke
<1>3. /\ Same(Statements[5], Statements'[5]) /\ Same(Statements[8], Statements'[8])
      /\ Same(Statements[12], Statements'[12])
  BY <1>2, StatementsAre, StatementsWillBe DEF StatementList
<1>4. \A k \in {1, 2, 3, 4, 6, 7, 9, 10, 11, 13} : Statements'[k] = Statements[k]
  BY StatementsAre, StatementsWillBe DEF StatementList
<1>5. QED
  BY <1>1, <1>3, <1>4, Thirteen

LEMMA NamesOfNamed ==
  ASSUME NEW i \in 1..13, NEW g, g.on \in Named,
         tables \subseteq Relation, tables' \subseteq Relation
  PROVE  Names(i, g)' <=> Names(i, g)
<1>1. g.on \notin tables /\ g.on \notin tables'
  BY RelationsApart
<1>2. QED
  BY <1>1, SameStatement DEF Same, Names, Grants

\* The privileges on an object, among all there are.
LEMMA PrivilegesType == \A o \in Object : Privileges(o) \subseteq Privilege
<1>1. \A o \in Named : Privileges(o) \subseteq Privilege
  BY PrivilegesOf DEF Named, Privilege
<1>2. \A t \in Relation : Privileges(t) \subseteq Privilege
  BY PrivilegesOf DEF Privilege
<1>3. QED
  BY <1>1, <1>2 DEF Object

\* While the tables stay, so do the statements.
LEMMA StatementsStay ==
  ASSUME tables' = tables
  PROVE  Statements' = Statements
BY DEF Statements

LEMMA EffectStays ==
  ASSUME InEffect, Statements' = Statements, Executed' = Executed,
         Visible' = Visible, clean' => clean
  PROVE  InEffect'
BY DEF InEffect, Decides, Names

\* Every object that has a name is locked when the verification begins.
LEMMA NamedIsLocked ==
  ASSUME ReaderRoleInv, pc \in Verifying
  PROVE  Named \subseteq touched /\ Executed = 13
<1>1. Executed = 13
  BY NumberOfStatements DEF Executed
<1>2. \A i \in 1..13 : Statements[i].on \cap Named \subseteq touched
  BY <1>1 DEF ReaderRoleInv, TransactionHolds
<1>3. /\ Statements[1].on = {"database"} /\ Statements[6].on = {"banking"}
      /\ Statements[7].on = {"public"} /\ Statements[13].on = {"sequence"}
  BY StatementsAre DEF StatementList, Grant, Revoke
<1>4. QED
  BY <1>1, <1>2, <1>3 DEF Named

-----------------------------------------------------------------------------

LEMMA InitInv == Init => ReaderRoleInv
<1>. SUFFICES ASSUME Init PROVE ReaderRoleInv
  OBVIOUS
<1>1. acl \subseteq AnyGrant
  BY PrivilegesOf
     DEF Init, Grants, AnyGrant, Grantee, Object, Named, Privilege
<1>2. RoleTypeOK
  <2>1. {exists, elevated, member, clean} \subseteq BOOLEAN
    BY Zenon DEF Init
  <2>2. QED
    BY <1>1, <2>1, NumberOfStatements DEF Init, RoleTypeOK, Ended
<1>3. Executed = 0
  BY DEF Init, Executed, Verifying
<1>4. TransactionHolds /\ InEffect
  BY <1>3 DEF Init, TransactionHolds, InEffect, Verifying
<1>5. VerifiedHolds /\ CleanHolds /\ ProvisionedIsBounded /\ RefusedForCause
  BY DEF Init, VerifiedHolds, CleanHolds, ProvisionedIsBounded, RefusedForCause,
         Verifying
<1>6. QED
  BY <1>2, <1>4, <1>5 DEF ReaderRoleInv

LEMMA RollbackStep ==
  ASSUME ReaderRoleInv, NEW stage \in {"refused", "failed"}, Rollback(stage),
         stage = "refused" => ~clean
  PROVE  ReaderRoleInv'
<1>. USE DEF ReaderRoleInv, Rollback, Goto, catalog, history
<1>1. RoleTypeOK'
  BY NumberOfStatements DEF RoleTypeOK, Ended
<1>2. Executed' = 0
  BY DEF Executed, Verifying
<1>3. TransactionHolds' /\ InEffect'
  BY <1>2 DEF TransactionHolds, InEffect, Verifying
<1>4. VerifiedHolds' /\ CleanHolds' /\ ProvisionedIsBounded' /\ RefusedForCause'
  BY DEF VerifiedHolds, CleanHolds, ProvisionedIsBounded, RefusedForCause,
         Verifying, Ended
<1>5. QED
  BY <1>1, <1>3, <1>4

LEMMA BeginStep ==
  ASSUME ReaderRoleInv, Begin
  PROVE  ReaderRoleInv'
<1>. USE DEF ReaderRoleInv, Begin, Goto, catalog, transaction
<1>1. Clean' <=> Clean
  BY DEF Clean
<1>2. RoleTypeOK'
  BY NumberOfStatements DEF RoleTypeOK, Ended, Preparing, Clean
<1>3. Executed' = 0
  BY DEF Executed, Verifying
<1>4. TransactionHolds' /\ InEffect'
  BY <1>3 DEF TransactionHolds, InEffect, Verifying, Ended
<1>5. VerifiedHolds' /\ ProvisionedIsBounded' /\ RefusedForCause'
  BY DEF VerifiedHolds, ProvisionedIsBounded, RefusedForCause, Verifying
<1>6. CleanHolds'
  BY <1>1 DEF CleanHolds, Ended
<1>7. QED
  BY <1>2, <1>4, <1>5, <1>6

LEMMA CheckExistingStep ==
  ASSUME ReaderRoleInv, CheckExisting
  PROVE  ReaderRoleInv'
<1>1. CASE member \/ owns # {}
  <2>1. ~clean
    BY <1>1 DEF ReaderRoleInv, CheckExisting, CleanHolds, Clean, Ended
  <2>2. QED
    BY <1>1, <2>1, RollbackStep DEF CheckExisting
<1>2. CASE ~(member \/ owns # {})
  <2>. USE <1>2 DEF ReaderRoleInv, CheckExisting, Goto, catalog, transaction, history
  <2>1. RoleTypeOK'
    BY NumberOfStatements DEF RoleTypeOK, Preparing
  <2>2. Executed' = 0
    BY DEF Executed, Verifying
  <2>3. TransactionHolds' /\ InEffect'
    BY <2>2 DEF TransactionHolds, InEffect, Verifying, Preparing
  <2>4. VerifiedHolds' /\ ProvisionedIsBounded' /\ RefusedForCause'
    BY DEF VerifiedHolds, ProvisionedIsBounded, RefusedForCause, Verifying
  <2>5. CleanHolds'
    BY DEF CleanHolds, Ended, Clean
  <2>6. QED
    BY <2>1, <2>3, <2>4, <2>5
<1>3. QED
  BY <1>1, <1>2

LEMMA CreateOrAlterRoleStep ==
  ASSUME ReaderRoleInv, CreateOrAlterRole
  PROVE  ReaderRoleInv'
<1>. USE DEF ReaderRoleInv, CreateOrAlterRole, Goto, catalog, history
<1>1. RoleTypeOK'
  BY NumberOfStatements DEF RoleTypeOK
<1>2. Executed' = 0
  BY DEF Executed, Verifying, TransactionHolds
<1>3. TransactionHolds' /\ InEffect'
  BY <1>2 DEF TransactionHolds, InEffect, Verifying, Preparing, Ended
<1>4. VerifiedHolds' /\ ProvisionedIsBounded' /\ RefusedForCause'
  BY DEF VerifiedHolds, ProvisionedIsBounded, RefusedForCause, Verifying
<1>5. CleanHolds'
  BY DEF CleanHolds, Ended, Clean
<1>6. QED
  BY <1>1, <1>3, <1>4, <1>5

\* A statement locks what it names, and has its effect.
LEMMA ExecuteStep ==
  ASSUME ReaderRoleInv, Execute
  PROVE  ReaderRoleInv'
<1>. DEFINE s == Statements[step]
            named == Grants(s.to, s.on, s.what)
            seen == IF s.grants THEN Visible \cup named ELSE Visible \ named
<1>1. /\ pc = "grants" /\ touched' = touched \cup s.on
      /\ own' = {g \in seen : g.on \in touched'}
      /\ UNCHANGED <<catalog, listed, clean, changes>>
      /\ step < 13 => step' = step + 1 /\ UNCHANGED <<pc, late>>
      /\ step >= 13 => pc' = "members" /\ step' = 1 /\ late' = {}
  BY NumberOfStatements DEF Execute, Goto, ReaderRoleInv, RoleTypeOK
<1>2. UNCHANGED <<exists, elevated, member, owns, tables, acl>>
  BY <1>1 DEF catalog
<1>3. step \in 1..13 /\ tables \subseteq Relation
  BY NumberOfStatements DEF ReaderRoleInv, RoleTypeOK
<1>4. Fits(s)
  BY <1>3, StatementsFit
<1>5. Statements' = Statements
  BY <1>2, StatementsStay
<1>6. Executed = step - 1 /\ Executed' = step
  <2>1. Executed = step - 1
    BY <1>1 DEF Executed, Verifying
  <2>2. CASE step < 13
    BY <1>1, <1>3, <2>2 DEF Executed, Verifying
  <2>3. CASE step >= 13
    BY <1>1, <1>3, <2>3, NumberOfStatements DEF Executed, Verifying
  <2>4. QED
    BY <1>3, <2>1, <2>2, <2>3
<1>7. \A g \in named : g.on \in s.on
  BY DEF Grants
<1>8. Visible' = seen
  <2>1. Visible' = {g \in acl : g.on \notin touched'} \cup own'
    BY <1>2 DEF Visible
  <2>2. \A g : g \in seen /\ g.on \notin touched' =>
                 g \in acl /\ g \notin named
    <3>1. \A g \in own : g.on \in touched
      BY DEF ReaderRoleInv, TransactionHolds
    <3>. HIDE DEF s, named
    <3>2. QED
      BY <1>1, <1>7, <3>1 DEF Visible
  <2>3. \A g \in acl : g.on \notin touched' => g \in seen
    <3>. HIDE DEF s, named
    <3>1. QED
      BY <1>1, <1>7 DEF Visible
  <2>. HIDE DEF seen
  <2>4. QED
    BY <1>1, <2>1, <2>2, <2>3
<1>9. Visible \subseteq AnyGrant
  BY DEF Visible, ReaderRoleInv, RoleTypeOK
<1>10. s.grants => \A g \in named : g \in AnyGrant /\ g.to = "reader"
  BY <1>4, PrivilegesType DEF Fits, Grants, AnyGrant, Grantee, Direct
<1>11. seen \subseteq AnyGrant
  <2>. HIDE DEF s, named
  <2>1. QED
    BY <1>9, <1>10
<1>12. RoleTypeOK'
  <2>1. step' \in 1..13 /\ pc' \in {"grants"} \cup Verifying
    BY <1>1, <1>3 DEF Verifying
  <2>2. touched' \subseteq {"role"} \cup Object
    BY <1>1, <1>4 DEF Fits, ReaderRoleInv, RoleTypeOK
  <2>3. own' \subseteq AnyGrant
    BY <1>1, <1>11
  <2>. HIDE DEF s, named, seen
  <2>4. {exists, elevated, member, clean}' \subseteq BOOLEAN
    BY <1>1, <1>2 DEF ReaderRoleInv, RoleTypeOK
  <2>5. QED
    BY <1>1, <1>2, <2>1, <2>2, <2>3, <2>4, NumberOfStatements
       DEF ReaderRoleInv, RoleTypeOK
<1>13. TransactionHolds'
  <2>1. \A i \in 1..Executed' : Statements[i].on \cap Named \subseteq touched'
    <3>1. \A i \in 1..Executed : Statements[i].on \cap Named \subseteq touched
      BY DEF ReaderRoleInv, TransactionHolds
    <3>2. \A i \in 1..Executed' : i \in 1..Executed \/ i = step
      BY <1>3, <1>6
    <3>3. QED
      BY <1>1, <3>1, <3>2
  <2>2. ASSUME NEW g \in own'
        PROVE  g.on \in touched' /\ (g.to = "reader" \/ g \in acl')
    <3>1. \A h \in Visible : h.to = "reader" \/ h \in acl
      BY DEF ReaderRoleInv, TransactionHolds, Visible
    <3>. HIDE DEF s, named
    <3>2. QED
      BY <1>1, <1>2, <1>10, <2>2, <3>1
  <2>3. "role" \in touched'
    BY <1>1 DEF ReaderRoleInv, TransactionHolds
  <2>4. pc' # "grants" => step' = 1
    BY <1>1, <1>3
  <2>5. pc' \notin Ended \cup Preparing
    BY <1>1, <1>3 DEF Ended, Preparing
  <2>6. QED
    BY <1>5, <2>1, <2>2, <2>3, <2>4, <2>5 DEF TransactionHolds
<1>14. InEffect'
  <2>1. ASSUME NEW g \in AnyGrant, NEW i \in 1..step,
               Names(i, g), \A j \in (i + 1)..step : ~Names(j, g),
               clean \/ g.on \in Named
        PROVE  g \in seen <=> Statements[i].grants
    <3>1. CASE i = step
      <4>1. g \in named
        BY <2>1, <3>1 DEF Names
      <4>2. QED
        BY <1>4, <3>1, <4>1 DEF Fits
    <3>2. CASE i # step
      <4>1. i \in 1..(step - 1) /\ step \in (i + 1)..step
            /\ \A j \in (i + 1)..(step - 1) : j \in (i + 1)..step
        BY <1>3, <3>2
      <4>2. Decides(i, g) /\ g \notin named
        BY <1>6, <2>1, <4>1 DEF Decides, Names
      <4>3. g \in Visible <=> Statements[i].grants
        BY <1>6, <2>1, <4>1, <4>2 DEF ReaderRoleInv, InEffect
      <4>. HIDE DEF s, named
      <4>4. QED
        BY <4>2, <4>3
    <3>3. QED
      BY <3>1, <3>2
  <2>2. \A i, g : Names(i, g)' <=> Names(i, g)
    BY <1>5 DEF Names
  <2>. HIDE DEF seen
  <2>3. QED
    BY <1>1, <1>5, <1>6, <1>8, <2>1, <2>2 DEF InEffect, Decides
<1>15. VerifiedHolds' /\ ProvisionedIsBounded' /\ RefusedForCause'
  BY <1>1, <1>3 DEF VerifiedHolds, ProvisionedIsBounded, RefusedForCause, Verifying
<1>16. CleanHolds'
  <2>1. Clean' <=> Clean
    BY <1>2 DEF Clean
  <2>2. pc' # "relations"
    BY <1>1, <1>3
  <2>3. QED
    BY <1>1, <1>2, <2>1, <2>2 DEF ReaderRoleInv, CleanHolds, Ended
<1>17. QED
  BY <1>12, <1>13, <1>14, <1>15, <1>16 DEF ReaderRoleInv

-----------------------------------------------------------------------------
(***************************************************************************)
(* The others.                                                             *)
(***************************************************************************)

\* A change of what is not locked disturbs nothing that is, and nothing that
\* was verified: what it concerns is late.
LEMMA ChangeStep ==
  ASSUME ReaderRoleInv, NEW x, Change(x),
         {exists, elevated, member}' \subseteq BOOLEAN,
         tables' \subseteq Relation, tables' \ {x} \subseteq tables,
         owns' \subseteq {"database", "banking", "alembic_version"} \cup Relation,
         owns' \subseteq owns \cup {x},
         acl' \subseteq AnyGrant,
         \A g \in AnyGrant : g.on # x => (g \in acl' <=> g \in acl),
         member => member', member' => member \/ x = "member"
  PROVE  ReaderRoleInv'
<1>1. /\ x \notin touched /\ clean' = FALSE /\ late' = late \cup {x}
      /\ pc' = IF pc \in Ended THEN "idle" ELSE pc
      /\ UNCHANGED <<step, listed, touched, own>>
  BY DEF Change, transaction
<1>2. /\ pc \notin Ended => pc' = pc
      /\ pc \in Ended => pc' = "idle"
  BY <1>1
<1>3. /\ pc \in Ended \cup Preparing \cup {"grants"} \cup Verifying
      /\ tables \subseteq Relation /\ own \subseteq AnyGrant /\ acl \subseteq AnyGrant
      /\ step \in 1..13 /\ touched \subseteq {"role"} \cup Object
  BY NumberOfStatements DEF ReaderRoleInv, RoleTypeOK
<1>4. RoleTypeOK'
  <2>1. {exists, elevated, member, clean}' \subseteq BOOLEAN
    BY <1>1
  <2>2. pc' \in Ended \cup Preparing \cup {"grants"} \cup Verifying
    BY <1>2, <1>3 DEF Ended
  <2>3. QED
    BY <1>1, <1>3, <2>1, <2>2, NumberOfStatements DEF RoleTypeOK
<1>5. Executed' = Executed /\ Executed \in 0..13
  BY <1>1, <1>2, <1>3, NumberOfStatements DEF Executed, Ended, Verifying
<1>6. ASSUME NEW g \in AnyGrant, g.on # x
      PROVE  g \in Visible' <=> g \in Visible
  BY <1>1, <1>6 DEF Visible
<1>7. ASSUME NEW i \in 1..Executed
      PROVE  /\ i \in 1..13
             /\ Statements[i].on \cap Named \subseteq touched
             /\ Statements'[i].on \cap Named \subseteq touched
             /\ Statements'[i].grants = Statements[i].grants
             /\ \A g : g.on \in Named => (Names(i, g)' <=> Names(i, g))
  <2>1. i \in 1..13
    BY <1>5
  <2>2. Statements[i].on \cap Named \subseteq touched
    BY DEF ReaderRoleInv, TransactionHolds
  <2>3. tables \cap Named = {} /\ tables' \cap Named = {}
    BY <1>3, RelationsApart
  <2>4. Same(Statements[i], Statements'[i])
    BY <2>1, SameStatement
  <2>5. \A g : g.on \in Named => (Names(i, g)' <=> Names(i, g))
    BY <1>3, <2>1, NamesOfNamed
  <2>6. QED
    BY <2>1, <2>2, <2>3, <2>4, <2>5 DEF Same
<1>8. TransactionHolds'
  <2>1. \A g \in own : g.on \in touched /\ (g.to = "reader" \/ g \in acl')
    BY <1>1, <1>3 DEF ReaderRoleInv, TransactionHolds
  <2>2. \A i \in 1..Executed' : Statements'[i].on \cap Named \subseteq touched'
    BY <1>1, <1>5, <1>7
  <2>3. pc' # "grants" => step' = 1
    BY <1>1, <1>2 DEF ReaderRoleInv, TransactionHolds, Ended
  <2>4. pc' \in Ended \cup Preparing => touched' = {} /\ own' = {}
    BY <1>1, <1>2 DEF ReaderRoleInv, TransactionHolds
  <2>5. pc' \in {"grants"} \cup Verifying => "role" \in touched'
    BY <1>1, <1>2 DEF ReaderRoleInv, TransactionHolds, Verifying, Ended
  <2>6. QED
    BY <1>1, <2>1, <2>2, <2>3, <2>4, <2>5 DEF TransactionHolds
<1>9. InEffect'
  <2>1. ASSUME NEW g \in AnyGrant, NEW i \in 1..Executed, Decides(i, g)', g.on \in Named
        PROVE  g \in Visible' <=> Statements'[i].grants
    <3>1. \A j \in i..Executed : j \in 1..Executed
      BY <1>5
    <3>2. Decides(i, g)
      BY <1>5, <1>7, <2>1, <3>1 DEF Decides
    <3>3. g \in Visible <=> Statements[i].grants
      BY <2>1, <3>2 DEF ReaderRoleInv, InEffect
    <3>4. g.on \in Statements[i].on
      BY <3>2 DEF Decides, Names, Grants
    <3>5. g.on # x
      BY <1>1, <1>7, <2>1, <3>4
    <3>6. QED
      BY <1>6, <1>7, <3>3, <3>5
  <2>2. QED
    BY <1>1, <1>5, <2>1 DEF InEffect
<1>10. ASSUME NEW o, o # x
       PROVE  Seen(o)' = Seen(o)
  <2>1. Visible \subseteq AnyGrant /\ Visible' \subseteq AnyGrant
    BY <1>1, <1>3 DEF Visible
  <2>2. {h \in Visible' : h.on = o /\ h.to # "group"} =
        {h \in Visible : h.on = o /\ h.to # "group"}
    BY <1>6, <1>10, <2>1
  <2>3. QED
    BY <2>2, Zenon DEF Seen
<1>11. VerifiedHolds'
  <2>1. CASE pc \in Verifying
    <3>1. pc' = pc
      BY <1>2, <2>1 DEF Verifying, Ended
    <3>2. Named \subseteq touched
      BY <2>1, NamedIsLocked
    <3>3. x \notin Named
      BY <1>1, <3>2
    <3>4. /\ Seen("database")' = Seen("database")
          /\ Seen("banking")' = Seen("banking")
          /\ Seen("public")' = Seen("public")
          /\ Seen("sequence")' = Seen("sequence")
      BY <1>10, <3>3 DEF Named
    <3>5. VerifiedHolds
      BY DEF ReaderRoleInv
    <3>6. pc' \in Verifying \ {"members"} => (member' => "member" \in late')
      BY <1>1, <3>1, <3>5 DEF VerifiedHolds
    <3>7. pc' \in Verifying \ {"members", "owners"} => owns' \subseteq late' \ Named
      BY <1>1, <3>1, <3>3, <3>5 DEF VerifiedHolds
    <3>8. pc' \in {"relations", "sequence", "commit"} =>
            \A t \in tables' \ (late' \cup listed') :
              Seen(t)' \subseteq {"SELECT"} /\ (member' \/ "SELECT" \in Seen(t)')
      <4>1. SUFFICES ASSUME pc \in {"relations", "sequence", "commit"},
                            NEW t \in tables' \ (late' \cup listed')
                     PROVE  /\ Seen(t)' \subseteq {"SELECT"}
                            /\ member' \/ "SELECT" \in Seen(t)'
        BY <3>1
      <4>2. t # x /\ t \in tables \ (late \cup listed)
        BY <1>1
      <4>3. Seen(t) \subseteq {"SELECT"} /\ (member \/ "SELECT" \in Seen(t))
        BY <3>5, <4>1, <4>2 DEF VerifiedHolds
      <4>4. Seen(t)' = Seen(t)
        BY <1>10, <4>2
      <4>5. QED
        BY <4>3, <4>4
    <3>9. QED
      BY <3>1, <3>4, <3>5, <3>6, <3>7, <3>8 DEF VerifiedHolds
  <2>2. CASE pc \notin Verifying
    BY <1>2, <2>2 DEF VerifiedHolds, Verifying
  <2>3. QED
    BY <2>1, <2>2
<1>12. CleanHolds'
  BY <1>1, <1>2 DEF ReaderRoleInv, CleanHolds, Ended
<1>13. ProvisionedIsBounded' /\ RefusedForCause'
  BY <1>1, <1>2 DEF ProvisionedIsBounded, RefusedForCause, Ended
<1>14. QED
  BY <1>4, <1>8, <1>9, <1>11, <1>12, <1>13 DEF ReaderRoleInv

LEMMA OthersStep ==
  ASSUME ReaderRoleInv, Others
  PROVE  ReaderRoleInv'
<1>. USE DEF ReaderRoleInv, RoleTypeOK
<1>1. CASE CreateReader
  <2>. USE <1>1 DEF CreateReader
  <2>1. {exists, elevated, member}' \subseteq BOOLEAN
    OBVIOUS
  <2>2. QED
    BY <2>1, ChangeStep
<1>2. CASE Admit
  <2>. USE <1>2 DEF Admit
  <2>1. {exists, elevated, member}' \subseteq BOOLEAN
    OBVIOUS
  <2>2. QED
    BY <2>1, ChangeStep
<1>3. ASSUME NEW o \in Object \cup {"alembic_version"}, GiveAway(o)
      PROVE  ReaderRoleInv'
  <2>. USE <1>3 DEF GiveAway
  <2>1. {exists, elevated, member}' \subseteq BOOLEAN
    OBVIOUS
  <2>2. QED
    BY <2>1, ChangeStep
<1>4. ASSUME NEW to \in Grantee, NEW o \in Object, NEW what \in Privileges(o),
             GrantTo(to, o, what)
      PROVE  ReaderRoleInv'
  <2>. USE <1>4 DEF GrantTo
  <2>1. {exists, elevated, member}' \subseteq BOOLEAN
    OBVIOUS
  <2>2. acl' \subseteq AnyGrant
    BY PrivilegesType DEF Grants, AnyGrant
  <2>3. \A g \in AnyGrant : g.on # o => (g \in acl' <=> g \in acl)
    BY DEF Grants
  <2>4. QED
    BY <2>1, <2>2, <2>3, ChangeStep
<1>5. ASSUME NEW t \in Relation, CreateTable(t)
      PROVE  ReaderRoleInv'
  <2>. USE <1>5 DEF CreateTable
  <2>1. {exists, elevated, member}' \subseteq BOOLEAN
    OBVIOUS
  <2>2. QED
    BY <2>1, ChangeStep
<1>6. ASSUME NEW t \in Relation, DropTable(t)
      PROVE  ReaderRoleInv'
  <2>. USE <1>6 DEF DropTable
  <2>1. {exists, elevated, member}' \subseteq BOOLEAN
    OBVIOUS
  <2>2. acl' \subseteq AnyGrant
        /\ \A g \in AnyGrant : g.on # t => (g \in acl' <=> g \in acl)
    OBVIOUS
  <2>3. QED
    BY <2>1, <2>2, ChangeStep
<1>7. QED
  BY <1>1, <1>2, <1>3, <1>4, <1>5, <1>6 DEF Others

-----------------------------------------------------------------------------
(***************************************************************************)
(* The verification.                                                       *)
(***************************************************************************)

\* What has_*_privilege tells covers what the role and everyone have been
\* granted, and is that, unless the role is in a group.
LEMMA CanCoversSeen ==
  ASSUME ReaderRoleInv, pc \in Verifying, NEW o \in Object, o \notin owns
  PROVE  Seen(o) \subseteq Can(o) /\ (~member => Can(o) = Seen(o))
<1>. DEFINE of == Direct \cup {"PUBLIC"} \cup (IF member THEN {"group"} ELSE {})
            through == {h \in Visible : h.on = o /\ h.to \in of}
            others == {h \in Visible : h.on = o /\ h.to # "group"}
<1>1. ~Superuser
  BY DEF ReaderRoleInv, TransactionHolds, Superuser
<1>2. Can(o) = {g.what : g \in through}
  BY <1>1 DEF Can
<1>3. \A h \in Visible : h.to \in Direct \cup {"PUBLIC", "group"}
  BY DEF ReaderRoleInv, RoleTypeOK, Visible, AnyGrant, Grantee
<1>4. others \subseteq through
  BY <1>3
<1>5. ~member => through = others
  BY <1>3 DEF Direct
<1>. HIDE DEF through, others
<1>6. Seen(o) = {g.what : g \in others}
  BY DEF Seen, others
<1>7. QED
  BY <1>2, <1>4, <1>5, <1>6

\* The reader itself has been granted CONNECT and USAGE.
LEMMA ReaderHasBeenGranted ==
  ASSUME ReaderRoleInv, pc \in Verifying
  PROVE  "CONNECT" \in Seen("database") /\ "USAGE" \in Seen("banking")
<1>. DEFINE connect == [to |-> "reader", on |-> "database", what |-> "CONNECT"]
            usage == [to |-> "reader", on |-> "banking", what |-> "USAGE"]
<1>1. Executed = 13
  BY NamedIsLocked
<1>2. connect \in AnyGrant /\ usage \in AnyGrant
  BY PrivilegesOf DEF AnyGrant, Grantee, Direct, Object, Named, Privilege
<1>3. tables \subseteq Relation
  BY DEF ReaderRoleInv, RoleTypeOK
<1>4. "database" \notin tables /\ "banking" \notin tables
  BY <1>3, RelationsApart DEF Named
<1>5. Decides(1, connect)
  <2>1. Names(1, connect)
    BY StatementsAre DEF StatementList, Names, Grants, Grant
  <2>2. \A j \in {2, 3, 4, 5, 6, 7} : ~Names(j, connect)
    BY <1>4, StatementsAre DEF StatementList, Names, Grants, Grant, Revoke
  <2>3. \A j \in {8, 9, 10, 11, 12, 13} : ~Names(j, connect)
    BY <1>4, StatementsAre DEF StatementList, Names, Grants, Grant, Revoke
  <2>4. QED
    BY <1>1, <2>1, <2>2, <2>3, Thirteen DEF Decides
<1>6. Decides(9, usage)
  <2>1. Names(9, usage)
    BY StatementsAre DEF StatementList, Names, Grants, Grant
  <2>2. \A j \in {10, 11, 12, 13} : ~Names(j, usage)
    BY <1>4, StatementsAre DEF StatementList, Names, Grants, Grant, Revoke
  <2>3. QED
    BY <1>1, <2>1, <2>2, Thirteen DEF Decides
<1>7. Statements[1].grants /\ Statements[9].grants
  BY StatementsAre DEF StatementList, Grant
<1>8. connect \in Visible /\ usage \in Visible
  <2>1. connect.on \in Named /\ usage.on \in Named
    BY DEF Named
  <2>. HIDE DEF connect, usage
  <2>2. QED
    BY <1>1, <1>2, <1>5, <1>6, <1>7, <2>1 DEF ReaderRoleInv, InEffect
<1>9. QED
  BY <1>8 DEF Seen

\* On what the others leave alone, the last statement that names a grant has
\* decided on it.
LEMMA Decided ==
  ASSUME ReaderRoleInv, clean, pc \in Verifying
  PROVE  LET G(to, on, what) == [to |-> to, on |-> on, what |-> what] IN
         /\ G("reader", "database", "CREATE") \notin Visible
         /\ G("PUBLIC", "database", "TEMPORARY") \notin Visible
         /\ G("reader", "database", "TEMPORARY") \notin Visible
         /\ G("PUBLIC", "banking", "CREATE") \notin Visible
         /\ G("PUBLIC", "public", "CREATE") \notin Visible
         /\ G("reader", "banking", "CREATE") \notin Visible
         /\ G("reader", "public", "CREATE") \notin Visible
         /\ G("reader", "sequence", "USAGE") \notin Visible
         /\ \A t \in tables :
              /\ G("PUBLIC", t, "SELECT") \notin Visible
              /\ G("PUBLIC", t, "UPDATE") \notin Visible
              /\ G("reader", t, "UPDATE") \notin Visible
              /\ G("reader", t, "SELECT") \in Visible
<1>. DEFINE G(to, on, what) == [to |-> to, on |-> on, what |-> what]
<1>1. Executed = 13
  BY NamedIsLocked
<1>2. tables \subseteq Relation
  BY DEF ReaderRoleInv, RoleTypeOK
<1>3. ASSUME NEW g \in AnyGrant, NEW i \in 1..13, Decides(i, g)
      PROVE  g \in Visible <=> Statements[i].grants
  BY <1>1, <1>3 DEF ReaderRoleInv, InEffect
<1>4. \A o \in Named : o \notin tables
  BY <1>2, RelationsApart
<1>5. {"database", "banking", "public", "sequence"} \subseteq Named
  BY DEF Named
<1>6. ASSUME NEW to \in {"reader", "PUBLIC"}, NEW o \in Object, NEW what \in Privileges(o)
      PROVE  G(to, o, what) \in AnyGrant
  BY PrivilegesType DEF AnyGrant, Grantee, Direct
<1>7. Decides(2, G("reader", "database", "CREATE"))
  <2>1. Names(2, G("reader", "database", "CREATE"))
    BY StatementsAre, PrivilegesOf DEF StatementList, Names, Grants, Grant, Revoke
  <2>2. \A j \in {3, 4, 5, 6, 7, 8} : ~Names(j, G("reader", "database", "CREATE"))
    BY <1>4, <1>5, StatementsAre DEF StatementList, Names, Grants, Grant, Revoke
  <2>3. \A j \in {9, 10, 11, 12, 13} : ~Names(j, G("reader", "database", "CREATE"))
    BY <1>4, <1>5, StatementsAre DEF StatementList, Names, Grants, Grant, Revoke
  <2>4. QED
    BY <1>1, <2>1, <2>2, <2>3, Thirteen DEF Decides
<1>8. Decides(3, G("PUBLIC", "database", "TEMPORARY"))
  <2>1. Names(3, G("PUBLIC", "database", "TEMPORARY"))
    BY StatementsAre, PrivilegesOf DEF StatementList, Names, Grants, Grant, Revoke
  <2>2. \A j \in {4, 5, 6, 7, 8, 9} : ~Names(j, G("PUBLIC", "database", "TEMPORARY"))
    BY <1>4, <1>5, StatementsAre DEF StatementList, Names, Grants, Grant, Revoke
  <2>3. \A j \in {10, 11, 12, 13} : ~Names(j, G("PUBLIC", "database", "TEMPORARY"))
    BY <1>4, <1>5, StatementsAre DEF StatementList, Names, Grants, Grant, Revoke
  <2>4. QED
    BY <1>1, <2>1, <2>2, <2>3, Thirteen DEF Decides
<1>9. Decides(4, G("reader", "database", "TEMPORARY"))
  <2>1. Names(4, G("reader", "database", "TEMPORARY"))
    BY StatementsAre, PrivilegesOf DEF StatementList, Names, Grants, Grant, Revoke
  <2>2. \A j \in {5, 6, 7, 8, 9, 10} : ~Names(j, G("reader", "database", "TEMPORARY"))
    BY <1>4, <1>5, StatementsAre DEF StatementList, Names, Grants, Grant, Revoke
  <2>3. \A j \in {11, 12, 13} : ~Names(j, G("reader", "database", "TEMPORARY"))
    BY <1>4, <1>5, StatementsAre DEF StatementList, Names, Grants, Grant, Revoke
  <2>4. QED
    BY <1>1, <2>1, <2>2, <2>3, Thirteen DEF Decides
<1>10. Decides(6, G("PUBLIC", "banking", "CREATE"))
  <2>1. Names(6, G("PUBLIC", "banking", "CREATE"))
    BY StatementsAre, PrivilegesOf DEF StatementList, Names, Grants, Grant, Revoke
  <2>2. \A j \in {7, 8, 9, 10, 11, 12} : ~Names(j, G("PUBLIC", "banking", "CREATE"))
    BY <1>4, <1>5, StatementsAre DEF StatementList, Names, Grants, Grant, Revoke
  <2>3. \A j \in {13} : ~Names(j, G("PUBLIC", "banking", "CREATE"))
    BY <1>4, <1>5, StatementsAre DEF StatementList, Names, Grants, Grant, Revoke
  <2>4. QED
    BY <1>1, <2>1, <2>2, <2>3, Thirteen DEF Decides
<1>11. Decides(7, G("PUBLIC", "public", "CREATE"))
  <2>1. Names(7, G("PUBLIC", "public", "CREATE"))
    BY StatementsAre, PrivilegesOf DEF StatementList, Names, Grants, Grant, Revoke
  <2>2. \A j \in {8, 9, 10, 11, 12, 13} : ~Names(j, G("PUBLIC", "public", "CREATE"))
    BY <1>4, <1>5, StatementsAre DEF StatementList, Names, Grants, Grant, Revoke
  <2>3. QED
    BY <1>1, <2>1, <2>2, Thirteen DEF Decides
<1>12. Decides(10, G("reader", "banking", "CREATE"))
  <2>1. Names(10, G("reader", "banking", "CREATE"))
    BY StatementsAre, PrivilegesOf DEF StatementList, Names, Grants, Grant, Revoke
  <2>2. \A j \in {11, 12, 13} : ~Names(j, G("reader", "banking", "CREATE"))
    BY <1>4, <1>5, StatementsAre DEF StatementList, Names, Grants, Grant, Revoke
  <2>3. QED
    BY <1>1, <2>1, <2>2, Thirteen DEF Decides
<1>13. Decides(11, G("reader", "public", "CREATE"))
  <2>1. Names(11, G("reader", "public", "CREATE"))
    BY StatementsAre, PrivilegesOf DEF StatementList, Names, Grants, Grant, Revoke
  <2>2. \A j \in {12, 13} : ~Names(j, G("reader", "public", "CREATE"))
    BY <1>4, <1>5, StatementsAre DEF StatementList, Names, Grants, Grant, Revoke
  <2>3. QED
    BY <1>1, <2>1, <2>2, Thirteen DEF Decides
<1>14. Decides(13, G("reader", "sequence", "USAGE"))
  <2>1. Names(13, G("reader", "sequence", "USAGE"))
    BY StatementsAre, PrivilegesOf DEF StatementList, Names, Grants, Grant, Revoke
  <2>2. QED
    BY <1>1, <2>1, Thirteen DEF Decides
<1>15. ASSUME NEW t \in tables
      PROVE  /\ Decides(5, G("PUBLIC", t, "SELECT")) /\ Decides(5, G("PUBLIC", t, "UPDATE"))
             /\ Decides(8, G("reader", t, "UPDATE")) /\ Decides(12, G("reader", t, "SELECT"))
  <2>1. t \notin Named
    BY <1>4
  <2>2. /\ Names(5, G("PUBLIC", t, "SELECT")) /\ Names(5, G("PUBLIC", t, "UPDATE"))
        /\ Names(8, G("reader", t, "UPDATE")) /\ Names(12, G("reader", t, "SELECT"))
    BY StatementsAre, PrivilegesOf DEF StatementList, Names, Grants, Grant, Revoke
  <2>3. \A j \in {6, 7, 8, 9} : /\ ~Names(j, G("PUBLIC", t, "SELECT"))
                                /\ ~Names(j, G("PUBLIC", t, "UPDATE"))
    BY <2>1, <1>5, StatementsAre DEF StatementList, Names, Grants, Grant, Revoke
  <2>4. \A j \in {10, 11, 12, 13} : /\ ~Names(j, G("PUBLIC", t, "SELECT"))
                                    /\ ~Names(j, G("PUBLIC", t, "UPDATE"))
    BY <2>1, <1>5, StatementsAre DEF StatementList, Names, Grants, Grant, Revoke
  <2>5. \A j \in {9, 10, 11, 12, 13} : ~Names(j, G("reader", t, "UPDATE"))
    BY <2>1, <1>5, StatementsAre DEF StatementList, Names, Grants, Grant, Revoke
  <2>6. ~Names(13, G("reader", t, "SELECT"))
    BY <2>1, <1>5, StatementsAre DEF StatementList, Names, Grants, Grant, Revoke
  <2>7. /\ \A j \in 6..13 : j \in {6, 7, 8, 9} \cup {10, 11, 12, 13}
        /\ \A j \in 9..13 : j \in {9, 10, 11, 12, 13}
        /\ \A j \in 13..13 : j = 13
    OBVIOUS
  <2>. HIDE DEF G
  <2>8. QED
    BY <1>1, <2>2, <2>3, <2>4, <2>5, <2>6, <2>7 DEF Decides
<1>16. /\ ~Statements[2].grants /\ ~Statements[3].grants /\ ~Statements[4].grants
       /\ ~Statements[5].grants /\ ~Statements[6].grants /\ ~Statements[7].grants
       /\ ~Statements[8].grants /\ ~Statements[10].grants /\ ~Statements[11].grants
       /\ ~Statements[13].grants /\ Statements[12].grants
  BY StatementsAre DEF StatementList, Grant, Revoke
<1>17. {"database", "banking", "public", "sequence"} \cup tables \subseteq Object
  BY <1>2, <1>5 DEF Object
<1>. HIDE DEF G
<1>18. /\ G("reader", "database", "CREATE") \notin Visible
       /\ G("PUBLIC", "database", "TEMPORARY") \notin Visible
       /\ G("reader", "database", "TEMPORARY") \notin Visible
       /\ G("PUBLIC", "banking", "CREATE") \notin Visible
       /\ G("PUBLIC", "public", "CREATE") \notin Visible
       /\ G("reader", "banking", "CREATE") \notin Visible
       /\ G("reader", "public", "CREATE") \notin Visible
       /\ G("reader", "sequence", "USAGE") \notin Visible
  <2>1. /\ G("reader", "database", "CREATE") \in AnyGrant
        /\ G("PUBLIC", "database", "TEMPORARY") \in AnyGrant
        /\ G("reader", "database", "TEMPORARY") \in AnyGrant
        /\ G("PUBLIC", "banking", "CREATE") \in AnyGrant
        /\ G("PUBLIC", "public", "CREATE") \in AnyGrant
        /\ G("reader", "banking", "CREATE") \in AnyGrant
        /\ G("reader", "public", "CREATE") \in AnyGrant
        /\ G("reader", "sequence", "USAGE") \in AnyGrant
    BY <1>6, <1>17, PrivilegesOf
  <2>2. QED
    BY <2>1, <1>3, <1>7, <1>8, <1>9, <1>10, <1>11, <1>12, <1>13, <1>14, <1>16
<1>19. ASSUME NEW t \in tables
       PROVE  /\ G("PUBLIC", t, "SELECT") \notin Visible
              /\ G("PUBLIC", t, "UPDATE") \notin Visible
              /\ G("reader", t, "UPDATE") \notin Visible
              /\ G("reader", t, "SELECT") \in Visible
  <2>1. {"SELECT", "UPDATE"} \subseteq Privileges(t) /\ t \in Object
    BY <1>2, <1>17, PrivilegesOf
  <2>2. /\ G("PUBLIC", t, "SELECT") \in AnyGrant /\ G("PUBLIC", t, "UPDATE") \in AnyGrant
        /\ G("reader", t, "UPDATE") \in AnyGrant /\ G("reader", t, "SELECT") \in AnyGrant
    BY <1>6, <2>1
  <2>3. QED
    BY <1>3, <1>15, <1>16, <2>2
<1>20. QED
  BY <1>18, <1>19 DEF G

\* With nothing in its way, the command finds what it has made.
LEMMA CleanIsPrivileged ==
  ASSUME ReaderRoleInv, clean, pc \in Verifying
  PROVE  /\ ~Superuser /\ ~member /\ owns = {} /\ tables # {}
         /\ \A o \in Named \cup tables : Privileged(o, Can(o))
<1>. DEFINE G(to, on, what) == [to |-> to, on |-> on, what |-> what]
<1>1. Clean
  BY DEF ReaderRoleInv, CleanHolds, Verifying, Ended
<1>2. ~member /\ owns = {} /\ tables # {}
  BY <1>1 DEF Clean
<1>3. ~Superuser
  BY DEF ReaderRoleInv, TransactionHolds, Superuser
<1>4. tables \subseteq Relation
  BY DEF ReaderRoleInv, RoleTypeOK
<1>5. \A o \in Named \cup tables : Can(o) = Seen(o)
  BY <1>2, <1>4, CanCoversSeen DEF Object
<1>6. ASSUME NEW o, NEW what \in Seen(o)
      PROVE  /\ what \in Privileges(o)
             /\ \/ G("reader", o, what) \in Visible
                \/ Privileged(o, {what})
                \/ /\ G("PUBLIC", o, what) \in Visible
                   /\ o # "sequence" /\ ~(o = "database" /\ what = "CREATE")
  <2>1. PICK h \in Visible : h.on = o /\ h.to # "group" /\ h.what = what
    BY DEF Seen
  <2>2. h \in AnyGrant
    BY DEF ReaderRoleInv, RoleTypeOK, Visible
  <2>3. h = G(h.to, o, what) /\ what \in Privileges(o)
        /\ h.to \in {"reader", "reader, by another", "PUBLIC"}
    BY <2>1, <2>2 DEF AnyGrant, Grantee, Direct
  <2>4. h.to = "reader" \/ h \in acl
    BY DEF ReaderRoleInv, TransactionHolds, Visible
  <2>5. CASE h.to = "reader"
    BY <2>1, <2>3, <2>5
  <2>6. CASE h.to = "reader, by another"
    BY <1>1, <2>1, <2>3, <2>4, <2>6 DEF Clean
  <2>7. CASE h.to = "PUBLIC"
    BY <1>1, <2>1, <2>3, <2>4, <2>7 DEF Clean
  <2>8. QED
    BY <2>3, <2>5, <2>6, <2>7
<1>7. /\ G("reader", "database", "CREATE") \notin Visible
      /\ G("PUBLIC", "database", "TEMPORARY") \notin Visible
      /\ G("reader", "database", "TEMPORARY") \notin Visible
      /\ G("PUBLIC", "banking", "CREATE") \notin Visible
      /\ G("PUBLIC", "public", "CREATE") \notin Visible
      /\ G("reader", "banking", "CREATE") \notin Visible
      /\ G("reader", "public", "CREATE") \notin Visible
      /\ G("reader", "sequence", "USAGE") \notin Visible
      /\ \A t \in tables :
           /\ G("PUBLIC", t, "SELECT") \notin Visible
           /\ G("PUBLIC", t, "UPDATE") \notin Visible
           /\ G("reader", t, "UPDATE") \notin Visible
           /\ G("reader", t, "SELECT") \in Visible
  BY Decided
<1>8. \A t \in tables : "SELECT" \in Seen(t)
  <2>1. SUFFICES ASSUME NEW t \in tables
                 PROVE  "SELECT" \in Seen(t)
    OBVIOUS
  <2>2. PICK g \in Visible : g.on = t /\ g.to = "reader" /\ g.what = "SELECT"
    BY <1>7
  <2>3. QED
    BY <2>2 DEF Seen
<1>. HIDE DEF G
<1>9. /\ \A what : Privileged("database", {what}) => what = "CONNECT"
      /\ \A what : Privileged("banking", {what}) => what = "USAGE"
      /\ \A what : Privileged("public", {what}) => what # "CREATE"
      /\ \A what : ~Privileged("sequence", {what})
      /\ \A t \in tables : \A what : Privileged(t, {what}) => what = "SELECT"
  <2>1. \A what : /\ Privileged("database", {what}) <=> {what} = {"CONNECT"}
                  /\ Privileged("banking", {what}) <=> {what} = {"USAGE"}
                  /\ Privileged("public", {what}) <=> "CREATE" \notin {what}
                  /\ Privileged("sequence", {what}) <=> {what} = {}
                  /\ \A t \in Relation : Privileged(t, {what}) <=> {what} = {"SELECT"}
    BY PrivilegedMeans
  <2>2. \A what, x : {what} = {x} => what = x
    OBVIOUS
  <2>3. \A what : {what} # {}
    OBVIOUS
  <2>4. \A t \in tables : \A what : Privileged(t, {what}) => what = "SELECT"
    BY <1>4, <2>1, <2>2
  <2>5. QED
    BY <2>1, <2>2, <2>3, <2>4
<1>10. /\ Seen("database") = {"CONNECT"}
       /\ Seen("banking") = {"USAGE"}
  <2>1. Seen("database") \subseteq {"CONNECT"}
    BY <1>6, <1>7, <1>9, PrivilegesOf
  <2>2. Seen("banking") \subseteq {"USAGE"}
    BY <1>6, <1>7, <1>9, PrivilegesOf
  <2>3. QED
    BY <2>1, <2>2, ReaderHasBeenGranted
<1>11. "CREATE" \notin Seen("public") /\ Seen("sequence") = {}
  <2>1. "CREATE" \notin Seen("public")
    BY <1>6, <1>7, <1>9
  <2>2. \A what \in Seen("sequence") : FALSE
    BY <1>6, <1>7, <1>9, PrivilegesOf
  <2>3. QED
    BY <2>1, <2>2
<1>12. ASSUME NEW t \in tables
       PROVE  Seen(t) = {"SELECT"}
  <2>1. Privileges(t) = {"SELECT", "UPDATE"}
    BY <1>4, PrivilegesOf
  <2>2. "UPDATE" \notin Seen(t)
    BY <1>6, <1>7, <1>9
  <2>3. Seen(t) \subseteq {"SELECT", "UPDATE"}
    BY <1>6, <2>1
  <2>4. QED
    BY <1>8, <2>2, <2>3
<1>13. \A o \in Named \cup tables : Privileged(o, Seen(o))
  <2>1. /\ Privileged("database", Seen("database"))
        /\ Privileged("banking", Seen("banking"))
        /\ Privileged("public", Seen("public"))
        /\ Privileged("sequence", Seen("sequence"))
    BY <1>10, <1>11, PrivilegedMeans
  <2>2. \A t \in tables : Privileged(t, Seen(t))
    BY <1>4, <1>12, PrivilegedMeans
  <2>3. QED
    BY <2>1, <2>2 DEF Named
<1>14. QED
  BY <1>2, <1>3, <1>5, <1>13

\* The verification goes on: nothing but what is verified changes.
LEMMA AdvanceStep ==
  ASSUME ReaderRoleInv, pc \in Verifying, pc' \in Verifying,
         UNCHANGED <<catalog, step, transaction, history>>,
         VerifiedHolds', CleanHolds'
  PROVE  ReaderRoleInv'
<1>. USE DEF ReaderRoleInv, catalog, transaction, history
<1>1. Statements' = Statements
  BY StatementsStay
<1>2. Executed' = Executed
  BY NumberOfStatements DEF Executed
<1>3. RoleTypeOK'
  BY NumberOfStatements DEF RoleTypeOK
<1>4. TransactionHolds'
  BY <1>1, <1>2 DEF TransactionHolds, Verifying, Preparing, Ended
<1>5. Visible' = Visible
  BY DEF Visible
<1>6. InEffect'
  BY <1>1, <1>2, <1>5, EffectStays
<1>7. ProvisionedIsBounded' /\ RefusedForCause'
  BY DEF ProvisionedIsBounded, RefusedForCause, Verifying
<1>8. QED
  BY <1>3, <1>4, <1>6, <1>7

\* What was verified is still so when nothing has changed.
LEMMA SeenStays ==
  ASSUME UNCHANGED <<acl, touched, own>>, NEW o
  PROVE  Seen(o)' = Seen(o)
<1>1. Visible' = Visible
  BY DEF Visible
<1>2. QED
  BY <1>1 DEF Seen

\* A query that finds what it asks for, or the refusal.
LEMMA VerifyStep ==
  ASSUME ReaderRoleInv, NEW at \in Verifying \ {"relations"},
         NEW next \in Verifying \ {"relations"}, NEW holds \in BOOLEAN,
         Verify(at, holds, next),
         clean => holds,
         holds => VerifiedHolds'
  PROVE  ReaderRoleInv'
<1>1. CASE holds
  <2>1. /\ pc = at /\ pc' = next
        /\ UNCHANGED <<catalog, step, listed, transaction, history>>
    BY <1>1 DEF Verify, Goto
  <2>2. Clean' <=> Clean
    BY <2>1 DEF Clean, catalog
  <2>3. pc \notin Ended /\ next \notin Ended
    BY <2>1 DEF Verifying, Ended
  <2>4. CleanHolds'
    BY <2>1, <2>2, <2>3 DEF ReaderRoleInv, CleanHolds, catalog, history
  <2>5. QED
    BY <1>1, <2>1, <2>4, AdvanceStep
<1>2. CASE ~holds
  BY <1>2, RollbackStep DEF Verify
<1>3. QED
  BY <1>1, <1>2

LEMMA VerifyRoleStep ==
  ASSUME ReaderRoleInv, VerifyRole
  PROVE  ReaderRoleInv'
<1>1. ASSUME Verify("members", ~Superuser /\ ~member, "owners")
      PROVE  ReaderRoleInv'
  <2>. DEFINE holds == ~Superuser /\ ~member
  <2>1. pc = "members"
    BY <1>1 DEF Verify
  <2>2. clean => holds
    BY <2>1, CleanIsPrivileged DEF Verifying
  <2>3. holds => VerifiedHolds'
    BY <1>1 DEF Verify, Goto, VerifiedHolds, catalog
  <2>4. holds \in BOOLEAN /\ "members" \in Verifying \ {"relations"}
        /\ "owners" \in Verifying \ {"relations"}
    BY DEF Verifying
  <2>. HIDE DEF holds
  <2>5. Verify("members", holds, "owners")
    BY <1>1 DEF holds
  <2>6. QED
    BY <2>2, <2>3, <2>4, <2>5, VerifyStep
<1>2. ASSUME Verify("owners", owns = {}, "database")
      PROVE  ReaderRoleInv'
  <2>. DEFINE holds == owns = {}
  <2>1. pc = "owners"
    BY <1>2 DEF Verify
  <2>2. clean => holds
    BY <2>1, CleanIsPrivileged DEF Verifying
  <2>3. holds => VerifiedHolds'
    BY <1>2, <2>1
       DEF Verify, Goto, VerifiedHolds, catalog, history, ReaderRoleInv, Verifying
  <2>4. holds \in BOOLEAN /\ "owners" \in Verifying \ {"relations"}
        /\ "database" \in Verifying \ {"relations"}
    BY DEF Verifying
  <2>. HIDE DEF holds
  <2>5. Verify("owners", holds, "database")
    BY <1>2 DEF holds
  <2>6. QED
    BY <2>2, <2>3, <2>4, <2>5, VerifyStep
<1>3. QED
  BY <1>1, <1>2 DEF VerifyRole

\* An object that the reader is found to be privileged for as it should be.
LEMMA FoundPrivileged ==
  ASSUME ReaderRoleInv, pc \in Verifying \ {"members", "owners"},
         NEW o \in Named, Privileged(o, Can(o))
  PROVE  Privileged(o, Seen(o))
<1>1. o \notin owns /\ o \in Object
  BY DEF ReaderRoleInv, VerifiedHolds, Object
<1>2. Seen(o) \subseteq Can(o)
  BY <1>1, CanCoversSeen
<1>3. CASE o = "database"
  BY <1>2, <1>3, PrivilegedMeans, ReaderHasBeenGranted
<1>4. CASE o = "banking"
  BY <1>2, <1>4, PrivilegedMeans, ReaderHasBeenGranted
<1>5. CASE o = "public"
  BY <1>2, <1>5, PrivilegedMeans
<1>6. CASE o = "sequence"
  BY <1>2, <1>6, PrivilegedMeans
<1>7. QED
  BY <1>3, <1>4, <1>5, <1>6 DEF Named

LEMMA VerifyObjectsStep ==
  ASSUME ReaderRoleInv, VerifyObjects
  PROVE  ReaderRoleInv'
<1>1. ASSUME NEW o \in Named, NEW next \in Verifying \ {"relations"},
             Verify(o, Privileged(o, Can(o)), next),
             \/ o = "database" /\ next = "banking"
             \/ o = "banking" /\ next = "public"
             \/ o = "public" /\ next = "list"
             \/ o = "sequence" /\ next = "commit"
      PROVE  ReaderRoleInv'
  <2>. DEFINE holds == Privileged(o, Can(o))
  <2>1. pc = o /\ o \in Verifying \ {"members", "owners", "relations"}
    BY <1>1 DEF Verify, Verifying
  <2>2. clean => holds
    BY <2>1, CleanIsPrivileged
  <2>3. holds => VerifiedHolds'
    <3>1. SUFFICES ASSUME holds PROVE VerifiedHolds'
      OBVIOUS
    <3>2. pc' = next /\ UNCHANGED <<catalog, step, listed, transaction, history>>
      BY <1>1, <3>1 DEF Verify, Goto
    <3>3. Privileged(o, Seen(o))
      BY <2>1, <3>1, FoundPrivileged
    <3>4. \A x : Seen(x)' = Seen(x)
      BY <3>2, SeenStays DEF catalog, transaction
    <3>5. VerifiedHolds
      BY DEF ReaderRoleInv
    <3>6. CASE o = "database" /\ next = "banking"
      BY <2>1, <3>2, <3>3, <3>4, <3>5, <3>6
         DEF VerifiedHolds, catalog, history, Verifying
    <3>7. CASE o = "banking" /\ next = "public"
      BY <2>1, <3>2, <3>3, <3>4, <3>5, <3>7
         DEF VerifiedHolds, catalog, history, Verifying
    <3>8. CASE o = "public" /\ next = "list"
      BY <2>1, <3>2, <3>3, <3>4, <3>5, <3>8
         DEF VerifiedHolds, catalog, history, Verifying
    <3>9. CASE o = "sequence" /\ next = "commit"
      BY <2>1, <3>2, <3>3, <3>4, <3>5, <3>9
         DEF VerifiedHolds, catalog, history, Verifying
    <3>10. QED
      BY <1>1, <3>6, <3>7, <3>8, <3>9
  <2>4. holds \in BOOLEAN
    BY Zenon DEF Privileged
  <2>. HIDE DEF holds
  <2>5. Verify(o, holds, next)
    BY <1>1 DEF holds
  <2>6. QED
    BY <2>1, <2>2, <2>3, <2>4, <2>5, VerifyStep
<1>2. /\ {"database", "banking", "public", "sequence"} \subseteq Named
      /\ {"banking", "public", "list", "commit"} \subseteq Verifying \ {"relations"}
  BY DEF Named, Verifying
<1>3. CASE Verify("database", Privileged("database", Can("database")), "banking")
  BY <1>1, <1>2, <1>3
<1>4. CASE Verify("banking", Privileged("banking", Can("banking")), "public")
  BY <1>1, <1>2, <1>4
<1>5. CASE Verify("public", Privileged("public", Can("public")), "list")
  BY <1>1, <1>2, <1>5
<1>6. CASE Verify("sequence", Privileged("sequence", Can("sequence")), "commit")
  BY <1>1, <1>2, <1>6
<1>7. QED
  BY <1>3, <1>4, <1>5, <1>6 DEF VerifyObjects

LEMMA ListRelationsStep ==
  ASSUME ReaderRoleInv, ListRelations
  PROVE  ReaderRoleInv'
<1>1. pc = "list" /\ pc \in Verifying /\ pc \notin Ended
  BY DEF ListRelations, Verifying, Ended
<1>2. CASE tables = {}
  BY <1>1, <1>2, CleanIsPrivileged, RollbackStep DEF ListRelations
<1>3. CASE tables # {}
  <2>1. /\ pc' = "relations" /\ listed' = tables
        /\ UNCHANGED <<catalog, step, transaction, history>>
    BY <1>3 DEF ListRelations, Goto
  <2>2. UNCHANGED <<exists, elevated, member, owns, tables, acl, late, clean>>
    BY <2>1 DEF catalog, history
  <2>3. \A o : Seen(o)' = Seen(o)
    BY <2>1, SeenStays DEF catalog, transaction
  <2>4. VerifiedHolds'
    BY <1>1, <2>1, <2>2, <2>3 DEF ReaderRoleInv, VerifiedHolds, Verifying
  <2>5. Clean' <=> Clean
    BY <2>2 DEF Clean
  <2>6. CleanHolds'
    BY <1>1, <2>1, <2>2, <2>5 DEF ReaderRoleInv, CleanHolds
  <2>7. pc' \in Verifying
    BY <2>1 DEF Verifying
  <2>8. QED
    BY <1>1, <2>1, <2>4, <2>6, <2>7, AdvanceStep
<1>4. QED
  BY <1>2, <1>3

\* A relation that the reader is found to be privileged for as it should be.
LEMMA FoundSelect ==
  ASSUME ReaderRoleInv, pc \in Verifying, NEW t \in tables,
         Privileged(t, Can(t))
  PROVE  Seen(t) \subseteq {"SELECT"} /\ (member \/ "SELECT" \in Seen(t))
<1>1. t \in Relation /\ t \in Object
  BY DEF ReaderRoleInv, RoleTypeOK, Object
<1>2. Can(t) = {"SELECT"}
  BY <1>1, PrivilegedMeans
<1>3. t \notin owns
  <2>1. SUFFICES ASSUME t \in owns PROVE FALSE
    OBVIOUS
  <2>2. Can(t) = Privileges(t)
    BY <2>1, Zenon DEF Can
  <2>3. Privileges(t) = {"SELECT", "UPDATE"}
    BY <1>1, PrivilegesOf
  <2>4. QED
    BY <1>2, <2>2, <2>3
<1>4. QED
  BY <1>1, <1>2, <1>3, CanCoversSeen

LEMMA VerifyRelationStep ==
  ASSUME ReaderRoleInv, VerifyRelation
  PROVE  ReaderRoleInv'
<1>1. pc = "relations" /\ pc \in Verifying /\ pc \notin Ended
  BY DEF VerifyRelation, Verifying, Ended
<1>2. ASSUME UNCHANGED <<catalog, step, transaction, history>>,
             pc' \in {"relations", "sequence"}, listed' \subseteq listed,
             pc' = "sequence" => listed' = {},
             \A t \in tables \ (late \cup listed') :
               Seen(t) \subseteq {"SELECT"} /\ (member \/ "SELECT" \in Seen(t))
      PROVE  ReaderRoleInv'
  <2>1. UNCHANGED <<exists, elevated, member, owns, tables, acl, late, clean>>
    BY <1>2 DEF catalog, history
  <2>2. \A o : Seen(o)' = Seen(o)
    BY <1>2, SeenStays DEF catalog, transaction
  <2>3. pc' \in Verifying /\ pc' \notin Ended
    BY <1>2 DEF Verifying, Ended
  <2>4. VerifiedHolds'
    BY <1>1, <1>2, <2>1, <2>2 DEF ReaderRoleInv, VerifiedHolds, Verifying
  <2>5. Clean' <=> Clean
    BY <2>1 DEF Clean
  <2>6. CleanHolds'
    BY <1>1, <1>2, <2>1, <2>5 DEF ReaderRoleInv, CleanHolds
  <2>7. QED
    BY <1>1, <1>2, <2>3, <2>4, <2>6, AdvanceStep
<1>3. CASE listed = {} /\ pc' = "sequence"
           /\ UNCHANGED <<catalog, step, listed, transaction, history>>
  BY <1>1, <1>2, <1>3 DEF ReaderRoleInv, VerifiedHolds
<1>4. ASSUME NEW t \in listed,
             IF t \in tables /\ Privileged(t, Can(t))
               THEN /\ listed' = listed \ {t}
                    /\ UNCHANGED <<catalog, pc, step, transaction, history>>
               ELSE Rollback("refused")
      PROVE  ReaderRoleInv'
  <2>1. CASE t \in tables /\ Privileged(t, Can(t))
    <3>1. /\ listed' = listed \ {t}
          /\ UNCHANGED <<catalog, pc, step, transaction, history>>
      BY <1>4, <2>1
    <3>2. Seen(t) \subseteq {"SELECT"} /\ (member \/ "SELECT" \in Seen(t))
      BY <1>1, <2>1, FoundSelect
    <3>3. \A x \in tables \ (late \cup listed') :
            Seen(x) \subseteq {"SELECT"} /\ (member \/ "SELECT" \in Seen(x))
      BY <1>1, <3>1, <3>2 DEF ReaderRoleInv, VerifiedHolds
    <3>4. QED
      BY <1>1, <1>2, <3>1, <3>3
  <2>2. CASE ~(t \in tables /\ Privileged(t, Can(t)))
    <3>1. Rollback("refused")
      BY <1>4, <2>2
    <3>2. clean => t \in tables
      BY <1>1 DEF ReaderRoleInv, CleanHolds
    <3>3. ~clean
      BY <1>1, <2>2, <3>2, CleanIsPrivileged
    <3>4. QED
      BY <3>1, <3>3, RollbackStep
  <2>3. QED
    BY <2>1, <2>2
<1>5. QED
  BY <1>3, <1>4 DEF VerifyRelation, Goto

\* What has been verified is what is committed.
LEMMA CommitStep ==
  ASSUME ReaderRoleInv, Commit
  PROVE  ReaderRoleInv'
<1>1. /\ pc = "commit" /\ pc' = "provisioned"
      /\ exists' = TRUE /\ elevated' = FALSE /\ acl' = Visible
      /\ touched' = {} /\ own' = {}
      /\ UNCHANGED <<member, owns, tables, step, listed, clean, late, changes>>
  BY DEF Commit, Goto, history
<1>2. Visible \subseteq AnyGrant
  BY DEF ReaderRoleInv, RoleTypeOK, Visible
<1>3. RoleTypeOK'
  <2>1. {exists, elevated, member, clean}' \subseteq BOOLEAN
    BY <1>1 DEF ReaderRoleInv, RoleTypeOK
  <2>2. QED
    BY <1>1, <1>2, <2>1, NumberOfStatements DEF ReaderRoleInv, RoleTypeOK, Ended
<1>4. Executed' = 0
  BY <1>1 DEF Executed, Verifying
<1>5. TransactionHolds' /\ InEffect'
  BY <1>1, <1>4
     DEF ReaderRoleInv, TransactionHolds, InEffect, Verifying, Preparing, Ended
<1>6. VerifiedHolds' /\ CleanHolds' /\ RefusedForCause'
  BY <1>1 DEF ReaderRoleInv, VerifiedHolds, CleanHolds, RefusedForCause,
              Verifying, Ended
<1>7. \A o : Granted(o)' = Seen(o)
  BY <1>1 DEF Granted, Seen
<1>8. /\ member => "member" \in late
      /\ owns \subseteq late \ Named
      /\ \A t \in tables \ late :
           Seen(t) \subseteq {"SELECT"} /\ (member \/ "SELECT" \in Seen(t))
  BY <1>1 DEF ReaderRoleInv, VerifiedHolds, CleanHolds, Verifying
<1>9. \A o \in Named : Privileged(o, Seen(o))
  BY <1>1 DEF ReaderRoleInv, VerifiedHolds, Named
<1>10. ProvisionedIsBounded'
  BY <1>1, <1>7, <1>8, <1>9 DEF ProvisionedIsBounded
<1>11. QED
  BY <1>3, <1>5, <1>6, <1>10 DEF ReaderRoleInv

LEMMA StutterStep ==
  ASSUME ReaderRoleInv, UNCHANGED vars
  PROVE  ReaderRoleInv'
<1>. USE DEF vars, catalog, transaction, history
<1>1. Statements' = Statements /\ Visible' = Visible
  BY StatementsStay DEF Visible
<1>2. Executed' = Executed
  BY NumberOfStatements DEF Executed
<1>3. InEffect'
  BY <1>1, <1>2, EffectStays DEF ReaderRoleInv
<1>4. \A o : Seen(o)' = Seen(o) /\ Granted(o)' = Granted(o)
  BY SeenStays DEF Granted
<1>5. Clean' <=> Clean
  BY DEF Clean
<1>6. RoleTypeOK' /\ TransactionHolds'
  BY <1>1, <1>2, NumberOfStatements DEF ReaderRoleInv, RoleTypeOK, TransactionHolds
<1>7. VerifiedHolds' /\ ProvisionedIsBounded'
  BY <1>4 DEF ReaderRoleInv, VerifiedHolds, ProvisionedIsBounded
<1>8. CleanHolds' /\ RefusedForCause'
  BY <1>5 DEF ReaderRoleInv, CleanHolds, RefusedForCause
<1>9. QED
  BY <1>3, <1>6, <1>7, <1>8 DEF ReaderRoleInv

LEMMA NextInv == ReaderRoleInv /\ [Next]_vars => ReaderRoleInv'
<1>1. ASSUME ReaderRoleInv, Fail
      PROVE  ReaderRoleInv'
  BY <1>1, RollbackStep DEF Fail
<1>2. ASSUME ReaderRoleInv, Command
      PROVE  ReaderRoleInv'
  BY <1>1, <1>2, BeginStep, CheckExistingStep, CreateOrAlterRoleStep,
     ExecuteStep, VerifyRoleStep, VerifyObjectsStep, ListRelationsStep,
     VerifyRelationStep, CommitStep
     DEF Command
<1>3. QED
  BY <1>2, OthersStep, StutterStep DEF Next

LEMMA ReaderRoleInvariant == Spec => []ReaderRoleInv
BY InitInv, NextInv, PTL DEF Spec

\* Whatever others do to the database while the command runs, a role that it
\* reports as provisioned can do no more than it should, but for what slipped
\* in during the verification where nothing is locked (provision_reader_role).
THEOREM BoundedRole == Spec => []ProvisionedIsBounded
<1>1. ReaderRoleInv => ProvisionedIsBounded
  BY DEF ReaderRoleInv
<1>2. QED
  BY <1>1, ReaderRoleInvariant, PTL

\* With a role that is new or clean and nobody else at work the command is not
\* refused: its statements make what its verification asks for.
THEOREM RefusalHasCause == Spec => []RefusedForCause
<1>1. ReaderRoleInv => RefusedForCause
  BY DEF ReaderRoleInv
<1>2. QED
  BY <1>1, ReaderRoleInvariant, PTL
=============================================================================
