---------------------------- MODULE MCRowCleaning ----------------------------
(***************************************************************************)
(* An instance of RowCleaning for TLC: a lookup table and one that refers  *)
(* to it, in the three ways of TABLE_SPECS: like the accounts, the         *)
(* transactions and the customers.  Rows deviate in one cell, the first of *)
(* the referring rows in two, from a row without fault.                    *)
(***************************************************************************)
EXTENDS RowCleaning

MCFile == {"lookup", "referring"}
MCOrder == <<"lookup", "referring">>

Lookup == [columns |-> {"id", "name"}, key |-> "id", foreign |-> << >>,
           dates |-> << >>, decimals |-> {}, bounds |-> << >>,
           labels |-> {"name"}]
Referring(policy, kind, bounds) ==
  [columns |-> {"id", "type", "date", "amount"},
   key |-> "id", foreign |-> [type |-> "lookup"],
   dates |-> [date |-> [policy |-> policy, kind |-> kind]],
   decimals |-> DOMAIN bounds, bounds |-> bounds, labels |-> {}]
Amount(least, most) == [amount |-> [least |-> least, most |-> most]]
MCSchemas ==
  {[f \in MCFile |-> IF f = "lookup" THEN Lookup ELSE referring] :
     referring \in {Referring("error", "datetime", Amount(-6, 6)),
                    Referring("reject", "datetime", Amount(1, 6)),
                    Referring("null", "date", << >>)}}

Deviate(rows, variants) ==
  rows \cup UNION {{[row EXCEPT ![c] = cell] :
                      row \in rows, cell \in variants[c]} :
                     c \in DOMAIN variants}

LookupRows ==
  Deviate({[id |-> Plain(1), name |-> Plain(1)]},
          [id |-> {Plain(2), Padded(1), Plain(3), Unreadable, Token},
           name |-> {Plain(2), Empty, Token}])

Variants ==
  [id |-> {Plain(2), Padded(1), Unreadable},
   type |-> {Plain(2), Padded(1), Token, Empty},
   date |-> {Plain(Early), Padded(3), Unreadable, Empty},
   amount |-> {Plain(0), Plain(7), Padded(5), Unreadable, Empty}]
OneOff ==
  Deviate({[id |-> Plain(1), type |-> Plain(1), date |-> Plain(3),
            amount |-> Plain(5)]}, Variants)
TwoOff == Deviate(OneOff, Variants)

UpToTwo(first, second) ==
  {<< >>} \cup {<<r>> : r \in first} \cup {<<r, s>> : r \in first, s \in second}
MCRaw ==
  {[f \in MCFile |-> IF f = "lookup" THEN lookup ELSE referring] :
     lookup \in UpToTwo(LookupRows, LookupRows),
     referring \in UpToTwo(TwoOff, OneOff)}
=============================================================================
