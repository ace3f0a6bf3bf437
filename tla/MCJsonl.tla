------------------------------- MODULE MCJsonl -------------------------------
EXTENDS Jsonl

w(kind, key) == [kind |-> kind, key |-> key]

\* Entries with their usage row, and two registers set and deleted.
AllTransactions ==
  {<<w("entry", 0), w("usage", 0), w("set", 1)>>, <<w("set", 1)>>,
   <<w("set", 2), w("delete", 1)>>, <<w("delete", 2)>>}

\* Only one register.
RegisterTransactions == {<<w("set", 1)>>, <<w("delete", 1)>>}
=============================================================================
