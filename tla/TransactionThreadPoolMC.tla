---------------------- MODULE TransactionThreadPoolMC ----------------------
(***************************************************************************)
(* Instances of TransactionThreadPool for TLC.                             *)
(***************************************************************************)
EXTENDS TransactionThreadPool, TLC

CONSTANTS d1, d2

\* Two databases, and two objects for the same database.
Distinct == (d1 :> "A") @@ (d2 :> "B")
Same == (d1 :> "A") @@ (d2 :> "A")
Single == (d1 :> "A")

\* Scopes without repeated names, and a choice of them in which transactions
\* meet on one store, on the other, on both and not at all, there being a second
\* object for the database.
PlainScopes == {scope \in Scope : scope.repeated = {}}
MixedScopes ==
    {scope \in PlainScopes :
        \/ scope.db = d1 /\ (scope.mode = "readwrite" \/ scope.names = Stores)
        \/ scope.db = d2 /\ scope.mode = "readwrite" /\ scope.names = Stores}

\* Writers of two databases, readers of one.
SplitScopes ==
    {scope \in PlainScopes : scope.mode = "readonly" => scope.db = d2}

\* Also scopes in which every name is repeated.
RepeatedScopes == {scope \in Scope : scope.repeated \in {{}, scope.names}}

\* The names of stores are only compared for equality.
Symmetric == Permutations(Stores)
=============================================================================
