------------------------------ MODULE MCBorrows ------------------------------
(***************************************************************************)
(* Who may look into an account at once: threads of a host process over    *)
(* the two borrow layers (AccountBorrow); and, before any of it, the input *)
(* the accounts and their borrow bytes come from (LoaderInput).  A         *)
(* behaviour is about one of them (`build`).                               *)
(***************************************************************************)
EXTENDS AccountBorrow, LoaderInput, TLC

CONSTANTS c1, c2, c3, c4, p, q, r, t1, t2, g1, g2, g3, g4

\* Thread 1 owns a cell of address p and one of q, thread 2 another cell of p and
\* one of r, over a registry of two entries.
HostThreadOf  == (c1 :> t1) @@ (c2 :> t1) @@ (c3 :> t2) @@ (c4 :> t2)
HostAddressOf == (c1 :> p) @@ (c2 :> q) @@ (c3 :> p) @@ (c4 :> r)

Symmetric == Permutations(Guard)

Record == {Canonical(n) : n \in {0, 1}} \cup {Duplicate(m) : m \in 0 .. 2}

\* Every input of up to two records, sound or not; of three whose first is an
\* account; and some with one or two more than are materialized.  A length that
\* fills its word and one that does not.
Serialized ==
  LET Full(n) == Canonical(n)
      Dup(m)  == Duplicate(m)
  IN  (UNION {[1 .. n -> Record] : n \in 0 .. 2}) \cup
      {<<Full(1)>> \o s : s \in [1 .. 2 -> Record]} \cup
      {<<Full(1), Dup(0), Full(0), Full(1)>>, <<Full(1), Dup(0), Full(0), Dup(3)>>,
       <<Full(1), Dup(0), Full(0), Dup(2), Full(1)>>}

VARIABLE build

\* Any input where it is the input that matters, the empty one elsewhere.
BInit ==
  /\ build \in {"host", "entrypoint"}
  /\ Init /\ LoaderInit
  /\ build # "entrypoint" => input = <<>>

BNext ==
  \/ build = "host" /\ Next /\ UNCHANGED <<build, loader>>
  \/ build = "entrypoint" /\ LoaderNext /\ UNCHANGED <<build, vars>>

BSpec == BInit /\ [][BNext]_<<build, vars, loader>>
=============================================================================
