----------------------------- MODULE LumenLedger -----------------------------
(***************************************************************************)
(* What the ledger promises about lumens, whatever the operations are: the *)
(* balances and the fee pool always add up to the total supply; in a      *)
(* transaction only the accounts that signed it (its source and the      *)
(* sources of its operations) may lose lumens, and the supply does not    *)
(* change, and the fee pool does not shrink; only a transaction that runs *)
(* an inflation (the count of inflations rises) may also pay out the fee  *)
(* pool and raise the supply.  Closing a ledger moves nothing.            *)
(***************************************************************************)
EXTENDS Naturals, FiniteSetsExt

CONSTANT Accounts   \* account ids

VARIABLES
  balances,   \* balances[a]: lumens held by a (0 when a has no account)
  pool,       \* lumens in the fee pool
  supply,     \* total lumens
  signers,    \* the accounts that signed the transaction of the last step
  inflations  \* inflations run so far

vars == <<balances, pool, supply, signers, inflations>>

Held(b, p) == MapThenSumSet(LAMBDA a : b[a], Accounts) + p

Init ==
  /\ balances \in [Accounts -> Nat]
  /\ pool \in Nat
  /\ supply = Held(balances, pool)
  /\ signers = {}
  /\ inflations \in Nat

\* Lumens held after the step make up the supply, and no account outside
\* S has fewer.
OnlySignersPay(S) ==
  /\ Held(balances', pool') = supply'
  /\ \A a \in Accounts \ S : balances'[a] >= balances[a]

\* A transaction signed by S: lumens move, from S only, into accounts or
\* the pool.
Transfer(S) ==
  /\ signers' = S
  /\ UNCHANGED inflations
  /\ supply' = supply
  /\ pool' >= pool
  /\ OnlySignersPay(S)

\* A transaction with an inflation: the pool may be paid out and new
\* lumens minted.
Inflate(S) ==
  /\ signers' = S
  /\ inflations' > inflations
  /\ supply' >= supply
  /\ OnlySignersPay(S)

\* A ledger closes.
Tick ==
  /\ signers' = {}
  /\ UNCHANGED <<balances, pool, supply, inflations>>

Next == Tick \/ \E S \in SUBSET Accounts \ {{}} : Transfer(S) \/ Inflate(S)

Spec == Init /\ [][Next]_vars

=============================================================================
